--------------------------- MODULE Threads_proofs ----------------------------
(***************************************************************************)
(* Theorems about the threads' creation and joining, for any number of     *)
(* threads, blocks, stacks and slots, and about their storage, for any     *)
(* number of keys, values and rounds.  thrd_create and thrd_join give back *)
(* what they took; where the kernel does not write to a control block      *)
(* (ClearTid is FALSE), thrd_join returns the result of the thread it      *)
(* names; and tss_get returns what its thread has set.                     *)
(***************************************************************************)
EXTENDS MCThreads, FiniteSetTheorems, WellFoundedInduction,
        NaturalsInduction, TLAPS

-----------------------------------------------------------------------------
\* Creation, end and joining

\* The blocks of the threads that can be joined
Live == {handles[c] : c \in DOMAIN handles}

InCreate == {"create_tls", "create_stack", "create_slot", "create_clone"}
InJoin == {"join_read", "join_asleep", "join_result", "join_remove",
           "join_unmap", "join_free"}

\* What is held while the parent is at its steps: thrd_create has taken it for
\* its block at the first ones, thrd_join has given it back at the others.
Held(taken, given) ==
  (Live \cup (IF ppc \in taken THEN {cur} ELSE {}))
    \ (IF ppc \in given THEN {cur} ELSE {})

Stacked == Held({"create_slot", "create_clone"}, {"join_free"})

\* A block belongs to one thread, and the parent works on one of its own: a
\* new one, or one that it joins.
BlocksOK ==
  /\ handles \in [DOMAIN handles -> Blocks]
  /\ IsFiniteSet(DOMAIN handles)
  /\ \A c, d \in DOMAIN handles : handles[c] = handles[d] => c = d
  /\ ppc \in InCreate => cur \in Blocks \ Live
  /\ ppc \in InJoin => cur \in Live

\* What is held at each step
HoldsOK ==
  /\ used = Held(InCreate, {})
  /\ tls = Held(InCreate \ {"create_tls"}, {"join_free"})
  /\ table = Held({"create_clone"}, {"join_unmap", "join_free"})
  /\ mapped = {control[b].stack : b \in Stacked}
  /\ \A a, b \in Stacked : control[a].stack = control[b].stack => a = b

\* A thread that can be joined has been started.
BornOK == \A c \in DOMAIN handles : cpc[c] # "unborn"

HoldInv == TypeOK /\ BlocksOK /\ HoldsOK /\ BornOK

AtWork == {"running", "result", "publish"}
Ended == {"wake", "exit", "exiting", "gone"}

\* Until it has published its end a thread has its control block, with its
\* tid in it, and from then on its result is there for thrd_join.
ChildrenOK ==
  /\ \A c \in DOMAIN handles :
       LET b == handles[c]
       IN  /\ cpc[c] \in AtWork => own[c] = b /\ control[b].tid = c
           /\ cpc[c] \in Ended => control[b].tid = None
           /\ cpc[c] \in Ended \cup {"publish"} => control[b].result = c
  /\ \A c \in Children \ DOMAIN handles : cpc[c] \notin AtWork

\* Past its wait thrd_join has a thread that has ended.
JoinOK ==
  \A c \in DOMAIN handles :
    handles[c] = cur =>
      /\ ppc \in {"join_result", "join_remove", "join_unmap", "join_free"}
           => cpc[c] \in Ended
      /\ ppc \in {"join_remove", "join_unmap", "join_free"} => joined = c

JoinInv == HoldInv /\ ChildrenOK /\ JoinOK

-----------------------------------------------------------------------------

LEMMA InitHold == Init => HoldInv
<1> SUFFICES ASSUME Init PROVE HoldInv
  OBVIOUS
<1>1. DOMAIN handles = {} /\ handles \in [{} -> Blocks] /\ Live = {}
  BY DEF Init, Live
<1>2. TypeOK
  BY <1>1 DEF Init, TypeOK, Blank, ParentLabels, ChildLabels
<1>3. BlocksOK
  BY <1>1, FS_EmptySet DEF Init, BlocksOK, InCreate, InJoin
<1>4. HoldsOK
  BY <1>1 DEF Init, HoldsOK, Held, Stacked, InCreate
<1> QED
  BY <1>1, <1>2, <1>3, <1>4 DEF HoldInv, BornOK

\* The variables keep their types.
LEMMA NextTypeOK == HoldInv /\ [Next]_vars => TypeOK'
<1> SUFFICES ASSUME HoldInv, [Next]_vars PROVE TypeOK'
  OBVIOUS
<1>0. TypeOK /\ (ppc \in InCreate \cup InJoin => cur \in Blocks)
  BY DEF HoldInv, BlocksOK, Live
<1> USE <1>0 DEF TypeOK, ParentLabels, ChildLabels, InCreate, InJoin, Blank,
                 Parent, Child, Free, parentVars, childVars, memoryVars,
                 WakeJoiner
<1>1. CASE UNCHANGED vars
  BY <1>1 DEF vars
<1>2. CASE CreateMalloc
  BY <1>2 DEF CreateMalloc
<1>3. CASE CreateTls \/ CreateTlsFails
  BY <1>3 DEF CreateTls, CreateTlsFails
<1>4. CASE CreateStack \/ CreateStackFails
  BY <1>4 DEF CreateStack, CreateStackFails
<1>5. CASE CreateSlot \/ CreateSlotFails
  BY <1>5 DEF CreateSlot, CreateSlotFails
<1>6. CASE CreateClone
  BY <1>6 DEF CreateClone
<1>7. CASE CreateCloneFails
  BY <1>7 DEF CreateCloneFails
<1>8. CASE CallJoin \/ JoinRead \/ JoinInterrupted
  BY <1>8 DEF CallJoin, JoinRead, JoinInterrupted
<1>9. CASE JoinResult \/ JoinRemove \/ JoinUnmap
  BY <1>9 DEF JoinResult, JoinRemove, JoinUnmap
<1>10. CASE JoinFree
  BY <1>10 DEF JoinFree
<1>11. ASSUME NEW c \in Children,
              Return(c) \/ ThrdExit(c) \/ StoreResult(c) \/ Publish(c)
       PROVE  TypeOK'
  BY <1>11 DEF Return, ThrdExit, StoreResult, Publish
<1>12. ASSUME NEW c \in Children, Wake(c) PROVE TypeOK'
  BY <1>12 DEF Wake
<1>13. ASSUME NEW c \in Children, CallExit(c) PROVE TypeOK'
  <2>1. crashed' \in BOOLEAN
    BY <1>13 DEF CallExit
  <2> QED
    BY <1>13, <2>1 DEF CallExit
<1>14. ASSUME NEW c \in Children, KernelExit(c) PROVE TypeOK'
  <2>1. control' \in [Blocks -> [tid : Children \cup {None},
                                 result : Children \cup {None},
                                 stack : Stacks \cup {None}]]
    BY <1>14 DEF KernelExit
  <2>2. ppc' \in ParentLabels /\ UNCHANGED <<cur, joined, handles>>
    BY <1>14 DEF KernelExit
  <2> QED
    BY <1>14, <2>1, <2>2 DEF KernelExit
<1> QED
  BY <1>1, <1>2, <1>3, <1>4, <1>5, <1>6, <1>7, <1>8, <1>9, <1>10, <1>11, <1>12,
     <1>13, <1>14
     DEF Next, Create, JoinStep, ChildStep

SameStacks == \A b \in Blocks : control'[b].stack = control[b].stack

\* While the parent waits or does nothing all that is held stays.
LEMMA NothingTaken ==
  ASSUME HoldInv, UNCHANGED <<handles, cur, memoryVars>>, SameStacks,
         \/ ppc' = ppc
         \/ {ppc, ppc'} \subseteq {"join_read", "join_asleep", "join_result",
                                   "join_remove"},
         \A c \in Children : cpc[c] # "unborn" => cpc'[c] # "unborn"
  PROVE  BlocksOK' /\ HoldsOK' /\ BornOK'
<1>1. Live' = Live /\ Live \subseteq Blocks
  BY DEF Live, HoldInv, BlocksOK
<1>2. BlocksOK' /\ BornOK'
  BY <1>1 DEF HoldInv, BlocksOK, BornOK, TypeOK, InCreate, InJoin
<1>3. /\ used' = Held(InCreate, {})'
      /\ tls' = Held(InCreate \ {"create_tls"}, {"join_free"})'
      /\ table' = Held({"create_clone"}, {"join_unmap", "join_free"})'
  BY <1>1 DEF HoldInv, HoldsOK, Held, InCreate, memoryVars
<1>4. Stacked' = Stacked /\ Stacked \subseteq Blocks
  BY <1>1 DEF HoldInv, BlocksOK, Stacked, Held, InCreate
<1>5. /\ mapped' = {control'[b].stack : b \in Stacked'}
      /\ \A a, b \in Stacked' : control'[a].stack = control'[b].stack => a = b
  BY <1>4 DEF HoldInv, HoldsOK, SameStacks, memoryVars
<1> QED
  BY <1>2, <1>3, <1>5 DEF HoldsOK

\* thrd_create before clone: the block is in nobody's hands.
LEMMA CreateHold ==
  ASSUME HoldInv, Create, ~CreateClone
  PROVE  BlocksOK' /\ HoldsOK' /\ BornOK'
<1>0. /\ Live \subseteq Blocks
      /\ control \in [Blocks -> [tid : Children \cup {None},
                                 result : Children \cup {None},
                                 stack : Stacks \cup {None}]]
      /\ ppc \in InCreate => cur \in Blocks \ Live
  BY DEF Live, HoldInv, BlocksOK, TypeOK
<1>1. UNCHANGED <<handles, cpc>> /\ Live' = Live
  <2>1. UNCHANGED <<handles, cpc>>
    BY DEF Create, CreateMalloc, CreateTls, CreateTlsFails, CreateStack,
           CreateStackFails, CreateSlot, CreateSlotFails, CreateCloneFails,
           childVars
  <2> QED
    BY <2>1 DEF Live
<1>2. BornOK'
  BY <1>1 DEF HoldInv, BornOK
<1>3. BlocksOK'
  <2>1. \/ ppc' = "idle"
        \/ ppc' \in InCreate /\ cur' \in Blocks \ Live
    BY <1>0
       DEF Create, CreateMalloc, CreateTls, CreateTlsFails, CreateStack,
           CreateStackFails, CreateSlot, CreateSlotFails, CreateCloneFails,
           Parent, InCreate, HoldInv, HoldsOK, Held
  <2> QED
    BY <1>1, <2>1 DEF HoldInv, BlocksOK, InCreate, InJoin
<1>4. HoldsOK'
  <2> USE <1>0, <1>1
          DEF HoldInv, HoldsOK, Held, Stacked, InCreate, Parent, Free, Blank
  <2>1. CASE CreateMalloc
    BY <2>1 DEF CreateMalloc
  <2>2. CASE CreateTls
    BY <2>2 DEF CreateTls
  <2>3. CASE CreateTlsFails
    BY <2>3 DEF CreateTlsFails
  <2>4. CASE CreateStack
    BY <2>4 DEF CreateStack
  <2>5. CASE CreateStackFails
    BY <2>5 DEF CreateStackFails
  <2>6. CASE CreateSlot
    BY <2>6 DEF CreateSlot
  <2>7. CASE CreateSlotFails
    BY <2>7 DEF CreateSlotFails
  <2>8. CASE CreateCloneFails
    BY <2>8 DEF CreateCloneFails
  <2> QED
    BY <2>1, <2>2, <2>3, <2>4, <2>5, <2>6, <2>7, <2>8 DEF Create
<1> QED
  BY <1>2, <1>3, <1>4

\* clone makes the block the one of a thread that can be joined.
LEMMA CloneHold ==
  ASSUME HoldInv, CreateClone
  PROVE  BlocksOK' /\ HoldsOK' /\ BornOK'
<1>1. PICK c \in Children :
        /\ cpc[c] = "unborn"
        /\ control' = [control EXCEPT ![cur].tid = c]
        /\ cpc' = [cpc EXCEPT ![c] = "running"]
        /\ handles' = [d \in DOMAIN handles \cup {c} |->
                         IF d = c THEN cur ELSE handles[d]]
  BY DEF CreateClone
<1>2. /\ ppc = "create_clone" /\ ppc' = "idle" /\ UNCHANGED memoryVars
      /\ cur \in Blocks \ Live
  BY DEF CreateClone, Parent, HoldInv, BlocksOK, InCreate
<1>3. c \notin DOMAIN handles
  BY <1>1 DEF HoldInv, BornOK
<1>4. DOMAIN handles' = DOMAIN handles \cup {c} /\ Live' = Live \cup {cur}
  BY <1>1, <1>3 DEF Live
<1>5. IsFiniteSet(DOMAIN handles')
  BY <1>4, FS_AddElement DEF HoldInv, BlocksOK
<1>6. handles' \in [DOMAIN handles' -> Blocks]
  BY <1>1, <1>2, <1>4 DEF HoldInv, BlocksOK
<1>7. \A d, e \in DOMAIN handles' : handles'[d] = handles'[e] => d = e
  BY <1>1, <1>2, <1>4 DEF HoldInv, BlocksOK, Live
<1>8. BlocksOK'
  BY <1>2, <1>5, <1>6, <1>7 DEF BlocksOK, InCreate, InJoin
<1>9. BornOK'
  BY <1>1, <1>4 DEF HoldInv, BornOK, TypeOK
<1>10. Live \cup {cur} \subseteq Blocks /\ SameStacks
  BY <1>1, <1>2 DEF Live, HoldInv, BlocksOK, TypeOK, SameStacks
<1>11. HoldsOK'
  BY <1>2, <1>4, <1>10
     DEF HoldInv, HoldsOK, Held, Stacked, InCreate, SameStacks, memoryVars
<1> QED
  BY <1>8, <1>9, <1>11

\* thrd_join gives back what belongs to its block, and in the end the block.
LEMMA JoinHold ==
  ASSUME HoldInv, CallJoin \/ JoinRemove \/ JoinUnmap \/ JoinFree
  PROVE  BlocksOK' /\ HoldsOK' /\ BornOK'
<1>0. /\ Live \subseteq Blocks
      /\ control \in [Blocks -> [tid : Children \cup {None},
                                 result : Children \cup {None},
                                 stack : Stacks \cup {None}]]
      /\ ppc \in InJoin => cur \in Live
  BY DEF Live, HoldInv, BlocksOK, TypeOK
<1>1. CASE CallJoin
  <2>1. UNCHANGED <<control, handles, cpc, memoryVars>> /\ Live' = Live
        /\ cur' \in Live /\ ppc = "idle" /\ ppc' = "join_read"
    BY <1>1 DEF CallJoin, Parent, childVars, Live
  <2> QED
    BY <1>0, <2>1
       DEF HoldInv, BlocksOK, HoldsOK, BornOK, Held, Stacked, InCreate, InJoin,
           memoryVars
<1>2. CASE JoinRemove
  <2>1. UNCHANGED <<control, handles, cpc, cur, used, mapped, tls>> /\ Live' = Live
        /\ ppc = "join_remove" /\ ppc' = "join_unmap" /\ table' = table \ {cur}
    BY <1>2 DEF JoinRemove, Parent, childVars, Live
  <2> QED
    BY <1>0, <2>1
       DEF HoldInv, BlocksOK, HoldsOK, BornOK, Held, Stacked, InCreate, InJoin
<1>3. CASE JoinUnmap
  <2>1. UNCHANGED <<control, handles, cpc, cur, used, table>> /\ Live' = Live
        /\ ppc = "join_unmap" /\ ppc' = "join_free" /\ tls' = tls \ {cur}
        /\ mapped' = mapped \ {control[cur].stack}
    BY <1>3 DEF JoinUnmap, Parent, childVars, Live
  <2> QED
    BY <1>0, <2>1
       DEF HoldInv, BlocksOK, HoldsOK, BornOK, Held, Stacked, InCreate, InJoin
<1>4. CASE JoinFree
  <2>1. UNCHANGED <<cpc, mapped, tls, table>>
        /\ ppc = "join_free" /\ ppc' = "idle" /\ used' = used \ {cur}
        /\ control' = [control EXCEPT ![cur] = Blank]
        /\ handles' = [c \in DOMAIN handles \ {Joined} |-> handles[c]]
    BY <1>4 DEF JoinFree, Parent, Free, childVars
  <2>2. Joined \in DOMAIN handles /\ handles[Joined] = cur
    BY <1>0, <2>1 DEF Joined, Live, InJoin
  <2>3. DOMAIN handles' = DOMAIN handles \ {Joined} /\ Live' = Live \ {cur}
    BY <2>1, <2>2 DEF Live, HoldInv, BlocksOK
  <2>4. BlocksOK'
    <3>1. IsFiniteSet(DOMAIN handles')
      BY <2>3, FS_RemoveElement DEF HoldInv, BlocksOK
    <3>2. handles' \in [DOMAIN handles' -> Blocks]
      BY <2>1, <2>3 DEF HoldInv, BlocksOK
    <3> QED
      BY <2>1, <2>3, <3>1, <3>2 DEF HoldInv, BlocksOK, InCreate, InJoin
  <2>5. BornOK'
    BY <2>1, <2>3 DEF HoldInv, BornOK
  <2>6. HoldsOK'
    BY <1>0, <2>1, <2>3 DEF HoldInv, HoldsOK, Held, Stacked, InCreate
  <2> QED
    BY <2>4, <2>5, <2>6
<1> QED
  BY <1>1, <1>2, <1>3, <1>4

\* Everything that is taken is given back, on every path.
LEMMA NextHold == HoldInv /\ [Next]_vars => HoldInv'
<1> SUFFICES ASSUME HoldInv, [Next]_vars
             PROVE  BlocksOK' /\ HoldsOK' /\ BornOK'
  BY NextTypeOK DEF HoldInv
<1>0. /\ control \in [Blocks -> [tid : Children \cup {None},
                                 result : Children \cup {None},
                                 stack : Stacks \cup {None}]]
      /\ cpc \in [Children -> ChildLabels]
  BY DEF HoldInv, TypeOK
<1> USE <1>0 DEF SameStacks, Parent, Child, parentVars, childVars, WakeJoiner
<1>1. CASE UNCHANGED vars
  BY <1>1, NothingTaken DEF vars, memoryVars
<1>2. CASE Create
  BY <1>2, CreateHold, CloneHold
<1>3. CASE CallJoin \/ JoinRemove \/ JoinUnmap \/ JoinFree
  BY <1>3, JoinHold
<1>4. CASE JoinRead \/ JoinResult \/ JoinInterrupted
  BY <1>4, NothingTaken DEF JoinRead, JoinResult, JoinInterrupted
<1>5. ASSUME NEW c \in Children, Return(c) \/ ThrdExit(c)
      PROVE  BlocksOK' /\ HoldsOK' /\ BornOK'
  BY <1>5, NothingTaken DEF Return, ThrdExit
<1>6. ASSUME NEW c \in Children, StoreResult(c) \/ Publish(c)
      PROVE  BlocksOK' /\ HoldsOK' /\ BornOK'
  BY <1>6, NothingTaken DEF StoreResult, Publish
<1>7. ASSUME NEW c \in Children, Wake(c) \/ CallExit(c)
      PROVE  BlocksOK' /\ HoldsOK' /\ BornOK'
  BY <1>7, NothingTaken DEF Wake, CallExit
<1>8. ASSUME NEW c \in Children, KernelExit(c)
      PROVE  BlocksOK' /\ HoldsOK' /\ BornOK'
  <2>1. SameStacks
    BY <1>8 DEF KernelExit
  <2>2. \/ ppc' = ppc
        \/ ppc = "join_asleep" /\ ppc' = "join_read"
    BY <1>8 DEF KernelExit
  <2>3. UNCHANGED <<handles, cur, memoryVars>>
    BY <1>8 DEF KernelExit
  <2>4. \A d \in Children : cpc[d] # "unborn" => cpc'[d] # "unborn"
    BY <1>8 DEF KernelExit
  <2> HIDE DEF SameStacks
  <2> QED
    BY <2>1, <2>2, <2>3, <2>4, NothingTaken
<1> QED
  BY <1>1, <1>2, <1>3, <1>4, <1>5, <1>6, <1>7, <1>8
     DEF Next, JoinStep, ChildStep

\* c11_threads.c: the variables keep their types; no step writes to anything
\* but control blocks, stacks and slots.
THEOREM TypeCorrect == Spec => []TypeOK
<1>1. HoldInv => TypeOK
  BY DEF HoldInv
<1> QED
  BY <1>1, InitHold, NextHold, PTL DEF Spec

\* thrd_create and thrd_join: whichever step fails, and whether or not the
\* kernel clears tids, between calls the threads that can be joined have each a
\* block, a TLS area, a stack and a slot, and nothing else is held.
THEOREM NothingLeaks == Spec => []NoLeak
<1>1. HoldInv => NoLeak
  <2> SUFFICES ASSUME HoldInv, ppc = "idle"
               PROVE  /\ Cardinality(Live) = Cardinality(DOMAIN handles)
                      /\ used = Live /\ tls = Live /\ table = Live
                      /\ mapped = {control[b].stack : b \in Live}
    BY DEF NoLeak, Live
  <2>1. /\ used = Live /\ tls = Live /\ table = Live
        /\ mapped = {control[b].stack : b \in Live}
    BY DEF HoldInv, HoldsOK, Held, Stacked, InCreate
  <2>2. handles \in Surjection(DOMAIN handles, Live)
    BY DEF HoldInv, BlocksOK, Live, Surjection
  <2>3. handles \in Injection(DOMAIN handles, Live)
    BY DEF HoldInv, BlocksOK, Live, Injection, IsInjective
  <2>4. Cardinality(Live) = Cardinality(DOMAIN handles)
    BY <2>2, <2>3, FS_Surjection DEF HoldInv, BlocksOK
  <2> QED
    BY <2>1, <2>4
<1> QED
  BY <1>1, InitHold, NextHold, PTL DEF Spec

-----------------------------------------------------------------------------
(* The ends of threads *)

LEMMA InitJoin == Init => JoinInv
  BY InitHold DEF Init, JoinInv, ChildrenOK, JoinOK, AtWork

\* While a thread's function runs it is in the table with its tid.
LEMMA Found ==
  ASSUME JoinInv, NEW c \in Children, cpc[c] = "running"
  PROVE  FindsSelf(c)
<1>1. c \in DOMAIN handles /\ own[c] = handles[c] /\ control[own[c]].tid = c
  BY DEF JoinInv, ChildrenOK, AtWork
<1>2. ~(handles[c] = cur /\ ppc \in {"join_unmap", "join_free"})
  BY <1>1 DEF JoinInv, JoinOK, Ended
<1>3. handles[c] \in table
  BY <1>1, <1>2 DEF JoinInv, HoldInv, HoldsOK, BlocksOK, Held, Live, InCreate
<1> QED
  BY <1>1, <1>3 DEF FindsSelf

\* A step of a child leaves the parent at its work, or wakes it.
LEMMA ChildJoinOK ==
  ASSUME JoinInv, UNCHANGED <<handles, cur, joined>>,
         \/ ppc' = ppc
         \/ ppc = "join_asleep" /\ ppc' = "join_read",
         \A c \in Children : cpc[c] \in Ended => cpc'[c] \in Ended
  PROVE  JoinOK'
<1>1. DOMAIN handles \subseteq Children
  BY DEF JoinInv, HoldInv, TypeOK
<1> QED
  BY <1>1 DEF JoinInv, JoinOK

\* The steps of the children, where the kernel writes no tid
LEMMA ChildKeeps ==
  ASSUME ClearTid = FALSE, JoinInv, NEW c \in Children, ChildStep(c)
  PROVE  ChildrenOK' /\ JoinOK'
<1>0. /\ control \in [Blocks -> [tid : Children \cup {None},
                                 result : Children \cup {None},
                                 stack : Stacks \cup {None}]]
      /\ cpc \in [Children -> ChildLabels] /\ DOMAIN handles \subseteq Children
      /\ own \in [Children -> Blocks \cup {None}]
      /\ \A d \in DOMAIN handles : handles[d] \in Blocks
      /\ \A d, e \in DOMAIN handles : handles[d] = handles[e] => d = e
      /\ None \notin Children
  BY NoneAssumption DEF JoinInv, HoldInv, TypeOK, BlocksOK
<1> USE DEF Child, parentVars, WakeJoiner, AtWork, Ended
<1>1. CASE Return(c) \/ ThrdExit(c)
  <2>1. /\ cpc' = [cpc EXCEPT ![c] = "result"] /\ cpc[c] = "running"
        /\ UNCHANGED <<control, handles, cur, joined, ppc, own>>
    BY <1>1, Found DEF Return, ThrdExit
  <2>2. JoinOK'
    BY <1>0, <2>1, ChildJoinOK
  <2> QED
    BY <1>0, <2>1, <2>2 DEF JoinInv, ChildrenOK
<1>2. CASE StoreResult(c)
  <2>1. /\ cpc' = [cpc EXCEPT ![c] = "publish"] /\ cpc[c] = "result"
        /\ control' = [control EXCEPT ![own[c]].result = c]
        /\ UNCHANGED <<handles, cur, joined, ppc, own>>
    BY <1>2 DEF StoreResult
  <2>2. JoinOK'
    BY <1>0, <2>1, ChildJoinOK
  <2>3. c \in DOMAIN handles /\ own[c] = handles[c]
    BY <2>1 DEF JoinInv, ChildrenOK
  <2>4. /\ control'[handles[c]].result = c
        /\ \A b \in Blocks : control'[b].tid = control[b].tid
        /\ \A d \in DOMAIN handles \ {c} :
             control'[handles[d]].result = control[handles[d]].result
    BY <1>0, <2>1, <2>3
  <2> QED
    BY <1>0, <2>1, <2>2, <2>4 DEF JoinInv, ChildrenOK
<1>3. CASE Publish(c)
  <2>1. /\ cpc' = [cpc EXCEPT ![c] = "wake"] /\ cpc[c] = "publish"
        /\ control' = [control EXCEPT ![own[c]].tid = None]
        /\ UNCHANGED <<handles, cur, joined, ppc, own>>
    BY <1>3 DEF Publish
  <2>2. JoinOK'
    BY <1>0, <2>1, ChildJoinOK
  <2>3. c \in DOMAIN handles /\ own[c] = handles[c]
    BY <2>1 DEF JoinInv, ChildrenOK
  <2>4. /\ control'[handles[c]].tid = None
        /\ \A b \in Blocks : control'[b].result = control[b].result
        /\ \A d \in DOMAIN handles \ {c} :
             control'[handles[d]].tid = control[handles[d]].tid
    BY <1>0, <2>1, <2>3
  <2> QED
    BY <1>0, <2>1, <2>2, <2>4 DEF JoinInv, ChildrenOK
<1>4. CASE Wake(c) \/ CallExit(c) \/ KernelExit(c)
  <2>1. /\ \E to \in {"exit", "exiting", "gone"} : cpc' = [cpc EXCEPT ![c] = to]
        /\ cpc[c] \in {"wake", "exit", "exiting"}
        /\ UNCHANGED <<control, handles, cur, joined>>
        /\ \A d \in Children \ {c} : own'[d] = own[d]
        /\ ppc' = ppc \/ (ppc = "join_asleep" /\ ppc' = "join_read")
    BY <1>0, <1>4 DEF Wake, CallExit, KernelExit
  <2>2. JoinOK'
    BY <1>0, <2>1, ChildJoinOK
  <2> QED
    BY <1>0, <2>1, <2>2 DEF JoinInv, ChildrenOK
<1> QED
  BY <1>1, <1>2, <1>3, <1>4 DEF ChildStep

\* thrd_create touches no block of a thread that can be joined.
LEMMA CreateKeeps ==
  ASSUME JoinInv, Create
  PROVE  ChildrenOK' /\ JoinOK'
<1>0. /\ control \in [Blocks -> [tid : Children \cup {None},
                                 result : Children \cup {None},
                                 stack : Stacks \cup {None}]]
      /\ cpc \in [Children -> ChildLabels] /\ DOMAIN handles \subseteq Children
      /\ own \in [Children -> Blocks \cup {None}]
      /\ \A d \in DOMAIN handles : handles[d] \in Live /\ handles[d] \in Blocks
      /\ ppc \in InCreate => cur \in Blocks \ Live
  BY DEF JoinInv, HoldInv, TypeOK, BlocksOK, Live
<1>1. ppc' \notin InJoin /\ JoinOK'
  <2>1. ppc' \notin InJoin
    BY DEF Create, CreateMalloc, CreateTls, CreateTlsFails, CreateStack,
           CreateStackFails, CreateSlot, CreateSlotFails, CreateClone,
           CreateCloneFails, Parent, InJoin
  <2> QED
    BY <2>1 DEF JoinOK, InJoin
<1>2. CASE CreateClone
  <2>1. PICK c \in Children :
          /\ cpc[c] = "unborn"
          /\ control' = [control EXCEPT ![cur].tid = c]
          /\ cpc' = [cpc EXCEPT ![c] = "running"]
          /\ own' = [own EXCEPT ![c] = cur]
          /\ handles' = [d \in DOMAIN handles \cup {c} |->
                           IF d = c THEN cur ELSE handles[d]]
    BY <1>2 DEF CreateClone
  <2>2. cur \in Blocks \ Live
    BY <1>0, <1>2 DEF CreateClone, Parent, InCreate
  <2>3. c \notin DOMAIN handles
    BY <2>1 DEF JoinInv, HoldInv, BornOK
  <2>4. /\ DOMAIN handles' = DOMAIN handles \cup {c} /\ handles'[c] = cur
        /\ own'[c] = cur /\ control'[cur].tid = c /\ cpc'[c] = "running"
        /\ \A d \in DOMAIN handles :
             /\ handles'[d] = handles[d] /\ cpc'[d] = cpc[d] /\ own'[d] = own[d]
             /\ control'[handles[d]] = control[handles[d]]
    BY <1>0, <2>1, <2>2, <2>3
  <2>5. \A d \in Children \ DOMAIN handles' : cpc'[d] = cpc[d]
    BY <1>0, <2>1, <2>4
  <2> QED
    BY <1>1, <2>4, <2>5 DEF JoinInv, ChildrenOK, AtWork, Ended
<1>3. CASE ~CreateClone
  <2>1. UNCHANGED <<handles, cpc, own>>
    BY <1>3
       DEF Create, CreateMalloc, CreateTls, CreateTlsFails, CreateStack,
           CreateStackFails, CreateSlot, CreateSlotFails, CreateCloneFails,
           childVars
  <2>2. \A d \in DOMAIN handles : control'[handles[d]] = control[handles[d]]
    BY <1>0, <1>3
       DEF Create, CreateMalloc, CreateTls, CreateTlsFails, CreateStack,
           CreateStackFails, CreateSlot, CreateSlotFails, CreateCloneFails,
           Parent, Free, InCreate, JoinInv, HoldInv, HoldsOK, Held
  <2> QED
    BY <1>0, <1>1, <2>1, <2>2 DEF JoinInv, ChildrenOK
<1> QED
  BY <1>2, <1>3

\* thrd_join reads a result that is there, and forgets the thread.
LEMMA JoinKeeps ==
  ASSUME JoinInv, CallJoin \/ JoinStep \/ JoinInterrupted
  PROVE  ChildrenOK' /\ JoinOK'
<1>0. /\ control \in [Blocks -> [tid : Children \cup {None},
                                 result : Children \cup {None},
                                 stack : Stacks \cup {None}]]
      /\ cpc \in [Children -> ChildLabels] /\ DOMAIN handles \subseteq Children
      /\ \A d \in DOMAIN handles : handles[d] \in Blocks /\ cpc[d] # "unborn"
      /\ \A d, e \in DOMAIN handles : handles[d] = handles[e] => d = e
      /\ ppc \in InJoin => cur \in Live
      /\ None \notin Children
  BY NoneAssumption DEF JoinInv, HoldInv, TypeOK, BlocksOK, BornOK
<1> USE DEF Parent, childVars
<1>1. CASE JoinFree
  <2>1. /\ ppc = "join_free" /\ ppc' = "idle" /\ UNCHANGED <<cpc, own>>
        /\ control' = [control EXCEPT ![cur] = Blank]
        /\ handles' = [c \in DOMAIN handles \ {Joined} |-> handles[c]]
    BY <1>1 DEF JoinFree, Free
  <2>2. Joined \in DOMAIN handles /\ handles[Joined] = cur
    BY <1>0, <2>1 DEF Joined, Live, InJoin
  <2>3. cpc[Joined] \in Ended
    BY <2>1, <2>2 DEF JoinInv, JoinOK
  <2>4. \A d \in DOMAIN handles' : /\ d \in DOMAIN handles
                                   /\ handles'[d] = handles[d]
                                   /\ control'[handles[d]] = control[handles[d]]
    BY <1>0, <2>1, <2>2
  <2>5. \A d \in Children \ DOMAIN handles' :
          d \in Children \ DOMAIN handles \/ d = Joined
    BY <2>1
  <2>6. ChildrenOK'
    BY <2>1, <2>3, <2>4, <2>5 DEF JoinInv, ChildrenOK, AtWork, Ended
  <2>7. JoinOK'
    BY <2>1 DEF JoinOK
  <2> QED
    BY <2>6, <2>7
<1>2. CASE CallJoin \/ JoinRead \/ JoinInterrupted \/ JoinResult \/ JoinRemove
           \/ JoinUnmap
  <2>1. UNCHANGED <<control, handles, cpc, own>>
    BY <1>2
       DEF CallJoin, JoinRead, JoinInterrupted, JoinResult, JoinRemove, JoinUnmap
  <2>2. ChildrenOK'
    BY <2>1 DEF JoinInv, ChildrenOK
  <2>3. \A d \in DOMAIN handles :
          control[handles[d]].tid = None => cpc[d] \in Ended
    BY <1>0 DEF JoinInv, ChildrenOK, AtWork, Ended, ChildLabels
  <2>4. \A d \in DOMAIN handles :
          cpc[d] \in Ended => control[handles[d]].result = d
    BY DEF JoinInv, ChildrenOK
  <2>5. JoinOK'
    BY <1>2, <2>1, <2>3, <2>4
       DEF JoinInv, JoinOK, CallJoin, JoinRead, JoinInterrupted, JoinResult,
           JoinRemove, JoinUnmap
  <2> QED
    BY <2>2, <2>5
<1> QED
  BY <1>1, <1>2 DEF JoinStep

LEMMA NextJoin ==
  ASSUME ClearTid = FALSE PROVE JoinInv /\ [Next]_vars => JoinInv'
<1> SUFFICES ASSUME JoinInv, [Next]_vars PROVE ChildrenOK' /\ JoinOK'
  BY NextHold DEF JoinInv
<1>1. CASE UNCHANGED vars
  BY <1>1 DEF vars, JoinInv, ChildrenOK, JoinOK
<1> QED
  BY <1>1, ChildKeeps, CreateKeeps, JoinKeeps DEF Next

\* thrd_join, where clone is not asked for CLONE_CHILD_CLEARTID: it returns
\* what the thread it names returned, after that thread's function has.
THEOREM JoinCorrect == ASSUME ClearTid = FALSE PROVE Spec => []JoinGivesResult
<1>1. JoinInv => JoinGivesResult
  <2> SUFFICES ASSUME JoinInv,
                      ppc \in {"join_remove", "join_unmap", "join_free"}
               PROVE  joined = Joined /\ cpc[Joined] \in Ended
    BY DEF JoinGivesResult, Ended
  <2>1. Joined \in DOMAIN handles /\ handles[Joined] = cur
    BY DEF JoinInv, HoldInv, BlocksOK, InJoin, Live, Joined
  <2> QED
    BY <2>1 DEF JoinInv, JoinOK
<1> QED
  BY <1>1, InitJoin, NextJoin, PTL DEF Spec

\* thrd_exit there finds the control block of every thread that calls it.
THEOREM ExitFinds == ASSUME ClearTid = FALSE PROVE Spec => []RunningIsFound
<1>1. JoinInv => RunningIsFound
  BY Found DEF RunningIsFound
<1> QED
  BY <1>1, InitJoin, NextJoin, PTL DEF Spec
-----------------------------------------------------------------------------
\* Thread-specific storage

Entry(t, i) == values[i].tid = t

\* An entry is empty or a value some thread has under a key that exists.
EntriesOK ==
  \A i \in Storage!Entries :
    \/ values[i] = Storage!Empty
    \/ /\ values[i].tid \in Owners /\ values[i].key \in Storage!Keys
       /\ values[i].value \in Values /\ keys[values[i].key] # "free"

\* A thread has one value for a key.
OneForEachKey ==
  \A i, j \in Storage!Entries :
    values[i].tid \in Owners /\ values[i].tid = values[j].tid
      /\ values[i].key = values[j].key => i = j

\* What a thread set last is what its entries hold.
EntriesHoldLast ==
  \A t \in Owners :
    Storage!WithinRounds(t) =>
      \A k \in Storage!Keys :
        /\ \A i \in Storage!Found(t, k) : values[i].value = last[t][k]
        /\ last[t][k] # None => Storage!Found(t, k) # {}

\* A tid that is not in use has no entries.
NothingKept ==
  \A t \in Owners :
    Storage!WithinRounds(t) /\ sweepPc[t] \in {"unborn", "dead"} =>
      \A i \in Storage!Entries : ~Entry(t, i)

\* Outside the sweep its locals are at their start.
NotSwept ==
  \A t \in Owners :
    sweepPc[t] \in {"unborn", "running", "dead"} =>
      pos[t] = 1 /\ round[t] = 0 /\ ~called[t]

\* What is found behind the sweep, a destructor of this round has set.
SetBehind ==
  \A t \in Owners, i \in Storage!Entries :
    Entry(t, i) /\ (i < pos[t] \/ (i = pos[t] /\ sweepPc[t] = "destructor")) =>
      resets[t] > round[t]

\* A round that finds anything comes after one that set something.
RoundsHaveCause ==
  \A t \in Owners :
    called[t] \/ sweepPc[t] = "destructor"
      \/ (\E i \in Storage!Entries : Entry(t, i)) => resets[t] >= round[t]

\* Before its first destructor a round leaves nothing behind.
NothingBehind ==
  \A t \in Owners, i \in Storage!Entries :
    sweepPc[t] = "sweep" /\ ~called[t] /\ i < pos[t] => ~Entry(t, i)

\* A destructor runs for an entry of the table.
DestructorInRange ==
  \A t \in Owners : sweepPc[t] = "destructor" => pos[t] \in Storage!Entries

SweepInv == /\ NotSwept /\ SetBehind /\ RoundsHaveCause /\ NothingBehind
            /\ DestructorInRange

StorageInv == /\ Storage!TypeOK
              /\ EntriesOK /\ OneForEachKey /\ EntriesHoldLast /\ NothingKept
              /\ SweepInv

LEMMA InitStorage == Storage!Init => StorageInv
<1> SUFFICES ASSUME Storage!Init PROVE StorageInv
  OBVIOUS
<1> USE StorageAssumption DEF Storage!TssAssumption
<1>1. Storage!TypeOK
  <2>1. values \in [Storage!Entries -> [tid : Owners \cup {None},
                                        key : Storage!Keys \cup {None},
                                        value : Values \cup {None}]]
    BY DEF Storage!Init, Storage!Empty
  <2>2. /\ 1 \in 1..(ValueCount + 1) /\ 0 \in 0..(Iterations - 1)
        /\ 0 \in 0..Iterations
    OBVIOUS
  <2>3. last \in [Owners -> [Storage!Keys -> Values \cup {None}]]
    BY DEF Storage!Init
  <2> QED
    BY <2>1, <2>2, <2>3 DEF Storage!Init, Storage!TypeOK
<1>2. \A t \in Owners, i \in Storage!Entries :
        ~Entry(t, i) /\ values[i] = Storage!Empty
  BY DEF Storage!Init, Storage!Empty, Entry
<1>3. EntriesOK /\ NothingKept
  <2>1. EntriesOK
    BY <1>2, Zenon DEF EntriesOK, Storage!Init
  <2>2. NothingKept
    BY <1>2, Zenon DEF NothingKept
  <2> QED
    BY <2>1, <2>2
<1>4. OneForEachKey
  <2>1. \A i \in Storage!Entries : values[i].tid \notin Owners
    BY <1>2 DEF Entry
  <2> QED
    BY <2>1 DEF OneForEachKey
<1>5. EntriesHoldLast
  BY <1>2 DEF EntriesHoldLast, Storage!Init, Storage!Found, Entry
<1>6. SweepInv
  BY <1>2 DEF Storage!Init, SweepInv, NotSwept, SetBehind, RoundsHaveCause,
              NothingBehind, DestructorInRange
<1> QED
  BY <1>1, <1>3, <1>4, <1>5, <1>6 DEF StorageInv

\* The first of a set of positions is one of them.
LEMMA FirstIsIn ==
  ASSUME NEW S, S \subseteq Nat, S # {}
  PROVE  Storage!First(S) \in S
<1>1. \E r : IsWellFoundedOn(r, Nat) /\ \A x, y \in Nat : x < y => <<x, y>> \in r
  <2>1. \A x, y \in Nat : x < y => <<x, y>> \in OpToRel(<, Nat)
    BY DEF OpToRel
  <2> QED
    BY <2>1, NatLessThanWellFounded
<1>2. PICK r : IsWellFoundedOn(r, Nat) /\ \A x, y \in Nat : x < y => <<x, y>> \in r
  BY <1>1
<1>3. \E x \in S : \A y \in S : ~(<<y, x>> \in r)
  <2>1. IsWellFoundedOn(r, Nat)
    BY <1>2
  <2> QED
    BY <2>1, WFMin, ZenonT(60)
<1>4. PICK x \in S : \A y \in S : ~(<<y, x>> \in r)
  BY <1>3
<1>5. \A y \in S : ~(y < x)
  BY <1>2, <1>4
<1>6. \A y \in S : x <= y
  BY <1>5
<1> QED
  BY <1>6 DEF Storage!First

LEMMA NextStorageTypes ==
  ASSUME StorageInv, Storage!Next PROVE Storage!TypeOK'
<1> USE StorageAssumption DEF StorageInv, Storage!TypeOK, Storage!TssAssumption
<1>0. PICK t \in Owners :
        \/ Storage!Create(t)
        \/ \E k \in Storage!Keys :
             \/ Storage!Delete(t, k)
             \/ \E v \in Values \cup {None} :
                  Storage!SetFound(t, k, v) \/ Storage!SetNew(t, k, v)
        \/ Storage!Start(t) \/ Storage!End(t) \/ Storage!SweepStep(t)
  BY DEF Storage!Next
<1>1. CASE Storage!Create(t)
  BY <1>1 DEF Storage!Create, Storage!sweepVars
<1>2. ASSUME NEW k \in Storage!Keys, Storage!Delete(t, k)
      PROVE  Storage!TypeOK'
  BY <1>2 DEF Storage!Delete, Storage!Empty, Storage!sweepVars
<1>3. ASSUME NEW k \in Storage!Keys, NEW v \in Values \cup {None},
             Storage!SetFound(t, k, v) \/ Storage!SetNew(t, k, v)
      PROVE  Storage!TypeOK'
  <2>1. Storage!Setting(t, k, v)
    BY <1>3 DEF Storage!SetFound, Storage!SetNew
  <2>2. resets' \in [Owners -> 0..Iterations]
    BY <2>1 DEF Storage!Setting
  <2>3. last' \in [Owners -> [Storage!Keys -> Values \cup {None}]]
    BY <2>1 DEF Storage!Setting
  <2>4. values' \in [Storage!Entries -> [tid : Owners \cup {None},
                                         key : Storage!Keys \cup {None},
                                         value : Values \cup {None}]]
    <3> DEFINE Slot == [tid : Owners \cup {None}, key : Storage!Keys \cup {None},
                        value : Values \cup {None}]
    <3>1. CASE Storage!SetFound(t, k, v)
      <4> DEFINE i == Storage!First(Storage!Found(t, k))
      <4>1. values' = IF v = None THEN [values EXCEPT ![i] = Storage!Empty]
                                  ELSE [values EXCEPT ![i].value = v]
        BY <3>1 DEF Storage!SetFound
      <4>2. values' = values
            \/ \E e \in Slot : values' = [values EXCEPT ![i] = e]
        <5>1. CASE v = None
          <6>1. Storage!Empty \in Slot
            BY DEF Storage!Empty
          <6> QED
            BY <4>1, <5>1, <6>1
        <5>2. CASE v # None /\ i \in Storage!Entries
          <6>1. values[i] \in Slot
            BY <5>2
          <6>2. [values[i] EXCEPT !.value = v] \in Slot
            BY <6>1
          <6> HIDE DEF Slot
          <6> QED
            BY <4>1, <5>2, <6>2
        <5>3. CASE v # None /\ i \notin Storage!Entries
          <6> HIDE DEF i
          <6> QED
            BY <4>1, <5>3
        <5> QED
          BY <5>1, <5>2, <5>3
      <4>3. values \in [Storage!Entries -> Slot]
        OBVIOUS
      <4> HIDE DEF i, Slot
      <4>4. values' \in [Storage!Entries -> Slot]
        BY <4>2, <4>3
      <4> QED
        BY <4>4 DEF Slot
    <3>2. CASE Storage!SetNew(t, k, v)
      <4> DEFINE i == Storage!First(Storage!Vacant)
      <4>1. values' = [values EXCEPT ![i] = [tid |-> t, key |-> k, value |-> v]]
        BY <3>2 DEF Storage!SetNew
      <4> HIDE DEF i
      <4> QED
        BY <4>1
    <3> QED
      BY <1>3, <3>1, <3>2
  <2> QED
    BY <2>1, <2>2, <2>3, <2>4 DEF Storage!Setting, Storage!sweepVars
<1>4. CASE Storage!Start(t) \/ Storage!End(t)
  <2>1. resets' \in [Owners -> 0..Iterations]
    BY <1>4 DEF Storage!Start, Storage!End
  <2>2. last' \in [Owners -> [Storage!Keys -> Values \cup {None}]]
    BY <1>4 DEF Storage!Start, Storage!End
  <2> QED
    BY <1>4, <2>1, <2>2 DEF Storage!Start, Storage!End, Storage!sweepVars
<1>5. CASE Storage!SweepPasses(t)
  BY <1>5 DEF Storage!SweepPasses, Storage!InSweep, Storage!Entries
<1>6. CASE Storage!SweepTakes(t)
  <2>1. last' \in [Owners -> [Storage!Keys -> Values \cup {None}]]
    BY <1>6 DEF Storage!SweepTakes
  <2>2. values' \in [Storage!Entries -> [tid : Owners \cup {None},
                                         key : Storage!Keys \cup {None},
                                         value : Values \cup {None}]]
    BY <1>6 DEF Storage!SweepTakes, Storage!Empty
  <2>3. pos' \in [Owners -> 1..(ValueCount + 1)]
    BY <1>6 DEF Storage!SweepTakes, Storage!InSweep, Storage!Entries
  <2>4. sweepPc' \in [Owners -> {"unborn", "running", "sweep", "destructor",
                                 "dead"}]
    BY <1>6 DEF Storage!SweepTakes
  <2> QED
    BY <1>6, <2>1, <2>2, <2>3, <2>4 DEF Storage!SweepTakes
<1>7. CASE Storage!DestructorReturns(t)
  <2>1. pos[t] \in Storage!Entries
    BY <1>7 DEF SweepInv, DestructorInRange, Storage!DestructorReturns
  <2> QED
    BY <1>7, <2>1 DEF Storage!DestructorReturns, Storage!Entries
<1>8. CASE Storage!Round(t)
  <2>1. round' \in [Owners -> 0..(Iterations - 1)]
    BY <1>8 DEF Storage!Round, Storage!NewRound
  <2>2. pos' \in [Owners -> 1..(ValueCount + 1)]
    BY <1>8 DEF Storage!Round, Storage!NewRound
  <2> QED
    BY <1>8, <2>1, <2>2 DEF Storage!Round, Storage!NewRound
<1> QED
  BY <1>0, <1>1, <1>2, <1>3, <1>4, <1>5, <1>6, <1>7, <1>8
     DEF Storage!SweepStep

\* tss_create takes a free key, under which there are no values.
LEMMA CreateStorage ==
  ASSUME StorageInv, NEW t \in Owners, Storage!Create(t)
  PROVE  /\ EntriesOK' /\ OneForEachKey' /\ EntriesHoldLast'
         /\ NothingKept' /\ SweepInv'
<1>1. /\ UNCHANGED <<values, sweepPc, round, pos, called, resets, last>>
      /\ \A k \in Storage!Keys : keys[k] # "free" => keys'[k] # "free"
  BY DEF Storage!Create, Storage!sweepVars, StorageInv, Storage!TypeOK
<1>2. EntriesOK'
  BY <1>1 DEF StorageInv, EntriesOK
<1> QED
  BY <1>1, <1>2
     DEF StorageInv, OneForEachKey, EntriesHoldLast, NothingKept, SweepInv,
         NotSwept, SetBehind, RoundsHaveCause, NothingBehind,
         DestructorInRange, Storage!WithinRounds, Storage!Found, Entry

\* Entries that stay or are emptied keep most of the invariant.
LEMMA FewerEntries ==
  ASSUME StorageInv,
         \A i \in Storage!Entries : values'[i] \in {values[i], Storage!Empty},
         \A i \in Storage!Entries :
           values'[i] # Storage!Empty => keys'[values[i].key] # "free"
  PROVE  /\ EntriesOK' /\ OneForEachKey'
         /\ \A i \in Storage!Entries :
              values'[i].tid \in Owners => values'[i] = values[i]
<1> USE StorageAssumption DEF Storage!TssAssumption
<1>1. \A i \in Storage!Entries : values'[i].tid \in Owners => values'[i] = values[i]
  BY DEF Storage!Empty
<1>2. EntriesOK'
  BY DEF StorageInv, EntriesOK
<1>3. OneForEachKey'
  BY <1>1 DEF StorageInv, OneForEachKey
<1> QED
  BY <1>1, <1>2, <1>3

\* tss_delete takes the values of all threads along.
LEMMA DeleteStorage ==
  ASSUME StorageInv, NEW t \in Owners, NEW k \in Storage!Keys,
         Storage!Delete(t, k)
  PROVE  /\ EntriesOK' /\ OneForEachKey' /\ EntriesHoldLast'
         /\ NothingKept' /\ SweepInv'
<1> USE StorageAssumption DEF Storage!TssAssumption
<1>1. /\ UNCHANGED <<sweepPc, round, pos, called, resets>>
      /\ \A i \in Storage!Entries :
           values'[i] = IF values[i].key = k THEN Storage!Empty ELSE values[i]
      /\ \A j \in Storage!Keys \ {k} : keys'[j] = keys[j]
      /\ \A u \in Owners, j \in Storage!Keys :
           last'[u][j] = IF j = k THEN None ELSE last[u][j]
  BY DEF Storage!Delete, Storage!sweepVars, StorageInv, Storage!TypeOK
<1>2. /\ EntriesOK' /\ OneForEachKey'
      /\ \A i \in Storage!Entries :
           values'[i].tid \in Owners => values'[i] = values[i]
  <2>1. \A i \in Storage!Entries :
          values'[i] # Storage!Empty => keys'[values[i].key] # "free"
    BY <1>1 DEF StorageInv, EntriesOK
  <2> QED
    BY <1>1, <2>1, FewerEntries
<1>3. EntriesHoldLast'
  <2> SUFFICES ASSUME NEW u \in Owners, Storage!WithinRounds(u),
                      NEW j \in Storage!Keys
               PROVE  /\ \A i \in Storage!Found(u, j)' : values'[i].value = last'[u][j]
                      /\ last'[u][j] # None => Storage!Found(u, j)' # {}
    BY <1>1 DEF EntriesHoldLast, Storage!WithinRounds
  <2>1. CASE j = k
    <3>1. Storage!Found(u, j)' = {}
      BY <1>1, <2>1 DEF Storage!Found, Storage!Empty
    <3> QED
      BY <1>1, <2>1, <3>1
  <2>2. CASE j # k
    <3>1. Storage!Found(u, j)' = Storage!Found(u, j)
      BY <1>1, <2>2 DEF Storage!Found, Storage!Empty
    <3>2. \A i \in Storage!Found(u, j) : values'[i] = values[i]
      BY <1>1, <2>2 DEF Storage!Found
    <3> QED
      BY <1>1, <2>2, <3>1, <3>2 DEF StorageInv, EntriesHoldLast
  <2> QED
    BY <2>1, <2>2
<1>4. NothingKept' /\ SweepInv'
  BY <1>1, <1>2
     DEF StorageInv, NothingKept, SweepInv, NotSwept, SetBehind,
         RoundsHaveCause, NothingBehind, DestructorInRange,
         Storage!WithinRounds, Entry
<1> QED
  BY <1>2, <1>3, <1>4

\* What tss_set does besides the table
LEMMA SettingStorage ==
  ASSUME StorageInv, NEW t \in Owners, NEW k \in Storage!Keys,
         NEW v \in Values \cup {None}, Storage!Setting(t, k, v)
  PROVE  /\ UNCHANGED <<keys, sweepPc, round, pos, called>>
         /\ \A u \in Owners : resets'[u] \in Nat
         /\ sweepPc[t] \in {"running", "destructor"} /\ keys[k] # "free"
         /\ \A u \in Owners, j \in Storage!Keys :
              last'[u][j] = IF u = t /\ j = k THEN v ELSE last[u][j]
         /\ \A u \in Owners : resets'[u] >= resets[u]
                              /\ (u # t => resets'[u] = resets[u])
         /\ \A u \in Owners : Storage!WithinRounds(u)' => Storage!WithinRounds(u)
         /\ v # None /\ sweepPc[t] = "destructor" => resets'[t] > round[t]
         /\ resets'[t] >= round[t]
<1> USE StorageAssumption DEF Storage!TssAssumption, StorageInv, Storage!TypeOK
<1>1. resets[t] >= round[t]
  BY DEF Storage!Setting, Storage!InClient, SweepInv, RoundsHaveCause, NotSwept
<1>2. /\ UNCHANGED <<keys, sweepPc, round, pos, called>>
      /\ sweepPc[t] \in {"running", "destructor"} /\ keys[k] # "free"
  BY DEF Storage!Setting, Storage!InClient, Storage!sweepVars
<1>3. \A u \in Owners, j \in Storage!Keys :
        last'[u][j] = IF u = t /\ j = k THEN v ELSE last[u][j]
  BY DEF Storage!Setting
<1>4. /\ \A u \in Owners : resets'[u] >= resets[u]
                           /\ (u # t => resets'[u] = resets[u])
      /\ v # None /\ sweepPc[t] = "destructor" => resets'[t] > round[t]
      /\ resets'[t] >= round[t]
  BY <1>1 DEF Storage!Setting
<1>5. \A u \in Owners : resets[u] \in Nat /\ resets'[u] \in Nat
  BY DEF Storage!Setting
<1>6. \A u \in Owners : Storage!WithinRounds(u)' => Storage!WithinRounds(u)
  BY <1>4, <1>5 DEF Storage!WithinRounds
<1> QED
  BY <1>2, <1>3, <1>4, <1>5, <1>6

\* Only the entries of the thread that sets a value change, and a new one
\* comes only from a value that is not NULL.
LEMMA SettingKeeps ==
  ASSUME StorageInv, NEW t \in Owners, NEW k \in Storage!Keys,
         NEW v \in Values \cup {None}, Storage!Setting(t, k, v),
         \A u \in Owners, i \in Storage!Entries :
           Entry(u, i)' => Entry(u, i) \/ (u = t /\ v # None)
  PROVE  NothingKept' /\ SweepInv'
<1> USE StorageAssumption DEF Storage!TssAssumption, StorageInv, Storage!TypeOK
<1>1. NothingKept'
  <2> SUFFICES ASSUME NEW u \in Owners, Storage!WithinRounds(u)',
                      sweepPc'[u] \in {"unborn", "dead"},
                      NEW i \in Storage!Entries, Entry(u, i)'
               PROVE  FALSE
    BY DEF NothingKept
  <2> QED
    BY SettingStorage DEF NothingKept
<1>2. NotSwept' /\ DestructorInRange'
  BY SettingStorage DEF SweepInv, NotSwept, DestructorInRange
<1>3. SetBehind'
  <2> SUFFICES ASSUME NEW u \in Owners, NEW i \in Storage!Entries, Entry(u, i)',
                      i < pos'[u] \/ (i = pos'[u] /\ sweepPc'[u] = "destructor")
               PROVE  resets'[u] > round'[u]
    BY DEF SetBehind
  <2>0. /\ i \in Nat /\ i >= 1 /\ resets[u] \in Nat /\ round[u] \in Nat
        /\ resets'[u] >= resets[u] /\ UNCHANGED <<round, pos, sweepPc>>
        /\ resets'[u] \in Nat
    <3>1. i \in Nat /\ i >= 1
      BY DEF Storage!Entries
    <3>2. resets[u] \in Nat /\ round[u] \in Nat
      OBVIOUS
    <3>3. /\ resets'[u] >= resets[u] /\ UNCHANGED <<round, pos, sweepPc>>
          /\ resets'[u] \in Nat
      BY SettingStorage
    <3> QED
      BY <3>1, <3>2, <3>3
  <2>1. CASE Entry(u, i)
    BY <2>0, <2>1 DEF SweepInv, SetBehind
  <2>2. CASE u = t /\ v # None
    <3>1. CASE sweepPc[t] = "destructor"
      BY <2>0, <2>2, <3>1, SettingStorage
    <3>2. CASE sweepPc[t] = "running"
      BY <2>0, <2>2, <3>2 DEF SweepInv, NotSwept
    <3> QED
      BY <3>1, <3>2, SettingStorage
  <2> QED
    BY <2>1, <2>2
<1>4. RoundsHaveCause'
  <2> SUFFICES ASSUME NEW u \in Owners,
                      called'[u] \/ sweepPc'[u] = "destructor"
                        \/ (\E i \in Storage!Entries : Entry(u, i)')
               PROVE  resets'[u] >= round'[u]
    BY DEF RoundsHaveCause
  <2>1. CASE u = t
    BY <2>1, SettingStorage
  <2>2. CASE u # t
    BY <2>2, SettingStorage DEF SweepInv, RoundsHaveCause
  <2> QED
    BY <2>1, <2>2
<1>5. NothingBehind'
  BY SettingStorage DEF SweepInv, NothingBehind
<1> QED
  BY <1>1, <1>2, <1>3, <1>4, <1>5 DEF SweepInv

\* A value that is found is replaced, or its entry emptied.
LEMMA SetFoundStorage ==
  ASSUME StorageInv, NEW t \in Owners, NEW k \in Storage!Keys,
         NEW v \in Values \cup {None}, Storage!SetFound(t, k, v)
  PROVE  /\ EntriesOK' /\ OneForEachKey' /\ EntriesHoldLast'
         /\ NothingKept' /\ SweepInv'
<1> USE StorageAssumption DEF Storage!TssAssumption
<1>1. Storage!Setting(t, k, v)
  BY DEF Storage!SetFound
<1> DEFINE i == Storage!First(Storage!Found(t, k))
<1>2. i \in Storage!Found(t, k)
  <2>1. Storage!Found(t, k) \subseteq Nat /\ Storage!Found(t, k) # {}
    BY DEF Storage!SetFound, Storage!Found, Storage!Entries
  <2> QED
    BY <2>1, FirstIsIn
<1>3. values' = IF v = None THEN [values EXCEPT ![i] = Storage!Empty]
                            ELSE [values EXCEPT ![i].value = v]
  BY DEF Storage!SetFound
<1> HIDE DEF i
<1>4. i \in Storage!Entries /\ values[i].tid = t /\ values[i].key = k
  BY <1>2 DEF Storage!Found
<1>5. /\ v = None => values'[i] = Storage!Empty
      /\ v # None => /\ values'[i].tid = t /\ values'[i].key = k
                     /\ values'[i].value = v
      /\ \A j \in Storage!Entries \ {i} : values'[j] = values[j]
  BY <1>3, <1>4 DEF StorageInv, Storage!TypeOK
<1>6. Storage!Found(t, k) = {i}
  BY <1>2, <1>4 DEF Storage!Found, StorageInv, OneForEachKey
<1>7. EntriesOK'
  <2>1. v # None => v \in Values
    OBVIOUS
  <2> QED
    BY <1>1, <1>4, <1>5, <2>1, SettingStorage DEF StorageInv, EntriesOK
<1>8. OneForEachKey'
  BY <1>4, <1>5 DEF StorageInv, OneForEachKey, Storage!Empty
<1>9. NothingKept' /\ SweepInv'
  <2>1. \A u \in Owners, j \in Storage!Entries : Entry(u, j)' => Entry(u, j)
    BY <1>4, <1>5 DEF Entry, Storage!Empty
  <2> QED
    BY <1>1, <2>1, SettingKeeps
<1>10. EntriesHoldLast'
  <2> SUFFICES ASSUME NEW u \in Owners, Storage!WithinRounds(u)',
                      NEW j \in Storage!Keys
               PROVE  /\ \A h \in Storage!Found(u, j)' : values'[h].value = last'[u][j]
                      /\ last'[u][j] # None => Storage!Found(u, j)' # {}
    BY DEF EntriesHoldLast
  <2>1. last'[u][j] = IF u = t /\ j = k THEN v ELSE last[u][j]
    BY <1>1, SettingStorage
  <2>2. Storage!WithinRounds(u)
    BY <1>1, SettingStorage
  <2>3. CASE u = t /\ j = k
    <3>1. CASE v = None
      <4>1. Storage!Found(u, j)' = {}
        BY <1>5, <1>6, <2>3, <3>1 DEF Storage!Found, Storage!Empty
      <4> QED
        BY <2>1, <2>3, <3>1, <4>1
    <3>2. CASE v # None
      <4>1. Storage!Found(u, j)' = {i}
        BY <1>4, <1>5, <1>6, <2>3, <3>2 DEF Storage!Found
      <4> QED
        BY <1>5, <2>1, <2>3, <3>2, <4>1
    <3> QED
      BY <3>1, <3>2
  <2>4. CASE ~(u = t /\ j = k)
    <3>1. Storage!Found(u, j)' = Storage!Found(u, j) /\ i \notin Storage!Found(u, j)
      BY <1>4, <1>5, <2>4 DEF Storage!Found, Storage!Empty
    <3>2. \A h \in Storage!Found(u, j) : values'[h] = values[h]
      BY <1>5, <3>1 DEF Storage!Found
    <3> QED
      BY <2>1, <2>2, <2>4, <3>1, <3>2 DEF StorageInv, EntriesHoldLast
  <2> QED
    BY <2>3, <2>4
<1> QED
  BY <1>7, <1>8, <1>9, <1>10

\* A value that is not found gets an entry nobody has.
LEMMA SetNewStorage ==
  ASSUME StorageInv, NEW t \in Owners, NEW k \in Storage!Keys,
         NEW v \in Values \cup {None}, Storage!SetNew(t, k, v)
  PROVE  /\ EntriesOK' /\ OneForEachKey' /\ EntriesHoldLast'
         /\ NothingKept' /\ SweepInv'
<1> USE StorageAssumption DEF Storage!TssAssumption
<1>1. Storage!Setting(t, k, v) /\ v \in Values /\ Storage!Found(t, k) = {}
  BY DEF Storage!SetNew
<1> DEFINE i == Storage!First(Storage!Vacant)
<1>2. i \in Storage!Vacant
  <2>1. Storage!Vacant \subseteq Nat /\ Storage!Vacant # {}
    BY DEF Storage!SetNew, Storage!Vacant, Storage!Entries
  <2> QED
    BY <2>1, FirstIsIn
<1>3. values' = [values EXCEPT ![i] = [tid |-> t, key |-> k, value |-> v]]
  BY DEF Storage!SetNew
<1> HIDE DEF i
<1>4. i \in Storage!Entries /\ values[i].tid = None
  BY <1>2 DEF Storage!Vacant
<1>5. /\ values'[i] = [tid |-> t, key |-> k, value |-> v]
      /\ \A j \in Storage!Entries \ {i} : values'[j] = values[j]
  BY <1>3, <1>4 DEF StorageInv, Storage!TypeOK
<1>6. \A j \in Storage!Entries : ~(values[j].tid = t /\ values[j].key = k)
  BY <1>1 DEF Storage!Found
<1>7. EntriesOK'
  BY <1>1, <1>5, SettingStorage DEF StorageInv, EntriesOK
<1>8. OneForEachKey'
  BY <1>5, <1>6 DEF StorageInv, OneForEachKey
<1>9. NothingKept' /\ SweepInv'
  <2>1. \A u \in Owners, j \in Storage!Entries :
          Entry(u, j)' => Entry(u, j) \/ (u = t /\ v # None)
    BY <1>5, <1>1 DEF Entry, Storage!SetNew
  <2> QED
    BY <1>1, <2>1, SettingKeeps
<1>10. EntriesHoldLast'
  <2> SUFFICES ASSUME NEW u \in Owners, Storage!WithinRounds(u)',
                      NEW j \in Storage!Keys
               PROVE  /\ \A h \in Storage!Found(u, j)' : values'[h].value = last'[u][j]
                      /\ last'[u][j] # None => Storage!Found(u, j)' # {}
    BY DEF EntriesHoldLast
  <2>1. last'[u][j] = IF u = t /\ j = k THEN v ELSE last[u][j]
    BY <1>1, SettingStorage
  <2>2. Storage!WithinRounds(u)
    BY <1>1, SettingStorage
  <2>3. CASE u = t /\ j = k
    <3>1. Storage!Found(u, j)' = {i}
      BY <1>4, <1>5, <1>6, <2>3 DEF Storage!Found
    <3> QED
      BY <1>5, <2>1, <2>3, <3>1
  <2>4. CASE ~(u = t /\ j = k)
    <3>1. Storage!Found(u, j)' = Storage!Found(u, j) /\ i \notin Storage!Found(u, j)
      BY <1>4, <1>5, <2>4 DEF Storage!Found
    <3>2. \A h \in Storage!Found(u, j) : values'[h] = values[h]
      BY <1>5, <3>1 DEF Storage!Found
    <3> QED
      BY <2>1, <2>2, <2>4, <3>1, <3>2 DEF StorageInv, EntriesHoldLast
  <2> QED
    BY <2>3, <2>4
<1> QED
  BY <1>7, <1>8, <1>9, <1>10

\* A tid that comes to life finds no entries of its earlier thread.
LEMMA StartStorage ==
  ASSUME StorageInv, NEW t \in Owners, Storage!Start(t)
  PROVE  /\ EntriesOK' /\ OneForEachKey' /\ EntriesHoldLast'
         /\ NothingKept' /\ SweepInv'
<1> USE StorageAssumption DEF Storage!TssAssumption, StorageInv, Storage!TypeOK
<1>1. /\ UNCHANGED <<keys, values, round, pos, called>>
      /\ sweepPc[t] \in {"unborn", "dead"}
      /\ \A u \in Owners : sweepPc'[u] = IF u = t THEN "running" ELSE sweepPc[u]
      /\ \A u \in Owners :
           Storage!WithinRounds(u)' <=> Storage!WithinRounds(u)
      /\ \A u \in Owners \ {t} : resets'[u] = resets[u]
      /\ \A u \in Owners, j \in Storage!Keys :
           last'[u][j] = IF u = t THEN None ELSE last[u][j]
      /\ resets'[t] \in Nat
  BY DEF Storage!Start, Storage!sweepVars, Storage!WithinRounds
<1>2. EntriesOK' /\ OneForEachKey'
  BY <1>1 DEF EntriesOK, OneForEachKey
<1>3. NothingKept'
  BY <1>1 DEF NothingKept, Entry
<1>4. EntriesHoldLast'
  <2> SUFFICES ASSUME NEW u \in Owners, Storage!WithinRounds(u)',
                      NEW j \in Storage!Keys
               PROVE  /\ \A h \in Storage!Found(u, j)' : values'[h].value = last'[u][j]
                      /\ last'[u][j] # None => Storage!Found(u, j)' # {}
    BY DEF EntriesHoldLast
  <2>1. Storage!Found(u, j)' = Storage!Found(u, j)
    BY <1>1 DEF Storage!Found
  <2>2. CASE u = t
    <3>1. Storage!Found(u, j) = {}
      BY <1>1, <2>2 DEF NothingKept, Entry, Storage!Found
    <3> QED
      BY <1>1, <2>1, <2>2, <3>1
  <2>3. CASE u # t
    BY <1>1, <2>1, <2>3 DEF EntriesHoldLast
  <2> QED
    BY <2>2, <2>3
<1>5. SweepInv'
  <2>1. NotSwept' /\ NothingBehind' /\ DestructorInRange'
    BY <1>1 DEF SweepInv, NotSwept, NothingBehind, DestructorInRange, Entry
  <2>2. pos[t] = 1 /\ round[t] = 0
    BY <1>1 DEF SweepInv, NotSwept
  <2>3. SetBehind'
    <3>1. \A i \in Storage!Entries : i >= 1 /\ i \in Nat
      BY DEF Storage!Entries
    <3>2. \A i \in Storage!Entries : ~(i < pos'[t]) /\ sweepPc'[t] = "running"
      BY <1>1, <2>2, <3>1
    <3>3. \A u \in Owners \ {t}, i \in Storage!Entries :
            Entry(u, i)'
              /\ (i < pos'[u] \/ (i = pos'[u] /\ sweepPc'[u] = "destructor")) =>
              resets'[u] > round'[u]
      BY <1>1 DEF SweepInv, SetBehind, Entry
    <3> QED
      BY <3>2, <3>3 DEF SetBehind
  <2>4. RoundsHaveCause'
    BY <1>1, <2>2 DEF SweepInv, RoundsHaveCause, Entry
  <2> QED
    BY <2>1, <2>3, <2>4 DEF SweepInv
<1> QED
  BY <1>2, <1>3, <1>4, <1>5

\* The entries stay: a thread's end, and a step of the sweep over an entry of
\* another thread.
LEMMA EndStorage ==
  ASSUME StorageInv, NEW t \in Owners, Storage!End(t) \/ Storage!SweepPasses(t)
                                       \/ Storage!DestructorReturns(t)
  PROVE  /\ EntriesOK' /\ OneForEachKey' /\ EntriesHoldLast'
         /\ NothingKept' /\ SweepInv'
<1> USE StorageAssumption DEF Storage!TssAssumption, StorageInv, Storage!TypeOK
<1>1. UNCHANGED <<keys, values, last, resets, round>>
  BY DEF Storage!End, Storage!SweepPasses, Storage!DestructorReturns,
         Storage!sweepVars
<1>2. EntriesOK' /\ OneForEachKey' /\ EntriesHoldLast'
  BY <1>1 DEF EntriesOK, OneForEachKey, EntriesHoldLast, Storage!Found,
              Storage!WithinRounds
<1>3. NothingKept'
  BY <1>1 DEF NothingKept, Entry, Storage!WithinRounds, Storage!End,
              Storage!SweepPasses, Storage!DestructorReturns
<1>4. CASE Storage!End(t)
  <2>1. SweepInv'
    BY <1>1, <1>4
       DEF Storage!End, Storage!sweepVars, SweepInv, NotSwept, SetBehind,
           RoundsHaveCause, NothingBehind, DestructorInRange, Entry,
           Storage!Entries
  <2> QED
    BY <1>2, <1>3, <2>1
<1>5. CASE Storage!SweepPasses(t)
  <2>1. ~Entry(t, pos[t])
    BY <1>5 DEF Storage!SweepPasses, Storage!InSweep, Storage!HasValue,
                EntriesOK, Entry, Storage!Empty
  <2>2. SweepInv'
    BY <1>1, <1>5, <2>1
       DEF Storage!SweepPasses, Storage!InSweep, SweepInv, NotSwept,
           SetBehind, RoundsHaveCause, NothingBehind, DestructorInRange,
           Entry, Storage!Entries
  <2> QED
    BY <1>2, <1>3, <2>2
<1>6. CASE Storage!DestructorReturns(t)
  <2>1. SweepInv'
    BY <1>1, <1>6
       DEF Storage!DestructorReturns, SweepInv, NotSwept, SetBehind,
           RoundsHaveCause, NothingBehind, DestructorInRange, Entry,
           Storage!Entries
  <2> QED
    BY <1>2, <1>3, <2>1
<1> QED
  BY <1>4, <1>5, <1>6

\* The value that the sweep takes was the only one for its key.
LEMMA TakeStorage ==
  ASSUME StorageInv, NEW t \in Owners, Storage!SweepTakes(t)
  PROVE  /\ EntriesOK' /\ OneForEachKey' /\ EntriesHoldLast'
         /\ NothingKept' /\ SweepInv'
<1> USE StorageAssumption DEF Storage!TssAssumption
<1> DEFINE i == pos[t]
           k == values[i].key
<1>1. /\ sweepPc[t] = "sweep" /\ i \in Storage!Entries
      /\ values[i].tid = t /\ k \in Storage!Keys
      /\ UNCHANGED <<keys, round, called, resets>>
  BY DEF Storage!SweepTakes, Storage!InSweep, Storage!HasValue, StorageInv,
         EntriesOK, Storage!Empty
<1>2. /\ values'[i] = Storage!Empty
      /\ \A j \in Storage!Entries \ {i} : values'[j] = values[j]
      /\ \A u \in Owners, j \in Storage!Keys :
           last'[u][j] = IF u = t /\ j = k THEN None ELSE last[u][j]
      /\ \A u \in Owners \ {t} : sweepPc'[u] = sweepPc[u] /\ pos'[u] = pos[u]
  BY <1>1 DEF Storage!SweepTakes, StorageInv, Storage!TypeOK
<1>3. \/ sweepPc'[t] = "destructor" /\ pos'[t] = i
      \/ sweepPc'[t] = "sweep" /\ pos'[t] = i + 1
  BY <1>1 DEF Storage!SweepTakes, StorageInv, Storage!TypeOK
<1> HIDE DEF i, k
<1>4. /\ EntriesOK' /\ OneForEachKey'
      /\ \A j \in Storage!Entries :
           values'[j].tid \in Owners => values'[j] = values[j]
  <2>1. /\ \A j \in Storage!Entries : values'[j] \in {values[j], Storage!Empty}
        /\ \A j \in Storage!Entries :
             values'[j] # Storage!Empty => keys'[values[j].key] # "free"
    BY <1>1, <1>2 DEF StorageInv, EntriesOK
  <2> QED
    BY <2>1, FewerEntries
<1>5. EntriesHoldLast'
  <2> SUFFICES ASSUME NEW u \in Owners, Storage!WithinRounds(u)',
                      NEW j \in Storage!Keys
               PROVE  /\ \A h \in Storage!Found(u, j)' : values'[h].value = last'[u][j]
                      /\ last'[u][j] # None => Storage!Found(u, j)' # {}
    BY DEF EntriesHoldLast
  <2>1. CASE u = t /\ j = k
    <3>1. Storage!Found(u, j)' = {}
      BY <1>1, <1>2, <2>1
         DEF Storage!Found, Storage!Empty, StorageInv, OneForEachKey, k
    <3> QED
      BY <1>2, <2>1, <3>1
  <2>2. CASE ~(u = t /\ j = k)
    <3>1. Storage!Found(u, j)' = Storage!Found(u, j) /\ i \notin Storage!Found(u, j)
      BY <1>1, <1>2, <2>2 DEF Storage!Found, Storage!Empty, k
    <3>2. \A h \in Storage!Found(u, j) : values'[h] = values[h]
      BY <1>2, <3>1 DEF Storage!Found
    <3> QED
      BY <1>1, <1>2, <2>2, <3>1, <3>2
         DEF StorageInv, EntriesHoldLast, Storage!WithinRounds
  <2> QED
    BY <2>1, <2>2
<1>6. \A u \in Owners, j \in Storage!Entries :
        Entry(u, j)' => Entry(u, j) /\ j # i
  BY <1>2 DEF Entry, Storage!Empty
<1>7. NothingKept'
  BY <1>1, <1>2, <1>3, <1>6 DEF StorageInv, NothingKept, Storage!WithinRounds
<1>8. NotSwept' /\ DestructorInRange'
  BY <1>1, <1>2, <1>3
     DEF StorageInv, SweepInv, NotSwept, DestructorInRange
<1>9. SetBehind' /\ NothingBehind'
  BY <1>1, <1>2, <1>3, <1>6
     DEF StorageInv, SweepInv, SetBehind, NothingBehind, Storage!Entries, i
<1>10. RoundsHaveCause'
  <2>1. resets[t] >= round[t]
    BY <1>1 DEF StorageInv, SweepInv, RoundsHaveCause, Entry
  <2> QED
    BY <1>1, <1>2, <1>6, <2>1 DEF StorageInv, SweepInv, RoundsHaveCause
<1> QED
  BY <1>4, <1>5, <1>7, <1>8, <1>9, <1>10 DEF SweepInv

\* A thread that ends its sweep has nothing left: a round without a destructor
\* leaves nothing behind, and what the last of the rounds leaves behind is the
\* work of as many settings as there are rounds.
LEMMA RoundStorage ==
  ASSUME StorageInv, NEW t \in Owners, Storage!Round(t)
  PROVE  /\ EntriesOK' /\ OneForEachKey' /\ EntriesHoldLast'
         /\ NothingKept' /\ SweepInv'
<1> USE StorageAssumption DEF Storage!TssAssumption, StorageInv, Storage!TypeOK
<1>1. /\ UNCHANGED <<keys, values, last, resets>>
      /\ sweepPc[t] = "sweep" /\ pos[t] = ValueCount + 1
      /\ pos'[t] = 1 /\ ~called'[t]
      /\ \A u \in Owners \ {t} :
           /\ sweepPc'[u] = sweepPc[u] /\ pos'[u] = pos[u]
           /\ round'[u] = round[u] /\ called'[u] = called[u]
  BY DEF Storage!Round, Storage!NewRound
<1>2. \/ /\ called[t] /\ round[t] + 1 < Iterations
         /\ round'[t] = round[t] + 1 /\ sweepPc'[t] = "sweep"
      \/ /\ ~(called[t] /\ round[t] + 1 < Iterations)
         /\ round'[t] = 0 /\ sweepPc'[t] = "dead"
  BY DEF Storage!Round, Storage!NewRound
<1>3. \A i \in Storage!Entries : i < pos[t] /\ i >= 1
  BY <1>1 DEF Storage!Entries
<1>4. EntriesOK' /\ OneForEachKey' /\ EntriesHoldLast'
  BY <1>1 DEF EntriesOK, OneForEachKey, EntriesHoldLast, Storage!Found,
              Storage!WithinRounds
<1>5. NothingKept'
  <2> SUFFICES ASSUME Storage!WithinRounds(t)', sweepPc'[t] = "dead",
                      NEW i \in Storage!Entries, Entry(t, i)
               PROVE  FALSE
    BY <1>1, <1>2 DEF NothingKept, Entry, Storage!WithinRounds
  <2>1. resets[t] > round[t]
    BY <1>3 DEF SweepInv, SetBehind
  <2>2. called[t]
    BY <1>1, <1>3 DEF SweepInv, NothingBehind
  <2>3. round[t] + 1 >= Iterations
    BY <1>2, <2>2
  <2> QED
    BY <1>1, <2>1, <2>3 DEF Storage!WithinRounds
<1>6. RoundsHaveCause'
  <2> SUFFICES ASSUME round'[t] = round[t] + 1,
                      NEW i \in Storage!Entries, Entry(t, i)
               PROVE  resets[t] >= round[t] + 1
    BY <1>1, <1>2 DEF SweepInv, RoundsHaveCause, Entry
  <2> QED
    BY <1>3 DEF SweepInv, SetBehind
<1>7. SetBehind' /\ NothingBehind'
  <2>1. \A i \in Storage!Entries : ~(i < pos'[t]) /\ sweepPc'[t] # "destructor"
    BY <1>1, <1>2 DEF Storage!Entries
  <2>2. \A u \in Owners \ {t}, i \in Storage!Entries :
          Entry(u, i)'
            /\ (i < pos'[u] \/ (i = pos'[u] /\ sweepPc'[u] = "destructor")) =>
            resets'[u] > round'[u]
    BY <1>1 DEF SweepInv, SetBehind, Entry
  <2>3. \A u \in Owners \ {t}, i \in Storage!Entries :
          sweepPc'[u] = "sweep" /\ ~called'[u] /\ i < pos'[u] => ~Entry(u, i)'
    BY <1>1 DEF SweepInv, NothingBehind, Entry
  <2> QED
    BY <2>1, <2>2, <2>3 DEF SetBehind, NothingBehind
<1>8. NotSwept' /\ DestructorInRange'
  BY <1>1, <1>2 DEF SweepInv, NotSwept, DestructorInRange
<1> QED
  BY <1>4, <1>5, <1>6, <1>7, <1>8 DEF SweepInv

LEMMA NextStorage ==
  StorageInv /\ [Storage!Next]_(Storage!vars) => StorageInv'
<1> SUFFICES ASSUME StorageInv, [Storage!Next]_(Storage!vars)
             PROVE  StorageInv'
  OBVIOUS
<1>1. CASE UNCHANGED Storage!vars
  BY <1>1 DEF Storage!vars, StorageInv, Storage!TypeOK, EntriesOK,
              OneForEachKey, EntriesHoldLast, NothingKept, SweepInv, NotSwept,
              SetBehind, RoundsHaveCause, NothingBehind, DestructorInRange,
              Entry, Storage!Found, Storage!WithinRounds
<1>2. CASE Storage!Next
  <2>1. Storage!TypeOK'
    BY <1>2, NextStorageTypes
  <2>2. /\ EntriesOK' /\ OneForEachKey' /\ EntriesHoldLast'
        /\ NothingKept' /\ SweepInv'
    BY <1>2, CreateStorage, DeleteStorage, SetFoundStorage, SetNewStorage,
       StartStorage, EndStorage, TakeStorage, RoundStorage
       DEF Storage!Next, Storage!SweepStep
  <2> QED
    BY <2>1, <2>2 DEF StorageInv
<1> QED
  BY <1>1, <1>2

\* tss.c and state.c: the table, the sweeps and what the threads have set
\* agree in every reachable state.
THEOREM StorageInvariance == Storage!Spec => []StorageInv
  BY InitStorage, NextStorage, PTL DEF Storage!Spec

\* Type correctness of the storage, sweeps and their positions included
THEOREM StorageTypes == Storage!Spec => []Storage!TypeOK
<1>1. StorageInv => Storage!TypeOK
  BY DEF StorageInv
<1> QED
  BY <1>1, StorageInvariance, PTL

\* tss_get: a thread gets what it set, and never what an earlier thread with
\* its tid, or under an earlier key with its number, had set.
THEOREM GetIsLastSet == Storage!Spec => []GetGivesLastSet
<1>1. StorageInv => GetGivesLastSet
  <2> SUFFICES ASSUME StorageInv, NEW t \in Owners, NEW k \in Storage!Keys,
                      Storage!WithinRounds(t)
               PROVE  Storage!Get(t, k) = last[t][k]
    BY DEF GetGivesLastSet, Storage!GetGivesLastSet
  <2>1. CASE Storage!Found(t, k) = {}
    BY <2>1 DEF Storage!Get, StorageInv, EntriesHoldLast
  <2>2. CASE Storage!Found(t, k) # {}
    <3>1. Storage!Found(t, k) \subseteq Nat
      BY StorageAssumption DEF Storage!TssAssumption, Storage!Found, Storage!Entries
    <3>2. Storage!First(Storage!Found(t, k)) \in Storage!Found(t, k)
      BY <2>2, <3>1, FirstIsIn
    <3> DEFINE i == Storage!First(Storage!Found(t, k))
    <3>3. values[i].value = last[t][k]
      BY <3>2 DEF StorageInv, EntriesHoldLast
    <3>4. keys[k] # "free"
      BY <3>2, StorageAssumption
         DEF Storage!Found, StorageInv, EntriesOK, Storage!Empty,
             Storage!TssAssumption
    <3> QED
      BY <2>2, <3>3, <3>4 DEF Storage!Get
  <2> QED
    BY <2>1, <2>2
<1> QED
  BY <1>1, StorageInvariance, PTL

\* __meuos_tss_cleanup empties the table of the thread's values, whatever its
\* destructors do, if they set fewer than there are rounds.
THEOREM SweepEmpties == Storage!Spec => []EndsClean
<1>1. StorageInv => EndsClean
  BY DEF StorageInv, NothingKept, Entry, EndsClean, Storage!EndsClean
<1> QED
  BY <1>1, StorageInvariance, PTL

\* __meuos_tss_cleanup calls a destructor for the value that the thread has.
THEOREM DestructorsOnce == Storage!Spec => DestructorOncePerValue
<1>1. StorageInv /\ [Storage!Next]_(Storage!vars) =>
        [\A t \in Owners :
           Storage!WithinRounds(t) /\ sweepPc[t] = "sweep"
             /\ sweepPc'[t] = "destructor" =>
             LET entry == values[pos[t]]
             IN entry.value = last[t][entry.key]
                /\ entry.value # None]_(Storage!vars)
  <2> SUFFICES ASSUME StorageInv, Storage!Next, NEW t \in Owners,
                      Storage!WithinRounds(t), sweepPc[t] = "sweep",
                      sweepPc'[t] = "destructor"
               PROVE  /\ values[pos[t]].value = last[t][values[pos[t]].key]
                      /\ values[pos[t]].value # None
    OBVIOUS
  <2>1. Storage!SweepTakes(t)
    BY DEF Storage!Next, Storage!SweepStep, Storage!Create, Storage!Delete,
           Storage!SetFound, Storage!SetNew, Storage!Setting, Storage!Start,
           Storage!End, Storage!SweepPasses, Storage!SweepTakes,
           Storage!DestructorReturns, Storage!Round, Storage!NewRound,
           StorageInv, Storage!TypeOK
  <2>2. /\ pos[t] \in Storage!Entries /\ values[pos[t]].tid = t
        /\ values[pos[t]].key \in Storage!Keys /\ values[pos[t]].value \in Values
    BY <2>1, StorageAssumption
       DEF Storage!SweepTakes, Storage!InSweep, Storage!HasValue, StorageInv,
           EntriesOK, Storage!Empty, Storage!TssAssumption
  <2>3. pos[t] \in Storage!Found(t, values[pos[t]].key)
    BY <2>2 DEF Storage!Found
  <2> QED
    BY <2>2, <2>3, StorageAssumption
       DEF StorageInv, EntriesHoldLast, Storage!TssAssumption
<1> QED
  BY <1>1, StorageInvariance, PTL
     DEF Storage!Spec, DestructorOncePerValue, Storage!DestructorOncePerValue

-----------------------------------------------------------------------------
\* The two together

\* Each of the two keeps its promises beside the other.
THEOREM ThreadsAndStorage ==
  ThreadsSpec => [](NoLeak /\ GetGivesLastSet /\ EndsClean)
<1>1. ThreadsInit => Init /\ Storage!Init
  BY DEF ThreadsInit
<1>2. [ThreadsNext]_allVars => [Next]_vars /\ [Storage!Next]_(Storage!vars)
  BY DEF ThreadsNext, LifeDoes, StorageDoes, allVars, vars, storageVars,
         Storage!vars
<1>3. ThreadsSpec => Spec /\ Storage!Spec
  BY <1>1, <1>2, PTL DEF ThreadsSpec, Spec, Storage!Spec
<1> QED
  BY <1>3, NothingLeaks, GetIsLastSet, SweepEmpties, PTL
=============================================================================
