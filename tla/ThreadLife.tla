----------------------------- MODULE ThreadLife ------------------------------
(***************************************************************************)
(* Creation, end and joining of threads in meuos-libc,                     *)
(* src/thread/c11_threads.c, with the table of control blocks of           *)
(* src/thread/state.c and clone(2), exit(2) and CLONE_CHILD_CLEARTID as    *)
(* src/arch/*/thread_clone.S asks for them.                                *)
(*                                                                         *)
(* One thread of the program, the parent, creates and joins the others.    *)
(* Their control blocks come from malloc and their stacks from mmap, which *)
(* both hand out again what was given back.                                *)
(***************************************************************************)
EXTENDS Naturals, FiniteSets

CONSTANTS
  Children,     \* kernel threads, each used for one thrd_create at most
  Blocks,       \* addresses malloc has for control blocks
  Stacks,       \* addresses mmap has for stacks
  Slots,        \* THREAD_CONTROLS, the size of thread_controls (64)
  None,         \* 0, as a tid, a pointer or a result
  ClearTid      \* whether clone is asked for CLONE_CHILD_CLEARTID: TRUE on
                \* x86_64, i386, aarch64, loongarch64, FALSE on riscv64, arm

ASSUME NoneAssumption ==
  None \notin Children \cup Blocks \cup Stacks
ASSUME SlotsAssumption == Slots \in Nat
ASSUME ClearTidAssumption == ClearTid \in BOOLEAN

VARIABLES
  control,      \* struct meuos_thread: tid, result and stack, by address
  used,         \* blocks that malloc has given out
  mapped,       \* stacks that are mapped
  tls,          \* TLS areas allocated, by the control block that points at it
  table,        \* thread_controls: the blocks registered
  ppc,          \* the step the parent takes next
  cur,          \* the block the parent works on
  joined,       \* the result thrd_join has read
  handles,      \* thrd_t values created and not yet joined: block by child
  cpc,          \* the step each child takes next
  own,          \* the block whose address clone was given for a child
  stackOf,      \* the stack a child runs on
  crashed       \* a thread has touched memory that is not mapped

vars == <<control, used, mapped, tls, table, ppc, cur, joined, handles, cpc,
          own, stackOf, crashed>>

parentVars == <<ppc, cur, joined, handles>>
childVars == <<cpc, own, stackOf, crashed>>
memoryVars == <<used, mapped, tls, table>>

Blank == [tid |-> None, result |-> None, stack |-> None]

Init ==
  /\ control = [b \in Blocks |-> Blank]
  /\ used = {} /\ mapped = {} /\ tls = {} /\ table = {}
  /\ ppc = "idle"
  /\ cur = None
  /\ handles = [c \in {} |-> None]
  /\ joined = None
  /\ cpc = [c \in Children |-> "unborn"]
  /\ own = [c \in Children |-> None]
  /\ stackOf = [c \in Children |-> None]
  /\ crashed = FALSE

\* free: nobody reads what a block holds until malloc gives it out again.
Free(b) == /\ used' = used \ {b}
           /\ control' = [control EXCEPT ![b] = Blank]

-----------------------------------------------------------------------------
(* thrd_create *)

Parent(from, to) == ~crashed /\ ppc = from /\ ppc' = to

\* malloc, whose blocks come back in any order; control->tid and result are
\* cleared before anybody can see them.
CreateMalloc ==
  /\ Parent("idle", "create_tls")
  /\ \E b \in Blocks \ used :
       /\ used' = used \cup {b}
       /\ cur' = b
       /\ control' = [control EXCEPT ![b] = Blank]
  /\ UNCHANGED <<mapped, tls, table, joined, handles, childVars>>

\* __meuos_tls_alloc, or thrd_nomem
CreateTls ==
  /\ Parent("create_tls", "create_stack")
  /\ tls' = tls \cup {cur}
  /\ UNCHANGED <<control, used, mapped, table, cur, joined, handles, childVars>>

CreateTlsFails ==
  /\ Parent("create_tls", "idle")
  /\ Free(cur)
  /\ cur' = None
  /\ UNCHANGED <<mapped, tls, table, joined, handles, childVars>>

\* mmap of the stack, or thrd_nomem
CreateStack ==
  /\ Parent("create_stack", "create_slot")
  /\ \E s \in Stacks \ mapped :
       /\ mapped' = mapped \cup {s}
       /\ control' = [control EXCEPT ![cur].stack = s]
  /\ UNCHANGED <<used, tls, table, cur, joined, handles, childVars>>

CreateStackFails ==
  /\ Parent("create_stack", "idle")
  /\ tls' = tls \ {cur}
  /\ Free(cur)
  /\ cur' = None
  /\ UNCHANGED <<mapped, table, joined, handles, childVars>>

\* __meuos_control_add: the first empty slot, or none
CreateSlot ==
  /\ Parent("create_slot", "create_clone")
  /\ Cardinality(table) < Slots
  /\ table' = table \cup {cur}
  /\ UNCHANGED <<control, used, mapped, tls, cur, joined, handles, childVars>>

\* Mutant: a full table leaves the stack mapped.
CreateSlotFailsMapped ==
  /\ Parent("create_slot", "idle")
  /\ Cardinality(table) >= Slots
  /\ tls' = tls \ {cur}
  /\ Free(cur)
  /\ cur' = None
  /\ UNCHANGED <<mapped, table, joined, handles, childVars>>

CreateSlotFails ==
  /\ Parent("create_slot", "idle")
  /\ Cardinality(table) >= Slots
  /\ tls' = tls \ {cur}
  /\ mapped' = mapped \ {control[cur].stack}
  /\ Free(cur)
  /\ cur' = None
  /\ UNCHANGED <<table, joined, handles, childVars>>

\* clone: the kernel writes the tid before either thread goes on
\* (CLONE_PARENT_SETTID); *thread = control.
CreateClone ==
  /\ Parent("create_clone", "idle")
  /\ \E c \in Children :
       /\ cpc[c] = "unborn"
       /\ control' = [control EXCEPT ![cur].tid = c]
       /\ cpc' = [cpc EXCEPT ![c] = "running"]
       /\ own' = [own EXCEPT ![c] = cur]
       /\ stackOf' = [stackOf EXCEPT ![c] = control[cur].stack]
       /\ handles' = [d \in DOMAIN handles \cup {c} |->
                        IF d = c THEN cur ELSE handles[d]]
  /\ cur' = None
  /\ UNCHANGED <<memoryVars, joined, crashed>>

CreateCloneFails ==
  /\ Parent("create_clone", "idle")
  /\ table' = table \ {cur}
  /\ tls' = tls \ {cur}
  /\ mapped' = mapped \ {control[cur].stack}
  /\ Free(cur)
  /\ cur' = None
  /\ UNCHANGED <<joined, handles, childVars>>

Create == \/ CreateMalloc
          \/ CreateTls \/ CreateTlsFails
          \/ CreateStack \/ CreateStackFails
          \/ CreateSlot \/ CreateSlotFails
          \/ CreateClone \/ CreateCloneFails

-----------------------------------------------------------------------------
(* thrd_join *)

\* The child whose handle is being joined is the one whose block is cur.
Joined == CHOOSE c \in DOMAIN handles : handles[c] = cur

CallJoin ==
  /\ Parent("idle", "join_read")
  /\ \E c \in DOMAIN handles : cur' = handles[c]
  /\ UNCHANGED <<control, memoryVars, joined, handles, childVars>>

\* Mutant: the first wait comes before the first test.
JoinReadNothing ==
  /\ Parent("join_read", "join_asleep")
  /\ UNCHANGED <<control, memoryVars, cur, joined, handles, childVars>>

\* while (thread->tid) FUTEX_WAIT(&thread->tid, thread->tid).  A tid that has
\* become 0 between the loop's reads, or before the kernel's, does not sleep.
JoinRead ==
  /\ \/ Parent("join_read", "join_result") /\ control[cur].tid = None
     \/ Parent("join_read", "join_asleep") /\ control[cur].tid # None
  /\ UNCHANGED <<control, memoryVars, cur, joined, handles, childVars>>

\* Mutant: any end of the wait is taken for the thread's.
JoinInterruptedEnds ==
  /\ Parent("join_asleep", "join_result")
  /\ UNCHANGED <<control, memoryVars, cur, joined, handles, childVars>>

\* The FUTEX_WAIT is interrupted.
JoinInterrupted ==
  /\ Parent("join_asleep", "join_read")
  /\ UNCHANGED <<control, memoryVars, cur, joined, handles, childVars>>

\* *result = thread->result
JoinResult ==
  /\ Parent("join_result", "join_remove")
  /\ joined' = control[cur].result
  /\ UNCHANGED <<control, memoryVars, cur, handles, childVars>>

\* __meuos_control_remove
JoinRemove ==
  /\ Parent("join_remove", "join_unmap")
  /\ table' = table \ {cur}
  /\ UNCHANGED <<control, used, mapped, tls, cur, joined, handles, childVars>>

\* __meuos_tls_free, munmap
JoinUnmap ==
  /\ Parent("join_unmap", "join_free")
  /\ tls' = tls \ {cur}
  /\ mapped' = mapped \ {control[cur].stack}
  /\ UNCHANGED <<control, used, table, cur, joined, handles, childVars>>

\* free
JoinFree ==
  /\ Parent("join_free", "idle")
  /\ Free(cur)
  /\ handles' = [c \in DOMAIN handles \ {Joined} |-> handles[c]]
  /\ cur' = None
  /\ joined' = None
  /\ UNCHANGED <<mapped, tls, table, childVars>>

JoinStep == JoinRead \/ JoinResult \/ JoinRemove \/ JoinUnmap \/ JoinFree

-----------------------------------------------------------------------------
(* A child: its function, __meuos_thread_finish and the kernel's exit *)

Child(c, from, to) ==
  /\ ~crashed
  /\ cpc[c] = from
  /\ cpc' = [cpc EXCEPT ![c] = to]

\* Mutant: the result is not stored.
ReturnNothing(c) ==
  /\ Child(c, "running", "publish")
  /\ UNCHANGED <<control, memoryVars, parentVars, own, stackOf, crashed>>

\* The thread function returns: thread_clone.S passes the control block on.
Return(c) ==
  /\ Child(c, "running", "result")
  /\ UNCHANGED <<control, memoryVars, parentVars, own, stackOf, crashed>>

\* thrd_exit looks its tid up in the table, where only its own block can have
\* it; when that is not there it has nothing to publish.
FindsSelf(c) == own[c] \in table /\ control[own[c]].tid = c

ThrdExit(c) ==
  /\ Child(c, "running", IF FindsSelf(c) THEN "result" ELSE "exit")
  /\ UNCHANGED <<control, memoryVars, parentVars, own, stackOf, crashed>>

\* control->result = result: what a child returns is its own name.
StoreResult(c) ==
  /\ Child(c, "result", "publish")
  /\ control' = [control EXCEPT ![own[c]].result = c]
  /\ UNCHANGED <<memoryVars, parentVars, own, stackOf, crashed>>

\* control->tid = 0
Publish(c) ==
  /\ Child(c, "publish", "wake")
  /\ control' = [control EXCEPT ![own[c]].tid = None]
  /\ UNCHANGED <<memoryVars, parentVars, own, stackOf, crashed>>

\* FUTEX_WAKE of the joiner that sleeps on a block's tid
WakeJoiner(b) ==
  /\ ppc' = IF ppc = "join_asleep" /\ cur = b THEN "join_read" ELSE ppc
  /\ UNCHANGED <<cur, joined, handles>>

Wake(c) ==
  /\ Child(c, "wake", "exit")
  /\ WakeJoiner(own[c])
  /\ UNCHANGED <<control, memoryVars, own, stackOf, crashed>>

\* The call of _exit pushes a return address on the thread's stack.
CallExit(c) ==
  /\ Child(c, "exit", "exiting")
  /\ crashed' = (stackOf[c] \notin mapped)
  /\ UNCHANGED <<control, memoryVars, parentVars, own, stackOf>>

\* exit(2) in the kernel.  With CLONE_CHILD_CLEARTID it writes 0 to the
\* address that clone was given and wakes one thread that waits there.
KernelExit(c) ==
  /\ Child(c, "exiting", "gone")
  /\ IF ClearTid
       THEN /\ control' = [control EXCEPT ![own[c]].tid = None]
            /\ WakeJoiner(own[c])
       ELSE UNCHANGED <<control, parentVars>>
  /\ own' = [own EXCEPT ![c] = None]
  /\ stackOf' = [stackOf EXCEPT ![c] = None]
  /\ UNCHANGED <<memoryVars, crashed>>

ChildStep(c) == \/ Return(c) \/ ThrdExit(c) \/ StoreResult(c) \/ Publish(c)
                \/ Wake(c) \/ CallExit(c) \/ KernelExit(c)

-----------------------------------------------------------------------------

Next == \/ Create
        \/ CallJoin
        \/ JoinStep
        \/ JoinInterrupted
        \/ \E c \in Children : ChildStep(c)

Spec == Init /\ [][Next]_vars

\* Thread functions return, and threads that can go on do.
Fairness == WF_vars(JoinStep) /\ \A c \in Children : WF_vars(ChildStep(c))

FairSpec == Spec /\ Fairness

-----------------------------------------------------------------------------
(* Properties *)

ParentLabels == {"idle", "create_tls", "create_stack", "create_slot",
                 "create_clone", "join_read", "join_asleep", "join_result",
                 "join_remove", "join_unmap", "join_free"}
ChildLabels == {"unborn", "running", "result", "publish", "wake", "exit",
                "exiting", "gone"}

TypeOK ==
  /\ control \in [Blocks -> [tid : Children \cup {None},
                             result : Children \cup {None},
                             stack : Stacks \cup {None}]]
  /\ used \subseteq Blocks /\ mapped \subseteq Stacks
  /\ tls \subseteq Blocks /\ table \subseteq Blocks
  /\ ppc \in ParentLabels
  /\ cur \in Blocks \cup {None}
  /\ joined \in Children \cup {None}
  /\ DOMAIN handles \subseteq Children
  /\ \A c \in DOMAIN handles : handles[c] \in Blocks
  /\ cpc \in [Children -> ChildLabels]
  /\ own \in [Children -> Blocks \cup {None}]
  /\ stackOf \in [Children -> Stacks \cup {None}]
  /\ crashed \in BOOLEAN

\* thrd_join returns what the thread it names returned, after that thread's
\* function has returned: the block it reads is not one that an earlier
\* thread's exit has written to.
JoinGivesResult ==
  ppc \in {"join_remove", "join_unmap", "join_free"} =>
    /\ joined = Joined
    /\ cpc[Joined] \in {"wake", "exit", "exiting", "gone"}

\* thrd_create, whichever of its steps fails, and thrd_join give back exactly
\* what they took: between calls each joinable thread has its block, TLS area,
\* stack and slot, and nothing else is held.
NoLeak ==
  ppc = "idle" =>
    LET live == {handles[c] : c \in DOMAIN handles}
    IN /\ Cardinality(live) = Cardinality(DOMAIN handles)
       /\ used = live /\ tls = live /\ table = live
       /\ mapped = {control[b].stack : b \in live}

\* thrd_exit in a thread whose function still runs finds the control block
\* that thrd_join watches.
RunningIsFound == \A c \in Children : cpc[c] = "running" => FindsSelf(c)

\* thrd_join does not sleep for ever: the publication of the end wakes it.
JoinReturns == (ppc = "join_read") ~> (ppc = "idle" \/ crashed)
=============================================================================
