------------------------------- MODULE CMutex -------------------------------
(***************************************************************************)
(* The mutex of meuos-libc, src/thread/mutex.c: one word `state` (0 free,  *)
(* 1 taken) driven by compare-and-swap and futex(2), with the plain ints   *)
(* `owner` and `count` beside it.  Every access to shared memory and every *)
(* system call is a step of its own; what a thread does between two of     *)
(* them is local to it.                                                    *)
(*                                                                         *)
(* The client may call any operation at any time, including mtx_unlock     *)
(* from a thread that is not the holder, with one exception: it does not   *)
(* call mtx_lock on a plain mutex it already holds (that call never        *)
(* returns, by design).                                                    *)
(***************************************************************************)
EXTENDS Naturals

CONSTANTS
  Threads,      \* the threads that use the mutex
  NoThread,     \* the owner field's 0
  MaxDepth      \* bound: how deep a client nests a recursive mutex

ASSUME ThreadsAssumption == NoThread \notin Threads
ASSUME DepthAssumption == MaxDepth \in Nat \ {0}

VARIABLES
  state,        \* mutex->state
  owner,        \* mutex->owner
  count,        \* mutex->count
  kind,         \* mutex->type: "plain" or "recursive"
  pc,           \* the step each thread takes next
  call,         \* which locking operation a thread is in
  expired,      \* whether the deadline of a thread's mtx_timedlock has passed
  depth         \* what each client is owed: locks returned less unlocks accepted

vars == <<state, owner, count, kind, pc, call, expired, depth>>

Kinds == {"plain", "recursive"}
Calls == {"trylock", "lock", "timedlock"}
Labels == {"idle", "try_owner", "try_bump", "try_cas", "set_owner",
           "set_count", "clock", "futex", "asleep", "unlock", "drop",
           "clear_owner", "clear_count", "store", "wake"}

Goto(t, label) == pc' = [pc EXCEPT ![t] = label]

Sleepers == {t \in Threads : pc[t] = "asleep"}

-----------------------------------------------------------------------------
(* mtx_init on fresh memory *)

Init == /\ state = 0
        /\ owner = NoThread
        /\ count = 0
        /\ kind \in Kinds
        /\ pc = [t \in Threads |-> "idle"]
        /\ call = [t \in Threads |-> "trylock"]
        /\ expired = [t \in Threads |-> FALSE]
        /\ depth = [t \in Threads |-> 0]

\* mtx_destroy and mtx_init again, with a type of the caller's choice.  The
\* caller may do this once no thread holds the mutex or is in a call on it.
\* An unlocker that has stored 0 and still has its FUTEX_WAKE to do no longer
\* reads the mutex, and the caller has no means to wait for it.
Recycle ==
  /\ \A t \in Threads : pc[t] \in {"idle", "wake"} /\ depth[t] = 0
  /\ state' = 0
  /\ owner' = NoThread
  /\ count' = 0
  /\ kind' \in Kinds
  /\ UNCHANGED <<pc, call, expired, depth>>

-----------------------------------------------------------------------------
(* mtx_trylock, also the attempt each round of mtx_lock and mtx_timedlock makes *)

CallLocking(t, op) ==
  /\ pc[t] = "idle"
  /\ depth[t] < MaxDepth
  /\ op = "lock" => kind = "recursive" \/ depth[t] = 0
  /\ Goto(t, "try_owner")
  /\ call' = [call EXCEPT ![t] = op]
  /\ expired' = [expired EXCEPT ![t] = FALSE]
  /\ UNCHANGED <<state, owner, count, kind, depth>>

\* (mutex->type & mtx_recursive) && mutex->owner == tid
TryOwner(t) ==
  /\ pc[t] = "try_owner"
  /\ Goto(t, IF kind = "recursive" /\ owner = t THEN "try_bump" ELSE "try_cas")
  /\ UNCHANGED <<state, owner, count, kind, call, expired, depth>>

\* ++mutex->count, and the call succeeds
TryBump(t) ==
  /\ pc[t] = "try_bump"
  /\ count' = count + 1
  /\ depth' = [depth EXCEPT ![t] = @ + 1]
  /\ Goto(t, "idle")
  /\ UNCHANGED <<state, owner, kind, call, expired>>

AfterFailedTry == [trylock |-> "idle", lock |-> "futex", timedlock |-> "clock"]

\* Mutant: owner is tested in place of state.
TryCasOnOwner(t) ==
  /\ pc[t] = "try_cas"
  /\ \/ /\ owner = NoThread
        /\ state' = 1
        /\ Goto(t, "set_owner")
     \/ /\ owner # NoThread
        /\ Goto(t, AfterFailedTry[call[t]])
        /\ UNCHANGED state
  /\ UNCHANGED <<owner, count, kind, call, expired, depth>>

\* atomic_compare_exchange_strong(&mutex->state, 0, 1)
TryCas(t) ==
  /\ pc[t] = "try_cas"
  /\ \/ /\ state = 0
        /\ state' = 1
        /\ Goto(t, "set_owner")
     \/ /\ state # 0
        /\ Goto(t, AfterFailedTry[call[t]])
        /\ UNCHANGED state
  /\ UNCHANGED <<owner, count, kind, call, expired, depth>>

SetOwner(t) ==
  /\ pc[t] = "set_owner"
  /\ owner' = t
  /\ Goto(t, "set_count")
  /\ UNCHANGED <<state, count, kind, call, expired, depth>>

SetCount(t) ==
  /\ pc[t] = "set_count"
  /\ count' = 1
  /\ depth' = [depth EXCEPT ![t] = @ + 1]
  /\ Goto(t, "idle")
  /\ UNCHANGED <<state, owner, kind, call, expired>>

-----------------------------------------------------------------------------
(* Waiting in mtx_lock and mtx_timedlock *)

\* The wall clock passes a pending deadline.
DeadlinePasses(t) ==
  /\ pc[t] # "idle"
  /\ call[t] = "timedlock"
  /\ ~expired[t]
  /\ expired' = [expired EXCEPT ![t] = TRUE]
  /\ UNCHANGED <<state, owner, count, kind, pc, call, depth>>

\* Mutant: the deadline is left to the kernel.
ReadClockNever(t) ==
  /\ pc[t] = "clock"
  /\ Goto(t, "futex")
  /\ UNCHANGED <<state, owner, count, kind, call, expired, depth>>

\* clock_gettime: past the deadline the call returns thrd_timedout, and when
\* the clock cannot be read thrd_error; otherwise it goes on to wait.
ReadClock(t) ==
  /\ pc[t] = "clock"
  /\ Goto(t, "idle") \/ (~expired[t] /\ Goto(t, "futex"))
  /\ UNCHANGED <<state, owner, count, kind, call, expired, depth>>

\* Mutant: a wait that does not compare.
FutexWaitBlind(t) ==
  /\ pc[t] = "futex"
  /\ Goto(t, "asleep")
  /\ UNCHANGED <<state, owner, count, kind, call, expired, depth>>

\* FUTEX_WAIT(state, 1): the kernel compares and queues in one step.
FutexWait(t) ==
  /\ pc[t] = "futex"
  /\ Goto(t, IF state = 1 THEN "asleep" ELSE "try_owner")
  /\ UNCHANGED <<state, owner, count, kind, call, expired, depth>>

\* EINTR: a signal handler ran; both loops go round again.
Interrupted(t) ==
  /\ pc[t] = "asleep"
  /\ Goto(t, "try_owner")
  /\ UNCHANGED <<state, owner, count, kind, call, expired, depth>>

\* ETIMEDOUT, which only the wait of mtx_timedlock can give
TimedOut(t) ==
  /\ pc[t] = "asleep"
  /\ call[t] = "timedlock"
  /\ expired[t]
  /\ Goto(t, "idle")
  /\ UNCHANGED <<state, owner, count, kind, call, expired, depth>>

-----------------------------------------------------------------------------
(* mtx_unlock *)

CallUnlock(t) ==
  /\ pc[t] = "idle"
  /\ Goto(t, "unlock")
  /\ UNCHANGED <<state, owner, count, kind, call, expired, depth>>

\* Mutant: the owner is not compared.
CheckCountOnly(t) ==
  /\ pc[t] = "unlock"
  /\ \/ /\ count # 0
        /\ Goto(t, IF kind = "recursive" THEN "drop" ELSE "clear_owner")
        /\ depth' = [depth EXCEPT ![t] = @ - 1]
     \/ /\ count = 0
        /\ Goto(t, "idle")
        /\ UNCHANGED depth
  /\ UNCHANGED <<state, owner, count, kind, call, expired>>

\* mutex->owner != gettid() || !mutex->count returns thrd_error
CheckOwner(t) ==
  /\ pc[t] = "unlock"
  /\ \/ /\ owner = t /\ count # 0
        /\ Goto(t, IF kind = "recursive" THEN "drop" ELSE "clear_owner")
        /\ depth' = [depth EXCEPT ![t] = @ - 1]
     \/ /\ ~(owner = t /\ count # 0)
        /\ Goto(t, "idle")
        /\ UNCHANGED depth
  /\ UNCHANGED <<state, owner, count, kind, call, expired>>

\* --mutex->count: while it stays above 0 the mutex is kept
Drop(t) ==
  /\ pc[t] = "drop"
  /\ count' = count - 1
  /\ Goto(t, IF count' # 0 THEN "idle" ELSE "clear_owner")
  /\ UNCHANGED <<state, owner, kind, call, expired, depth>>

\* Mutant: the word is freed before the fields are cleared.
ClearOwnerLate(t) ==
  /\ pc[t] = "clear_owner"
  /\ owner' = NoThread
  /\ state' = 0
  /\ Goto(t, "clear_count")
  /\ UNCHANGED <<count, kind, call, expired, depth>>

ClearOwner(t) ==
  /\ pc[t] = "clear_owner"
  /\ owner' = NoThread
  /\ Goto(t, "clear_count")
  /\ UNCHANGED <<state, count, kind, call, expired, depth>>

ClearCount(t) ==
  /\ pc[t] = "clear_count"
  /\ count' = 0
  /\ Goto(t, "store")
  /\ UNCHANGED <<state, owner, kind, call, expired, depth>>

StoreFree(t) ==
  /\ pc[t] = "store"
  /\ state' = 0
  /\ Goto(t, "wake")
  /\ UNCHANGED <<owner, count, kind, call, expired, depth>>

\* Mutant: nobody is woken.
WakeNobody(t) ==
  /\ pc[t] = "wake"
  /\ Goto(t, "idle")
  /\ UNCHANGED <<state, owner, count, kind, call, expired, depth>>

\* FUTEX_WAKE(state, 1): one sleeper, if there is one, goes round its loop
Wake(t) ==
  /\ pc[t] = "wake"
  /\ \/ /\ Sleepers = {}
        /\ Goto(t, "idle")
     \/ \E u \in Sleepers :
          pc' = [pc EXCEPT ![t] = "idle", ![u] = "try_owner"]
  /\ UNCHANGED <<state, owner, count, kind, call, expired, depth>>

-----------------------------------------------------------------------------

\* A step of an operation in progress
Step(t) ==
  \/ TryOwner(t) \/ TryBump(t) \/ TryCas(t) \/ SetOwner(t) \/ SetCount(t)
  \/ ReadClock(t) \/ FutexWait(t) \/ TimedOut(t)
  \/ CheckOwner(t) \/ Drop(t) \/ ClearOwner(t) \/ ClearCount(t)
  \/ StoreFree(t) \/ Wake(t)

Next ==
  \/ Recycle
  \/ \E t \in Threads :
       \/ \E op \in Calls : CallLocking(t, op)
       \/ CallUnlock(t)
       \/ Step(t)
       \/ Interrupted(t)
       \/ DeadlinePasses(t)

Spec == Init /\ [][Next]_vars

\* A thread inside an operation is scheduled again and again, and time goes
\* on.  Nothing makes a client call, and nothing makes a signal arrive.
Fairness == \A t \in Threads : WF_vars(Step(t)) /\ WF_vars(DeadlinePasses(t))

FairSpec == Spec /\ Fairness

-----------------------------------------------------------------------------
(* Properties *)

TypeOK ==
  /\ state \in {0, 1}
  /\ owner \in Threads \cup {NoThread}
  /\ count \in 0..MaxDepth
  /\ kind \in Kinds
  /\ pc \in [Threads -> Labels]
  /\ call \in [Threads -> Calls]
  /\ expired \in [Threads -> BOOLEAN]
  /\ depth \in [Threads -> 0..MaxDepth]

\* Two clients never both have the mutex: between the mtx_lock, mtx_trylock
\* or mtx_timedlock that returned thrd_success to one of them and its last
\* mtx_unlock, no such call succeeds for another.
MutualExclusion ==
  \A s, t \in Threads : depth[s] > 0 /\ depth[t] > 0 => s = t

\* mtx_unlock accepts exactly the calls of the thread that has the mutex:
\* the unguarded owner and count fields never make it refuse the holder (who
\* could then never release) or obey another thread.
UnlockObeysHolder ==
  \A t \in Threads :
    pc[t] = "unlock" => (owner = t /\ count # 0 <=> depth[t] > 0)

\* No wakeup is lost: when the mutex is free and a thread sleeps on it, some
\* thread is about to call FUTEX_WAKE or to attempt the compare-and-swap (and
\* will itself wake a sleeper after it).
NoLostWakeup ==
  state = 0 /\ Sleepers # {} =>
    \E t \in Threads : pc[t] \in {"wake", "try_owner", "try_cas"}

\* The thread that has the mutex as the memory shows it
HasMutex(t) ==
  owner = t \/ pc[t] \in {"set_owner", "clear_count", "store"}

\* mutex.c implements Lock: the compare-and-swap acquires, the store of 0
\* releases, and the owner's ++count and --count nest in between.
AbstractHolder ==
  IF state = 0 THEN NoThread ELSE CHOOSE t \in Threads : HasMutex(t)

AbstractDepth == IF state = 0 THEN 0 ELSE IF count = 0 THEN 1 ELSE count

Abstract == INSTANCE Lock WITH holder <- AbstractHolder, depth <- AbstractDepth

ImplementsLock == Abstract!Spec

\* A free mutex that some thread waits for in mtx_lock does not stay free:
\* the chain of wakeups always reaches a thread that takes it.
FreeMutexIsTaken ==
  (state = 0 /\ \E t \in Threads : pc[t] # "idle" /\ call[t] = "lock"
                                   /\ pc[t] \in {"try_owner", "try_cas", "futex", "asleep"})
    ~> state = 1

\* mtx_timedlock returns, whoever has the mutex and however long.
InTimedlock(t) ==
  /\ call[t] = "timedlock"
  /\ pc[t] \in {"try_owner", "try_bump", "try_cas", "set_owner", "set_count",
                "clock", "futex", "asleep"}

TimedlockReturns == \A t \in Threads : InTimedlock(t) ~> ~InTimedlock(t)
=============================================================================
