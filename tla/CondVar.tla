------------------------------- MODULE CondVar -------------------------------
(***************************************************************************)
(* The condition variable of meuos-libc, src/thread/condvar.c: a sequence  *)
(* number that cnd_signal and cnd_broadcast bump before they wake, and     *)
(* that cnd_wait reads before it gives up the mutex, so that FUTEX_WAIT    *)
(* refuses to sleep when a signal came in between.                         *)
(*                                                                         *)
(* The mutex is Lock, which CMutex implements: each of its steps is atomic *)
(* here.  The clients are the ones condition variables are for.  Producers *)
(* put items and signal, before or after they unlock; consumers take one,  *)
(* and wait while there is none.                                           *)
(***************************************************************************)
EXTENDS Naturals, FiniteSets

CONSTANTS
  Producers,
  Consumers,
  NoThread,
  SeqSize,      \* how many values condition->sequence has (2^32 in the code)
  MaxPuts       \* bound: how many items are put, hence signals given

Threads == Producers \cup Consumers

ASSUME ClientsAssumption == /\ Producers \cap Consumers = {}
                            /\ NoThread \notin Threads
ASSUME FiniteAssumption == IsFiniteSet(Producers) /\ IsFiniteSet(Consumers)
\* No more signals than the sequence has values, or a waiter descheduled
\* between its load and its FUTEX_WAIT could meet its old value again.
ASSUME SeqAssumption == /\ SeqSize \in Nat \ {0}
                        /\ MaxPuts \in Nat
                        /\ MaxPuts < SeqSize

VARIABLES
  holder, depth,  \* the mutex
  sequence,       \* condition->sequence
  items,          \* what the mutex protects: items put and not yet taken
  puts,           \* items put so far
  pc,             \* the step each thread takes next
  expected,       \* the local of cnd_wait and cnd_timedwait
  timed,          \* whether a consumer is in cnd_timedwait
  outcome         \* what the FUTEX_WAIT of a consumer's wait returned

vars == <<holder, depth, sequence, items, puts, pc, expected, timed, outcome>>

client == <<sequence, items, puts, expected, timed, outcome>>

Mutex == INSTANCE Lock

ProducerLabels == {"idle", "lock", "put", "bump", "wake_one", "wake_all",
                   "unlock"}
ConsumerLabels == {"idle", "lock", "check", "clock", "load", "release",
                   "futex", "asleep", "relock", "returned", "unlock"}

Goto(t, label) == pc' = [pc EXCEPT ![t] = label]

Sleepers == {c \in Consumers : pc[c] = "asleep"}

\* cnd_init, mtx_init
Init == /\ Mutex!Init
        /\ sequence = 0
        /\ items = 0
        /\ puts = 0
        /\ pc = [t \in Threads |-> "idle"]
        /\ expected = [c \in Consumers |-> 0]
        /\ timed = [c \in Consumers |-> FALSE]
        /\ outcome = [c \in Consumers |-> "success"]

-----------------------------------------------------------------------------
(* mtx_lock and mtx_unlock around a client's critical section *)

Start(t) ==
  /\ pc[t] = "idle"
  /\ t \in Producers => puts < MaxPuts
  /\ Goto(t, "lock")
  /\ UNCHANGED <<holder, depth, client>>

MtxLock(t) ==
  /\ pc[t] = "lock"
  /\ Mutex!Acquire(t)
  /\ Goto(t, IF t \in Producers THEN "put" ELSE "check")
  /\ UNCHANGED client

\* A producer that has still to signal does so after its unlock.
MtxUnlock(t) ==
  /\ pc[t] = "unlock"
  /\ Mutex!Release(t)
  /\ Goto(t, "idle")
  /\ UNCHANGED client

-----------------------------------------------------------------------------
(* cnd_signal and cnd_broadcast *)

\* The producer keeps the mutex for the signal, or unlocks first.
Put(p) ==
  /\ pc[p] = "put"
  /\ puts < MaxPuts
  /\ items' = items + 1
  /\ puts' = puts + 1
  /\ Goto(p, "bump")
  /\ Mutex!Release(p) \/ UNCHANGED <<holder, depth>>
  /\ UNCHANGED <<sequence, expected, timed, outcome>>

\* A producer that found the last put made by another gives up.
PutNothing(p) ==
  /\ pc[p] = "put"
  /\ puts = MaxPuts
  /\ Goto(p, "unlock")
  /\ UNCHANGED <<holder, depth, client>>

\* atomic_fetch_add(&condition->sequence, 1)
Bump(p) ==
  /\ pc[p] = "bump"
  /\ sequence' = (sequence + 1) % SeqSize
  /\ Goto(p, "wake_one") \/ Goto(p, "wake_all")
  /\ UNCHANGED <<holder, depth, items, puts, expected, timed, outcome>>

AfterSignal(p) == IF holder = p THEN "unlock" ELSE "idle"

\* FUTEX_WAKE of one waiter, or of all: their FUTEX_WAIT returns 0
WakeSet(p, awake) ==
  /\ pc' = [t \in Threads |-> IF t \in awake THEN "relock"
                              ELSE IF t = p THEN AfterSignal(p) ELSE pc[t]]
  /\ UNCHANGED <<holder, depth, client>>

\* Mutant: the signal bumps the sequence and wakes nobody.
WakeOneMissing(p) ==
  /\ pc[p] = "wake_one"
  /\ WakeSet(p, {})

WakeOne(p) ==
  /\ pc[p] = "wake_one"
  /\ \/ Sleepers = {} /\ WakeSet(p, {})
     \/ \E c \in Sleepers : WakeSet(p, {c})

WakeAll(p) ==
  /\ pc[p] = "wake_all"
  /\ WakeSet(p, Sleepers)

-----------------------------------------------------------------------------
(* cnd_wait and cnd_timedwait *)

\* while (!items) wait: the consumer takes an item, or waits with or without
\* a deadline.
Check(c) ==
  /\ pc[c] = "check"
  /\ \/ /\ items > 0
        /\ items' = items - 1
        /\ Goto(c, "unlock")
        /\ UNCHANGED timed
     \/ /\ items = 0
        /\ \/ Goto(c, "load") /\ timed' = [timed EXCEPT ![c] = FALSE]
           \/ Goto(c, "clock") /\ timed' = [timed EXCEPT ![c] = TRUE]
        /\ UNCHANGED items
  /\ UNCHANGED <<holder, depth, sequence, puts, expected, outcome>>

\* A client's mistake the code has an answer for: waiting without the mutex
CarelessWait(c) ==
  /\ pc[c] = "idle"
  /\ Goto(c, "load")
  /\ UNCHANGED <<holder, depth, client>>

\* Past the deadline, or when the clock cannot be read, cnd_timedwait returns
\* with the mutex still held.
ReadClock(c) ==
  /\ pc[c] = "clock"
  /\ \/ Goto(c, "load") /\ UNCHANGED outcome
     \/ \E result \in {"timedout", "error"} :
          /\ outcome' = [outcome EXCEPT ![c] = result]
          /\ Goto(c, "returned")
  /\ UNCHANGED <<holder, depth, sequence, items, puts, expected, timed>>

\* expected = atomic_load(&condition->sequence)
Load(c) ==
  /\ pc[c] = "load"
  /\ expected' = [expected EXCEPT ![c] = sequence]
  /\ Goto(c, "release")
  /\ UNCHANGED <<holder, depth, sequence, items, puts, timed, outcome>>

\* mtx_unlock(mutex) != thrd_success returns thrd_error
Release(c) ==
  /\ pc[c] = "release"
  /\ \/ Mutex!Release(c) /\ Goto(c, "futex") /\ UNCHANGED expected
     \/ /\ holder # c
        /\ Goto(c, "idle")
        /\ expected' = [expected EXCEPT ![c] = 0]
        /\ UNCHANGED <<holder, depth>>
  /\ UNCHANGED <<sequence, items, puts, timed, outcome>>

\* Mutant: the sequence is read after the unlock, so nothing is compared.
FutexWaitBlind(c) ==
  /\ pc[c] = "futex"
  /\ Goto(c, "asleep")
  /\ expected' = [expected EXCEPT ![c] = 0]
  /\ UNCHANGED <<holder, depth, sequence, items, puts, timed, outcome>>

\* FUTEX_WAIT(sequence, expected), EAGAIN when the sequence has moved
FutexWait(c) ==
  /\ pc[c] = "futex"
  /\ \/ /\ sequence = expected[c]
        /\ Goto(c, "asleep")
     \/ /\ sequence # expected[c]
        /\ Goto(c, "relock")
  /\ expected' = [expected EXCEPT ![c] = 0]
  /\ UNCHANGED <<holder, depth, sequence, items, puts, timed, outcome>>

\* EINTR, or the end of a timed wait.  A thread already woken returns 0.
LeaveSleep(c, result) ==
  /\ pc[c] = "asleep"
  /\ outcome' = [outcome EXCEPT ![c] = result]
  /\ Goto(c, "relock")
  /\ UNCHANGED <<holder, depth, sequence, items, puts, expected, timed>>

Interrupted(c) == LeaveSleep(c, "success")

TimedOut(c) == timed[c] /\ LeaveSleep(c, "timedout")

\* Mutant: a timeout returns at once.
RelockUnlessTimedOut(c) ==
  /\ pc[c] = "relock"
  /\ \/ Mutex!Acquire(c)
     \/ outcome[c] = "timedout" /\ UNCHANGED <<holder, depth>>
  /\ Goto(c, "returned")
  /\ UNCHANGED client

\* mtx_lock(mutex), whatever the wait returned
Relock(c) ==
  /\ pc[c] = "relock"
  /\ Mutex!Acquire(c)
  /\ Goto(c, "returned")
  /\ UNCHANGED client

\* The client looks again; after a timeout or an error it may leave instead.
Returned(c) ==
  /\ pc[c] = "returned"
  /\ \/ Goto(c, "check")
     \/ outcome[c] # "success" /\ Goto(c, "unlock")
  /\ timed' = [timed EXCEPT ![c] = FALSE]
  /\ outcome' = [outcome EXCEPT ![c] = "success"]
  /\ UNCHANGED <<holder, depth, sequence, items, puts, expected>>

-----------------------------------------------------------------------------

ProducerStep(p) == \/ MtxLock(p) \/ Put(p) \/ PutNothing(p) \/ Bump(p)
                   \/ WakeOne(p) \/ WakeAll(p) \/ MtxUnlock(p)

ConsumerStep(c) == \/ MtxLock(c) \/ Check(c) \/ ReadClock(c) \/ Load(c)
                   \/ Release(c) \/ FutexWait(c) \/ Relock(c) \/ Returned(c)
                   \/ MtxUnlock(c)

Next ==
  \/ \E t \in Threads : Start(t)
  \/ \E p \in Producers : ProducerStep(p)
  \/ \E c \in Consumers : \/ ConsumerStep(c) \/ CarelessWait(c)
                          \/ Interrupted(c) \/ TimedOut(c)

Spec == Init /\ [][Next]_vars

\* Threads in the middle of something are scheduled; nothing makes a client
\* start, a signal handler run or a deadline pass.
Fairness == /\ \A p \in Producers : WF_vars(ProducerStep(p))
            /\ \A c \in Consumers : WF_vars(ConsumerStep(c))

FairSpec == Spec /\ Fairness

-----------------------------------------------------------------------------
(* Properties *)

TypeOK ==
  /\ holder \in Threads \cup {NoThread}
  /\ depth \in {0, 1}
  /\ sequence \in 0..(SeqSize - 1)
  /\ puts \in 0..MaxPuts
  /\ items \in 0..puts
  /\ pc \in [Threads -> ProducerLabels \cup ConsumerLabels]
  /\ expected \in [Consumers -> 0..(SeqSize - 1)]
  /\ timed \in [Consumers -> BOOLEAN]
  /\ outcome \in [Consumers -> {"success", "timedout", "error"}]

\* However cnd_wait and cnd_timedwait return to a caller that held the mutex
\* (woken, interrupted, timed out, refused by FUTEX_WAIT, clock failed), the
\* caller holds it again, so nobody else is in a critical section.
WaitReturnsHolding ==
  \A c \in Consumers :
    pc[c] \in {"check", "clock", "returned", "unlock"} => holder = c

\* No signal is lost.  While a consumer sleeps, every item present has either
\* a producer that has still to wake somebody for it, or a consumer that is
\* awake and will look for it.  In particular a cnd_signal that falls between
\* a waiter's unlock and its FUTEX_WAIT is not missed, and a wakeup is never
\* spent on a waiter that timed out.
Signalling == {p \in Producers : pc[p] \in {"bump", "wake_one", "wake_all"}}
Looking == {c \in Consumers :
              \/ pc[c] \in {"lock", "check"}
              \/ pc[c] \in {"relock", "returned"} /\ outcome[c] = "success"}

NoLostSignal ==
  Sleepers # {} => items <= Cardinality(Signalling) + Cardinality(Looking)

\* An item does not stay while consumers sleep: somebody takes the last one,
\* or every sleeper is up.
ItemsReachSleepers == (Sleepers # {} /\ items > 0) ~> (Sleepers = {} \/ items = 0)
=============================================================================
