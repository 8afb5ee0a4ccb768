------------------------------- MODULE Barrier -------------------------------
(***************************************************************************)
(* pthread_barrier_wait of meuos-libc, src/thread/pthread.c: threads count *)
(* themselves under a mutex, the one that makes the count full resets it   *)
(* and broadcasts, and the others wait once on a condition variable, which *)
(* is not in a loop.  The steps of cnd_wait and cnd_broadcast are those of *)
(* src/thread/condvar.c; the mutex is Lock, which CMutex implements.       *)
(***************************************************************************)
EXTENDS Naturals, FiniteSets

CONSTANTS
  Threads,
  NoThread,
  Count,        \* b->count
  MaxTrips      \* bound: how often the barrier opens

\* What instances have to assume
BarrierAssumption == /\ NoThread \notin Threads
                     /\ Count \in Nat \ {0}
                     /\ MaxTrips \in Nat

VARIABLES
  holder, depth,  \* b->lock
  reached,        \* b->reached
  sequence,       \* b->cond.sequence, which does not wrap in MaxTrips
  pc,             \* the step each thread takes next
  expected,       \* the local of cnd_wait
  trips,          \* how often the barrier has opened
  cycle,          \* the value of trips when a thread arrived
  interrupted     \* a signal handler has cut a wait short

vars == <<holder, depth, reached, sequence, pc, expected, trips, cycle,
          interrupted>>

Mutex == INSTANCE Lock

Labels == {"idle", "lock", "arrive", "bump", "wake", "load", "release",
           "futex", "asleep", "relock", "unlock"}

Goto(t, label) == pc' = [pc EXCEPT ![t] = label]

Waiting == {t \in Threads : pc[t] \in {"load", "release", "futex", "asleep"}}
Sleepers == {t \in Threads : pc[t] = "asleep"}

Init == /\ Mutex!Init
        /\ reached = 0
        /\ sequence = 0
        /\ pc = [t \in Threads |-> "idle"]
        /\ expected = [t \in Threads |-> 0]
        /\ trips = 0
        /\ cycle = [t \in Threads |-> 0]
        /\ interrupted = FALSE

-----------------------------------------------------------------------------

Call(t) ==
  /\ pc[t] = "idle"
  /\ trips < MaxTrips
  /\ Goto(t, "lock")
  /\ UNCHANGED <<holder, depth, reached, sequence, expected, trips, cycle,
                 interrupted>>

MtxLock(t) ==
  /\ pc[t] = "lock"
  /\ Mutex!Acquire(t)
  /\ Goto(t, "arrive")
  /\ UNCHANGED <<reached, sequence, expected, trips, cycle, interrupted>>

\* Mutant: the count is not started anew.
ArriveNoReset(t) ==
  /\ pc[t] = "arrive"
  /\ cycle' = [cycle EXCEPT ![t] = trips]
  /\ reached' = reached + 1
  /\ IF reached' >= Count
       THEN trips' = trips + 1 /\ Goto(t, "bump")
       ELSE Goto(t, "load") /\ UNCHANGED trips
  /\ UNCHANGED <<holder, depth, sequence, expected, interrupted>>

\* b->reached++: the last one resets it and broadcasts, the others wait.
Arrive(t) ==
  /\ pc[t] = "arrive"
  /\ cycle' = [cycle EXCEPT ![t] = trips]
  /\ IF reached + 1 >= Count
       THEN /\ reached' = 0
            /\ trips' = trips + 1
            /\ Goto(t, "bump")
       ELSE /\ reached' = reached + 1
            /\ Goto(t, "load")
            /\ UNCHANGED trips
  /\ UNCHANGED <<holder, depth, sequence, expected, interrupted>>

Bump(t) ==
  /\ pc[t] = "bump"
  /\ sequence' = sequence + 1
  /\ Goto(t, "wake")
  /\ UNCHANGED <<holder, depth, reached, expected, trips, cycle, interrupted>>

\* FUTEX_WAKE of everybody, who then take the mutex again
WakeAll(t) ==
  /\ pc[t] = "wake"
  /\ pc' = [u \in Threads |-> IF u \in Sleepers THEN "relock"
                              ELSE IF u = t THEN "unlock" ELSE pc[u]]
  /\ UNCHANGED <<holder, depth, reached, sequence, expected, trips, cycle,
                 interrupted>>

Load(t) ==
  /\ pc[t] = "load"
  /\ expected' = [expected EXCEPT ![t] = sequence]
  /\ Goto(t, "release")
  /\ UNCHANGED <<holder, depth, reached, sequence, trips, cycle, interrupted>>

Release(t) ==
  /\ pc[t] = "release"
  /\ Mutex!Release(t)
  /\ Goto(t, "futex")
  /\ UNCHANGED <<reached, sequence, expected, trips, cycle, interrupted>>

\* Mutant: a wait that does not compare.
FutexWaitBlind(t) ==
  /\ pc[t] = "futex"
  /\ Goto(t, "asleep")
  /\ UNCHANGED <<holder, depth, reached, sequence, expected, trips, cycle,
                 interrupted>>

FutexWait(t) ==
  /\ pc[t] = "futex"
  /\ Goto(t, IF sequence = expected[t] THEN "asleep" ELSE "relock")
  /\ expected' = [expected EXCEPT ![t] = 0]
  /\ UNCHANGED <<holder, depth, reached, sequence, trips, cycle, interrupted>>

Interrupted(t) ==
  /\ pc[t] = "asleep"
  /\ Goto(t, "relock")
  /\ interrupted' = TRUE
  /\ UNCHANGED <<holder, depth, reached, sequence, expected, trips, cycle>>

Relock(t) ==
  /\ pc[t] = "relock"
  /\ Mutex!Acquire(t)
  /\ Goto(t, "unlock")
  /\ UNCHANGED <<reached, sequence, expected, trips, cycle, interrupted>>

\* The call returns: 1 to the thread that broadcast, 0 to the others.
MtxUnlock(t) ==
  /\ pc[t] = "unlock"
  /\ Mutex!Release(t)
  /\ Goto(t, "idle")
  /\ UNCHANGED <<reached, sequence, expected, trips, cycle, interrupted>>

Step(t) == \/ MtxLock(t) \/ Arrive(t) \/ Bump(t) \/ WakeAll(t)
           \/ Load(t) \/ Release(t) \/ FutexWait(t) \/ Relock(t)
           \/ MtxUnlock(t)

Next == \E t \in Threads : Call(t) \/ Step(t) \/ Interrupted(t)

Spec == Init /\ [][Next]_vars

-----------------------------------------------------------------------------
(* Properties *)

TypeOK ==
  /\ holder \in Threads \cup {NoThread}
  /\ depth \in {0, 1}
  /\ reached \in 0..(Count - 1)
  /\ sequence \in 0..trips
  /\ pc \in [Threads -> Labels]
  /\ expected \in [Threads -> 0..trips]
  /\ trips \in Nat
  /\ cycle \in [Threads -> 0..trips]
  /\ interrupted \in BOOLEAN

\* No thread passes before the barrier has opened for it, and each opening
\* lets exactly Count threads pass: while no wait is cut short, those that
\* are counted are those that wait, and whoever is on the way out was there
\* when the barrier opened.  (pthread_barrier_wait does not test again after
\* cnd_wait, so an EINTR alone lets a thread through, and its place in the
\* count stays taken.)
NobodyPassesEarly ==
  ~interrupted =>
    /\ \A t \in Threads :
         pc[t] \in {"relock", "unlock"} => cycle[t] < trips
    /\ reached = Cardinality({t \in Waiting : cycle[t] = trips})

\* Once the barrier has opened, nobody of that cycle is left asleep, except
\* for a broadcast that is not finished; interruptions or not.
NobodyLeftBehind ==
  (\E t \in Sleepers : cycle[t] < trips) =>
    \E t \in Threads : pc[t] \in {"bump", "wake"}
=============================================================================
