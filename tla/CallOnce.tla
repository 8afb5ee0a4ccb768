------------------------------ MODULE CallOnce -------------------------------
(***************************************************************************)
(* call_once of meuos-libc, src/thread/call_once.c: one word that goes     *)
(* from 0 through 1 to 2, where the thread that moved it to 1 runs the     *)
(* function and the others sleep on it.  Threads may call again at will.   *)
(***************************************************************************)
EXTENDS Naturals

CONSTANT Threads

VARIABLES
  state,        \* flag->state: 0 idle, 1 in progress, 2 done
  started,      \* how many times function() was entered
  finished,     \* how many times it returned
  pc            \* the step each thread takes next

vars == <<state, started, finished, pc>>

Labels == {"idle", "load", "cas", "function", "running", "store", "wake",
           "futex", "asleep", "returned"}

Goto(t, label) == pc' = [pc EXCEPT ![t] = label]

Sleepers == {t \in Threads : pc[t] = "asleep"}

\* ONCE_FLAG_INIT
Init == /\ state = 0
        /\ started = 0
        /\ finished = 0
        /\ pc = [t \in Threads |-> "idle"]

\* The client looks at what the function made ("returned"), and may call again.
Call(t) ==
  /\ pc[t] \in {"idle", "returned"}
  /\ Goto(t, "load")
  /\ UNCHANGED <<state, started, finished>>

\* Mutant: a run in progress is taken for one that is done.
LoadNonzero(t) ==
  /\ pc[t] = "load"
  /\ Goto(t, IF state # 0 THEN "returned" ELSE "cas")
  /\ UNCHANGED <<state, started, finished>>

\* atomic_load(&flag->state) == 2
Load(t) ==
  /\ pc[t] = "load"
  /\ Goto(t, IF state = 2 THEN "returned" ELSE "cas")
  /\ UNCHANGED <<state, started, finished>>

\* atomic_compare_exchange_strong(&flag->state, &expected, 1): a thread that
\* fails goes to sleep if it saw 1, and looks again otherwise.
Cas(t) ==
  /\ pc[t] = "cas"
  /\ \/ state = 0 /\ state' = 1 /\ Goto(t, "function")
     \/ state = 1 /\ Goto(t, "futex") /\ UNCHANGED state
     \/ state = 2 /\ Goto(t, "load") /\ UNCHANGED state
  /\ UNCHANGED <<started, finished>>

Enter(t) ==
  /\ pc[t] = "function"
  /\ started' = started + 1
  /\ Goto(t, "running")
  /\ UNCHANGED <<state, finished>>

Leave(t) ==
  /\ pc[t] = "running"
  /\ finished' = finished + 1
  /\ Goto(t, "store")
  /\ UNCHANGED <<state, started>>

Store(t) ==
  /\ pc[t] = "store"
  /\ state' = 2
  /\ Goto(t, "wake")
  /\ UNCHANGED <<started, finished>>

\* Mutant: one waiter is woken, as for a mutex.
WakeOne(t) ==
  /\ pc[t] = "wake"
  /\ \/ Sleepers = {} /\ Goto(t, "returned")
     \/ \E u \in Sleepers :
          pc' = [pc EXCEPT ![t] = "returned", ![u] = "load"]
  /\ UNCHANGED <<state, started, finished>>

\* FUTEX_WAKE of everybody
Wake(t) ==
  /\ pc[t] = "wake"
  /\ pc' = [u \in Threads |-> IF u = t THEN "returned"
                              ELSE IF u \in Sleepers THEN "load" ELSE pc[u]]
  /\ UNCHANGED <<state, started, finished>>

\* Mutant: a wait that does not compare.
FutexWaitBlind(t) ==
  /\ pc[t] = "futex"
  /\ Goto(t, "asleep")
  /\ UNCHANGED <<state, started, finished>>

\* FUTEX_WAIT(&flag->state, 1)
FutexWait(t) ==
  /\ pc[t] = "futex"
  /\ Goto(t, IF state = 1 THEN "asleep" ELSE "load")
  /\ UNCHANGED <<state, started, finished>>

Interrupted(t) ==
  /\ pc[t] = "asleep"
  /\ Goto(t, "load")
  /\ UNCHANGED <<state, started, finished>>

Step(t) == \/ Load(t) \/ Cas(t) \/ Enter(t) \/ Leave(t) \/ Store(t) \/ Wake(t)
           \/ FutexWait(t)

Next == \E t \in Threads : Call(t) \/ Step(t) \/ Interrupted(t)

Spec == Init /\ [][Next]_vars

\* Threads inside call_once are scheduled, and the function returns.
FairSpec == Spec /\ \A t \in Threads : WF_vars(Step(t))

-----------------------------------------------------------------------------
(* Properties *)

TypeOK == /\ state \in 0..2
          /\ started \in 0..1
          /\ finished \in 0..1
          /\ pc \in [Threads -> Labels]

\* The function runs at most once, and a call_once that has returned, in
\* whichever thread, returned after the function had: nobody sees what it
\* initialises half done.
OnceBeforeReturn ==
  /\ started <= 1
  /\ \A t \in Threads : pc[t] = "returned" => started = 1 /\ finished = 1

\* No caller is left asleep once the flag says done, except for a wakeup that
\* is on its way.
NobodyLeftAsleep ==
  state = 2 /\ Sleepers # {} => \E t \in Threads : pc[t] = "wake"

\* Every call returns.
EveryCallReturns ==
  \A t \in Threads : pc[t] = "load" ~> pc[t] = "returned"
=============================================================================
