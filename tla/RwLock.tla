------------------------------- MODULE RwLock --------------------------------
(***************************************************************************)
(* The read-write lock of meuos-libc's POSIX layer, src/thread/pthread.c:  *)
(* a count of readers and a writer flag under a mutex, with one condition  *)
(* variable for waiting readers and one for waiting writers.               *)
(*                                                                         *)
(* The fields are only touched with the mutex held, which is exclusive     *)
(* (CMutex), so each stretch of code under it is one step.  A signal is    *)
(* given with the mutex held: no waiter can come between its bump of the   *)
(* sequence and its wake, so every waiter on its way to sleep is refused   *)
(* by FUTEX_WAIT, and one of those asleep is woken (CondVar).              *)
(***************************************************************************)
EXTENDS Naturals, FiniteSets

CONSTANT Threads

ASSUME ThreadsAssumption == IsFiniteSet(Threads)

VARIABLES
  readers,      \* rw->readers
  writer,       \* rw->writer
  place         \* what each thread does with the lock

vars == <<readers, writer, place>>

Places == {"out", "reading", "writing",
           "rcond", "wcond",            \* in cnd_wait, not yet told to leave it
           "rwoken", "wwoken"}          \* cnd_wait on its way to return

At(p) == {t \in Threads : place[t] = p}

Init == /\ readers = 0
        /\ writer = 0
        /\ place = [t \in Threads |-> "out"]

-----------------------------------------------------------------------------

\* Mutant: the condition is tested once, not in a loop.
RdlockOnce(t) ==
  /\ place[t] \in {"out", "rwoken"}
  /\ \/ /\ writer = 0 \/ place[t] = "rwoken"
        /\ readers' = readers + 1
        /\ place' = [place EXCEPT ![t] = "reading"]
     \/ /\ writer # 0 /\ place[t] = "out"
        /\ place' = [place EXCEPT ![t] = "rcond"]
        /\ UNCHANGED readers
  /\ UNCHANGED writer

\* pthread_rwlock_rdlock, from the call or from the return of cnd_wait
Rdlock(t) ==
  /\ place[t] \in {"out", "rwoken"}
  /\ \/ /\ writer = 0
        /\ readers' = readers + 1
        /\ place' = [place EXCEPT ![t] = "reading"]
     \/ /\ writer # 0
        /\ place' = [place EXCEPT ![t] = "rcond"]
        /\ UNCHANGED readers
  /\ UNCHANGED writer

\* pthread_rwlock_wrlock
Wrlock(t) ==
  /\ place[t] \in {"out", "wwoken"}
  /\ \/ /\ readers = 0 /\ writer = 0
        /\ writer' = 1
        /\ place' = [place EXCEPT ![t] = "writing"]
     \/ /\ readers # 0 \/ writer # 0
        /\ place' = [place EXCEPT ![t] = "wcond"]
        /\ UNCHANGED writer
  /\ UNCHANGED readers

\* The try calls return EBUSY, with nothing changed, when they fail.
Tryrdlock(t) ==
  /\ place[t] = "out"
  /\ writer = 0
  /\ readers' = readers + 1
  /\ place' = [place EXCEPT ![t] = "reading"]
  /\ UNCHANGED writer

Trywrlock(t) ==
  /\ place[t] = "out"
  /\ readers = 0 /\ writer = 0
  /\ writer' = 1
  /\ place' = [place EXCEPT ![t] = "writing"]
  /\ UNCHANGED readers

\* A cnd_signal on wcond wakes some of those that wait there, if any do;
\* a cnd_broadcast on rcond all.
Signalled == {S \in SUBSET At("wcond") : At("wcond") # {} => S # {}}

After(t, signalled) ==
  place' = [u \in Threads |->
              IF u = t THEN "out"
              ELSE IF u \in At("rcond") THEN "rwoken"
              ELSE IF u \in signalled THEN "wwoken"
              ELSE place[u]]

\* Mutant: the last reader leaves without a signal.
UnlockReaderSilent(t) ==
  /\ place[t] \in {"reading", "writing"}
  /\ \/ /\ writer # 0
        /\ writer' = 0
        /\ \E S \in Signalled : After(t, S)
        /\ UNCHANGED readers
     \/ /\ writer = 0
        /\ readers' = readers - 1
        /\ After(t, {})
        /\ UNCHANGED writer

\* Mutant: a writer wakes writers only.
UnlockNoBroadcast(t) ==
  /\ place[t] \in {"reading", "writing"}
  /\ \/ /\ writer # 0
        /\ writer' = 0
        /\ \E S \in Signalled :
             place' = [u \in Threads |-> IF u = t THEN "out"
                                        ELSE IF u \in S THEN "wwoken"
                                        ELSE place[u]]
        /\ UNCHANGED readers
     \/ /\ writer = 0
        /\ readers' = readers - 1
        /\ IF readers' = 0 THEN \E S \in Signalled : After(t, S)
                           ELSE After(t, {})
        /\ UNCHANGED writer

\* pthread_rwlock_unlock by a thread that has the lock.  The code decides by
\* rw->writer which of the two it is.
Unlock(t) ==
  /\ place[t] \in {"reading", "writing"}
  /\ \/ /\ writer # 0
        /\ writer' = 0
        /\ \E S \in Signalled : After(t, S)
        /\ UNCHANGED readers
     \/ /\ writer = 0
        /\ readers' = readers - 1
        /\ IF readers' = 0 THEN \E S \in Signalled : After(t, S)
                           ELSE After(t, {})
        /\ UNCHANGED writer

\* cnd_wait returns without a signal (EINTR).
Interrupted(t) ==
  /\ \/ place[t] = "rcond" /\ place' = [place EXCEPT ![t] = "rwoken"]
     \/ place[t] = "wcond" /\ place' = [place EXCEPT ![t] = "wwoken"]
  /\ UNCHANGED <<readers, writer>>

Next == \E t \in Threads :
          \/ Rdlock(t) \/ Wrlock(t) \/ Tryrdlock(t) \/ Trywrlock(t)
          \/ Unlock(t) \/ Interrupted(t)

Spec == Init /\ [][Next]_vars

\* Some thread that was woken gets the mutex (FreeMutexIsTaken of CMutex);
\* which one is not said, and no thread has to call or to unlock.
WokenRuns == \E t \in Threads : /\ place[t] \in {"rwoken", "wwoken"}
                                /\ Rdlock(t) \/ Wrlock(t)

FairSpec == Spec /\ WF_vars(WokenRuns)

-----------------------------------------------------------------------------
(* Properties *)

TypeOK == /\ readers \in 0..Cardinality(Threads)
          /\ writer \in {0, 1}
          /\ place \in [Threads -> Places]

\* A writer is alone, and readers exclude writers, for what the clients were
\* told and not for what the fields say.
ReadersWriterExclusion ==
  /\ \A s, t \in At("writing") : s = t
  /\ At("writing") # {} => At("reading") = {}

\* A lock that nobody has is not slept on by everybody who wants it: somebody
\* is on the way to take it and to pass the wakeup on.  The one signal of an
\* unlock may go to a writer that finds readers inside again.
FreeLockIsWatched ==
  At("reading") \cup At("writing") = {} /\ At("rcond") \cup At("wcond") # {} =>
    At("rwoken") \cup At("wwoken") # {}

\* A lock that is free and wanted is taken.  (Which thread gets it is open:
\* readers that follow each other keep a writer out.)
FreeLockIsTaken ==
  (/\ At("reading") \cup At("writing") = {}
   /\ At("rcond") \cup At("wcond") \cup At("rwoken") \cup At("wwoken") # {})
    ~> At("reading") \cup At("writing") # {}
=============================================================================
