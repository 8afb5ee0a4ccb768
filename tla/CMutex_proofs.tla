---------------------------- MODULE CMutex_proofs ----------------------------
(***************************************************************************)
(* Proofs about CMutex, for any set of threads and any nesting bound.      *)
(***************************************************************************)
EXTENDS CMutex, TLAPS

-----------------------------------------------------------------------------
(* The inductive invariant *)

\* A free mutex carries no trace of a holder.
FreeIsBare ==
  state = 0 =>
    /\ owner = NoThread
    /\ count = 0
    /\ \A t \in Threads : ~HasMutex(t)

\* A taken mutex is some thread's ...
TakenIsHad == state = 1 => \E t \in Threads : HasMutex(t)

\* ... and only one's.
OneHasMutex == \A s, t \in Threads : HasMutex(s) /\ HasMutex(t) => s = t

\* A plain mutex is never nested.
PlainIsFlat == kind = "plain" => \A t \in Threads : depth[t] <= 1

\* Where a thread stands determines what the fields hold for it.
Attempting == {"try_owner", "try_cas", "clock", "futex", "asleep"}

ThreadInv(t) ==
  /\ depth[t] > 0 => owner = t
  /\ pc[t] \in Attempting => depth[t] < MaxDepth
  /\ pc[t] \in {"set_owner", "clear_count", "store", "wake"} =>
       depth[t] = 0 /\ owner # t
  /\ pc[t] \in {"set_count", "clear_owner"} => depth[t] = 0 /\ owner = t
  /\ pc[t] \in {"set_owner", "set_count", "store"} => count = 0
  /\ pc[t] \in {"clear_owner", "clear_count"} => count <= 1
  /\ pc[t] = "try_bump" =>
       owner = t /\ kind = "recursive" /\ depth[t] < MaxDepth
  /\ pc[t] = "drop" =>
       owner = t /\ kind = "recursive" /\ count = depth[t] + 1
  /\ owner = t /\ pc[t] \notin {"set_count", "drop", "clear_owner"} =>
       count = depth[t] /\ depth[t] > 0

IInv == /\ TypeOK
        /\ FreeIsBare
        /\ TakenIsHad
        /\ OneHasMutex
        /\ PlainIsFlat
        /\ \A t \in Threads : ThreadInv(t)
        /\ NoLostWakeup

LEMMA InitIInv == Init => IInv
BY ThreadsAssumption, DepthAssumption
   DEF Init, IInv, TypeOK, FreeIsBare, TakenIsHad, OneHasMutex, PlainIsFlat,
       ThreadInv, Attempting, HasMutex, NoLostWakeup, Sleepers, Kinds, Calls,
       Labels

-----------------------------------------------------------------------------
(* Every step preserves it.  One lemma for each part of the invariant.     *)

\* The fields stay in range.  Only the thread's own program counter keeps
\* count and depth from leaving theirs: a nesting lock starts below the bound.
LEMMA TypeStep == IInv /\ [Next]_vars => TypeOK'
<1> SUFFICES ASSUME IInv, [Next]_vars PROVE TypeOK'
  OBVIOUS
<1> USE DepthAssumption DEF IInv, TypeOK, Goto, Kinds, Calls, Labels
<1>1. CASE UNCHANGED vars
  BY <1>1 DEF vars
<1>2. CASE Recycle
  BY <1>2 DEF Recycle
<1>3. ASSUME NEW t \in Threads, NEW op \in Calls, CallLocking(t, op)
      PROVE TypeOK'
  BY <1>3 DEF CallLocking
<1>4. ASSUME NEW t \in Threads,
             \/ CallUnlock(t) \/ Interrupted(t) \/ DeadlinePasses(t)
             \/ ReadClock(t) \/ FutexWait(t) \/ TimedOut(t) \/ Wake(t)
      PROVE TypeOK'
  BY <1>4 DEF CallUnlock, Interrupted, DeadlinePasses, ReadClock, FutexWait,
              TimedOut, Wake, Sleepers
<1>5. ASSUME NEW t \in Threads, TryOwner(t) \/ TryCas(t) \/ SetOwner(t)
      PROVE TypeOK'
  BY <1>5 DEF TryOwner, TryCas, SetOwner, AfterFailedTry
<1>6. ASSUME NEW t \in Threads, TryBump(t) PROVE TypeOK'
  BY <1>6 DEF TryBump, ThreadInv
<1>7. ASSUME NEW t \in Threads, SetCount(t) PROVE TypeOK'
  BY <1>7 DEF SetCount, ThreadInv
<1>8. ASSUME NEW t \in Threads, CheckOwner(t) PROVE TypeOK'
  BY <1>8 DEF CheckOwner, ThreadInv
<1>9. ASSUME NEW t \in Threads, Drop(t) PROVE TypeOK'
  BY <1>9 DEF Drop, ThreadInv
<1>10. ASSUME NEW t \in Threads,
              ClearOwner(t) \/ ClearCount(t) \/ StoreFree(t)
       PROVE TypeOK'
  BY <1>10 DEF ClearOwner, ClearCount, StoreFree
<1> QED
  BY <1>1, <1>2, <1>3, <1>4, <1>5, <1>6, <1>7, <1>8, <1>9, <1>10
     DEF Next, Step

\* The word `state` says truly whether some thread has the mutex, and no two
\* have it: the mutex changes hands only in the compare-and-swap of a thread
\* that found 0, and in the store of the thread that has it.
HolderPart == FreeIsBare /\ TakenIsHad /\ OneHasMutex

LEMMA HolderStep == IInv /\ [Next]_vars => HolderPart'
<1> SUFFICES ASSUME IInv, [Next]_vars PROVE HolderPart'
  OBVIOUS
<1> USE ThreadsAssumption
    DEF IInv, TypeOK, HolderPart, FreeIsBare, TakenIsHad, OneHasMutex,
        HasMutex, Goto
<1>1. CASE UNCHANGED vars
  BY <1>1 DEF vars
<1>2. CASE Recycle
  \* depth is 0 everywhere, so no idle thread owns the mutex
  <2>1. \A t \in Threads : ~HasMutex(t)
    BY <1>2 DEF Recycle, ThreadInv
  <2>2. state = 0
    BY <2>1
  <2> QED
    BY <1>2, <2>1, <2>2 DEF Recycle
<1>3. ASSUME NEW t \in Threads,
             \/ \E op \in Calls : CallLocking(t, op)
             \/ CallUnlock(t) \/ Interrupted(t) \/ DeadlinePasses(t)
             \/ TryOwner(t) \/ ReadClock(t) \/ FutexWait(t) \/ TimedOut(t)
      PROVE HolderPart'
  BY <1>3 DEF CallLocking, CallUnlock, Interrupted, DeadlinePasses, TryOwner,
              ReadClock, FutexWait, TimedOut
<1>4. ASSUME NEW t \in Threads, Wake(t) PROVE HolderPart'
  BY <1>4 DEF Wake, Sleepers
<1>5. ASSUME NEW t \in Threads, TryCas(t) PROVE HolderPart'
  <2>1. CASE state = 0
    \* t becomes the one that has it
    <3>1. \A u \in Threads : HasMutex(u)' <=> u = t
      BY <1>5, <2>1 DEF TryCas
    <3> QED
      BY <1>5, <2>1, <3>1 DEF TryCas
  <2>2. CASE state # 0
    BY <1>5, <2>2 DEF TryCas, AfterFailedTry, Calls
  <2> QED
    BY <2>1, <2>2
<1>6. ASSUME NEW t \in Threads, SetOwner(t) \/ ClearOwner(t) PROVE HolderPart'
  \* owner moves, and the program counter with it
  <2>1. \A u \in Threads : HasMutex(u) <=> u = t
    BY <1>6 DEF SetOwner, ClearOwner, ThreadInv
  <2>2. \A u \in Threads : HasMutex(u)' <=> u = t
    BY <1>6, <2>1 DEF SetOwner, ClearOwner
  <2> QED
    BY <1>6, <2>1, <2>2 DEF SetOwner, ClearOwner
<1>7. ASSUME NEW t \in Threads,
             TryBump(t) \/ SetCount(t) \/ CheckOwner(t) \/ Drop(t)
      PROVE HolderPart'
  \* the mutex is t's, or untouched
  BY <1>7 DEF TryBump, SetCount, CheckOwner, Drop, ThreadInv
<1>8. ASSUME NEW t \in Threads, ClearCount(t) PROVE HolderPart'
  BY <1>8 DEF ClearCount
<1>9. ASSUME NEW t \in Threads, StoreFree(t) PROVE HolderPart'
  <2>1. \A u \in Threads : HasMutex(u) <=> u = t
    BY <1>9 DEF StoreFree
  <2>2. owner = NoThread /\ count = 0
    BY <1>9, <2>1 DEF StoreFree, ThreadInv
  <2> QED
    BY <1>9, <2>1, <2>2 DEF StoreFree
<1> QED
  BY <1>1, <1>2, <1>3, <1>4, <1>5, <1>6, <1>7, <1>8, <1>9 DEF Next, Step

\* Each thread's fields agree with where it stands.  The delicate cases are
\* those in which t writes owner, count or kind, which every other thread's
\* part reads: there OneHasMutex says that no other thread is concerned.
ThreadPart == PlainIsFlat /\ \A t \in Threads : ThreadInv(t)

LEMMA ThreadStep == IInv /\ [Next]_vars => ThreadPart'
<1> SUFFICES ASSUME IInv, [Next]_vars PROVE ThreadPart'
  OBVIOUS
<1> USE ThreadsAssumption, DepthAssumption
    DEF IInv, TypeOK, ThreadPart, PlainIsFlat, ThreadInv, Attempting, Goto,
        Kinds, Calls, Labels
<1>1. CASE UNCHANGED vars
  BY <1>1 DEF vars
<1>2. CASE Recycle
  \* every depth is 0, so nothing depends on the new kind
  BY <1>2 DEF Recycle
<1>3. ASSUME NEW t \in Threads, NEW op \in Calls, CallLocking(t, op)
      PROVE ThreadPart'
  BY <1>3 DEF CallLocking
<1>4. ASSUME NEW t \in Threads,
             \/ CallUnlock(t) \/ Interrupted(t) \/ DeadlinePasses(t)
             \/ ReadClock(t) \/ FutexWait(t) \/ TimedOut(t)
      PROVE ThreadPart'
  BY <1>4 DEF CallUnlock, Interrupted, DeadlinePasses, ReadClock, FutexWait,
              TimedOut
<1>5. ASSUME NEW t \in Threads, Wake(t) PROVE ThreadPart'
  BY <1>5 DEF Wake, Sleepers
<1>6. ASSUME NEW t \in Threads, TryOwner(t) PROVE ThreadPart'
  BY <1>6 DEF TryOwner
<1>7. ASSUME NEW t \in Threads, TryCas(t) PROVE ThreadPart'
  BY <1>7 DEF TryCas, AfterFailedTry, FreeIsBare
<1>8. ASSUME NEW t \in Threads, SetOwner(t) PROVE ThreadPart'
  BY <1>8 DEF SetOwner, OneHasMutex, HasMutex
<1>9. ASSUME NEW t \in Threads, TryBump(t) \/ SetCount(t) PROVE ThreadPart'
  BY <1>9 DEF TryBump, SetCount, OneHasMutex, HasMutex
<1>10. ASSUME NEW t \in Threads, CheckOwner(t) \/ Drop(t) PROVE ThreadPart'
  BY <1>10 DEF CheckOwner, Drop, OneHasMutex, HasMutex
<1>11. ASSUME NEW t \in Threads,
              ClearOwner(t) \/ ClearCount(t) \/ StoreFree(t)
       PROVE ThreadPart'
  BY <1>11 DEF ClearOwner, ClearCount, StoreFree, OneHasMutex, HasMutex
<1> QED
  BY <1>1, <1>2, <1>3, <1>4, <1>5, <1>6, <1>7, <1>8, <1>9, <1>10, <1>11
     DEF Next, Step

\* A sleeper of a free mutex always has somebody on the way: it fell asleep
\* on a taken one, whoever freed it since is about to wake, whoever is woken
\* attempts, and an attempt on a free mutex takes it.
LEMMA WakeupStep == IInv /\ [Next]_vars => NoLostWakeup'
<1> SUFFICES ASSUME IInv, [Next]_vars PROVE NoLostWakeup'
  OBVIOUS
<1> USE DEF IInv, TypeOK, NoLostWakeup, Sleepers, Goto
<1>1. CASE UNCHANGED vars
  BY <1>1 DEF vars
<1>2. CASE Recycle
  \* nobody sleeps
  BY <1>2 DEF Recycle
<1>3. ASSUME NEW t \in Threads,
             \/ \E op \in Calls : CallLocking(t, op)
             \/ CallUnlock(t) \/ Interrupted(t) \/ DeadlinePasses(t)
             \/ ReadClock(t) \/ TimedOut(t) \/ SetCount(t) \/ CheckOwner(t)
             \/ Drop(t) \/ SetOwner(t) \/ ClearOwner(t) \/ ClearCount(t)
      PROVE NoLostWakeup'
  BY <1>3 DEF CallLocking, CallUnlock, Interrupted, DeadlinePasses, ReadClock,
              TimedOut, SetCount, CheckOwner, Drop, SetOwner, ClearOwner,
              ClearCount
<1>4. ASSUME NEW t \in Threads, FutexWait(t) PROVE NoLostWakeup'
  \* the kernel compares before it queues
  BY <1>4 DEF FutexWait
<1>5. ASSUME NEW t \in Threads, TryOwner(t) \/ TryBump(t) PROVE NoLostWakeup'
  \* try_bump is only for the owner, and then the mutex is not free
  BY <1>5, ThreadsAssumption DEF TryOwner, TryBump, ThreadInv, FreeIsBare
<1>6. ASSUME NEW t \in Threads, TryCas(t) PROVE NoLostWakeup'
  BY <1>6 DEF TryCas, AfterFailedTry, Calls
<1>7. ASSUME NEW t \in Threads, StoreFree(t) PROVE NoLostWakeup'
  BY <1>7 DEF StoreFree
<1>8. ASSUME NEW t \in Threads, Wake(t) PROVE NoLostWakeup'
  BY <1>8 DEF Wake
<1> QED
  BY <1>1, <1>2, <1>3, <1>4, <1>5, <1>6, <1>7, <1>8 DEF Next, Step

LEMMA NextIInv == IInv /\ [Next]_vars => IInv'
BY TypeStep, HolderStep, ThreadStep, WakeupStep
   DEF IInv, HolderPart, ThreadPart

-----------------------------------------------------------------------------
(* What follows from it *)

\* The invariant holds throughout.
THEOREM Invariance == Spec => []IInv
<1>1. Init => IInv
  BY InitIInv
<1>2. IInv /\ [Next]_vars => IInv'
  BY NextIInv
<1> QED
  BY <1>1, <1>2, PTL DEF Spec

\* Type correctness: state, owner and count of mtx_t stay in range whatever
\* the threads call and however they interleave.
THEOREM TypeCorrect == Spec => []TypeOK
<1>1. IInv => TypeOK
  BY DEF IInv
<1> QED
  BY <1>1, Invariance, PTL

\* mtx_lock, mtx_trylock and mtx_timedlock never succeed for two threads at
\* once.
THEOREM Exclusion == Spec => []MutualExclusion
<1>1. IInv => MutualExclusion
  BY DEF IInv, ThreadInv, MutualExclusion
<1> QED
  BY <1>1, Invariance, PTL

\* mtx_unlock succeeds exactly for the thread that has the mutex.
THEOREM UnlockCorrect == Spec => []UnlockObeysHolder
<1>1. IInv => UnlockObeysHolder
  BY DEF IInv, TypeOK, ThreadInv, UnlockObeysHolder
<1> QED
  BY <1>1, Invariance, PTL

\* No sleeper of mtx_lock or mtx_timedlock is forgotten by mtx_unlock.
THEOREM WakeupCorrect == Spec => []NoLostWakeup
<1>1. IInv => NoLostWakeup
  BY DEF IInv
<1> QED
  BY <1>1, Invariance, PTL

-----------------------------------------------------------------------------
(* mutex.c implements Lock *)

\* The refinement mapping's CHOOSE has one candidate.
LEMMA HolderIs ==
  ASSUME IInv, NEW t \in Threads, state = 1, HasMutex(t)
  PROVE  AbstractHolder = t
BY DEF IInv, OneHasMutex, AbstractHolder

LEMMA InitRefines == Init => Abstract!Init
BY DEF Init, Abstract!Init, AbstractHolder, AbstractDepth

LEMMA NextRefines == IInv /\ [Next]_vars => [Abstract!Next]_(Abstract!vars)
<1> SUFFICES ASSUME IInv, [Next]_vars
             PROVE  [Abstract!Next]_(Abstract!vars)
  OBVIOUS
<1>0. IInv'
  BY NextIInv
<1> USE DEF IInv, TypeOK, Goto
<1> DEFINE Same == UNCHANGED <<AbstractHolder, AbstractDepth>>
\* Steps that leave the mutex with whoever had it
<1>1. ASSUME UNCHANGED state,
             \A t \in Threads : HasMutex(t)' <=> HasMutex(t)
      PROVE  UNCHANGED AbstractHolder
  <2>1. CASE state = 0
    BY <1>1, <2>1 DEF AbstractHolder
  <2>2. CASE state = 1
    <3>1. PICK t \in Threads : HasMutex(t)
      BY <2>2 DEF TakenIsHad
    <3>2. AbstractHolder = t
      BY <2>2, <3>1, HolderIs
    <3>3. HasMutex(t)' /\ state' = 1
      BY <1>1, <2>2, <3>1
    <3>4. AbstractHolder' = t
      BY <1>0, <3>3 DEF AbstractHolder, OneHasMutex
    <3> QED
      BY <3>2, <3>4
  <2> QED
    BY <2>1, <2>2
<1>2. CASE UNCHANGED vars
  <2>1. Same
    BY <1>2, <1>1 DEF vars, HasMutex, AbstractDepth
  <2> QED
    BY <2>1 DEF Abstract!vars
<1>3. CASE Recycle
  <2>1. state = 0
    BY <1>3, ThreadsAssumption
       DEF Recycle, TakenIsHad, HasMutex, ThreadInv
  <2>2. Same
    BY <1>3, <2>1 DEF Recycle, AbstractHolder, AbstractDepth
  <2> QED
    BY <2>2 DEF Abstract!vars
<1>4. ASSUME NEW t \in Threads,
             \/ \E op \in Calls : CallLocking(t, op)
             \/ CallUnlock(t) \/ Interrupted(t) \/ DeadlinePasses(t)
             \/ TryOwner(t) \/ ReadClock(t) \/ FutexWait(t) \/ TimedOut(t)
             \/ Wake(t) \/ CheckOwner(t)
      PROVE  Same
  <2>1. /\ UNCHANGED <<state, owner, count>>
        /\ \A u \in Threads : HasMutex(u)' <=> HasMutex(u)
    BY <1>4 DEF CallLocking, CallUnlock, Interrupted, DeadlinePasses, TryOwner,
                ReadClock, FutexWait, TimedOut, Wake, CheckOwner, Sleepers,
                HasMutex
  <2> QED
    BY <2>1, <1>1 DEF AbstractDepth
<1>5. ASSUME NEW t \in Threads, SetOwner(t) \/ ClearOwner(t) PROVE Same
  <2>1. /\ \A u \in Threads : HasMutex(u)' <=> HasMutex(u)
        /\ UNCHANGED <<state, count>>
    BY <1>5, ThreadsAssumption
       DEF SetOwner, ClearOwner, HasMutex, OneHasMutex, ThreadInv
  <2> QED
    BY <2>1, <1>1 DEF AbstractDepth
<1>6. ASSUME NEW t \in Threads, SetCount(t) \/ ClearCount(t) PROVE Same
  \* count is 0 or 1 before and after, both of which read as depth 1
  <2>1. /\ \A u \in Threads : HasMutex(u)' <=> HasMutex(u)
        /\ UNCHANGED state
    BY <1>6 DEF SetCount, ClearCount, HasMutex
  <2>2. count \in {0, 1} /\ count' \in {0, 1}
    BY <1>6 DEF SetCount, ClearCount, ThreadInv
  <2> QED
    BY <2>1, <2>2, <1>1 DEF AbstractDepth
<1>7. ASSUME NEW t \in Threads, TryCas(t)
      PROVE  Abstract!Acquire(t) \/ Same
  <2>1. CASE state = 0
    <3>1. state' = 1 /\ HasMutex(t)' /\ count' = 0
      BY <1>7, <2>1 DEF TryCas, HasMutex, FreeIsBare
    <3>2. AbstractHolder' = t
      BY <1>0, <3>1 DEF AbstractHolder, OneHasMutex
    <3> QED
      BY <2>1, <3>1, <3>2 DEF Abstract!Acquire, AbstractHolder, AbstractDepth
  <2>2. CASE state # 0
    <3>1. /\ \A u \in Threads : HasMutex(u)' <=> HasMutex(u)
          /\ UNCHANGED <<state, count>>
      BY <1>7, <2>2 DEF TryCas, AfterFailedTry, Calls, HasMutex
    <3> QED
      BY <3>1, <1>1 DEF AbstractDepth
  <2> QED
    BY <2>1, <2>2
<1>8. ASSUME NEW t \in Threads, TryBump(t) PROVE Abstract!Reenter(t)
  <2>1. /\ HasMutex(t) /\ state = 1
        /\ count > 0 /\ count' = count + 1
        /\ UNCHANGED state
        /\ \A u \in Threads : HasMutex(u)' <=> HasMutex(u)
    BY <1>8, ThreadsAssumption DEF TryBump, HasMutex, ThreadInv, FreeIsBare
  <2>2. AbstractHolder = t /\ UNCHANGED AbstractHolder
    BY <2>1, <1>1, HolderIs
  <2> QED
    BY <2>1, <2>2 DEF Abstract!Reenter, AbstractDepth
<1>9. ASSUME NEW t \in Threads, Drop(t) PROVE Abstract!Leave(t) \/ Same
  <2>1. /\ HasMutex(t) /\ state = 1
        /\ count > 0 /\ count' = count - 1
        /\ UNCHANGED state
        /\ \A u \in Threads : HasMutex(u)' <=> HasMutex(u)
    BY <1>9, ThreadsAssumption DEF Drop, HasMutex, ThreadInv, FreeIsBare
  <2>2. AbstractHolder = t /\ UNCHANGED AbstractHolder
    BY <2>1, <1>1, HolderIs
  <2> QED
    BY <2>1, <2>2 DEF Abstract!Leave, AbstractDepth
<1>10. ASSUME NEW t \in Threads, StoreFree(t) PROVE Abstract!Release(t)
  <2>1. /\ HasMutex(t) /\ state = 1
        /\ count = 0 /\ state' = 0
    BY <1>10 DEF StoreFree, HasMutex, ThreadInv, FreeIsBare
  <2>2. AbstractHolder = t
    BY <2>1, HolderIs
  <2> QED
    BY <2>1, <2>2 DEF Abstract!Release, AbstractHolder, AbstractDepth
<1> QED
  BY <1>2, <1>3, <1>4, <1>5, <1>6, <1>7, <1>8, <1>9, <1>10
     DEF Next, Step, Abstract!Next, Abstract!vars

\* mutex.c, with its spins, sleeps and unguarded fields, behaves as an atomic
\* lock that only its holder can nest and release.
THEOREM Refinement == Spec => ImplementsLock
<1>1. Init => Abstract!Init
  BY InitRefines
<1>2. IInv /\ [Next]_vars => [Abstract!Next]_(Abstract!vars)
  BY NextRefines
<1> QED
  BY <1>1, <1>2, Invariance, PTL DEF Spec, ImplementsLock, Abstract!Spec
=============================================================================
