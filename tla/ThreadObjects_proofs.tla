------------------------- MODULE ThreadObjects_proofs -------------------------
(***************************************************************************)
(* Theorems about the read-write lock, the once flag and the barrier, for  *)
(* any finite number of threads and any count of the barrier.              *)
(***************************************************************************)
EXTENDS MCThreadObjects, FiniteSetTheorems, TLAPS

-----------------------------------------------------------------------------
\* The read-write lock

Reading == At("reading")
Writing == At("writing")

\* The fields say what the clients were told: the count is that of the
\* readers, and the flag is set while there is a writer.
PlaceOK == place \in [Threads -> Places]
ReadersCounted == readers = Cardinality(Reading)
WriterFlagged == writer = IF Writing = {} THEN 0 ELSE 1

RwInv == /\ PlaceOK
         /\ ReadersCounted
         /\ WriterFlagged
         /\ ReadersWriterExclusion
         /\ FreeLockIsWatched

-----------------------------------------------------------------------------

\* The set of readers is finite, and empty exactly when its count is 0.
LEMMA ReadingFinite ==
  /\ IsFiniteSet(Reading)
  /\ Cardinality(Reading) \in Nat
  /\ Cardinality(Reading) = 0 <=> Reading = {}
  /\ Cardinality(Reading) <= Cardinality(Threads)
  /\ Cardinality(Threads) \in Nat
<1>1. Reading \in SUBSET Threads
  BY DEF Reading, At
<1>2. IsFiniteSet(Reading) /\ Cardinality(Reading) <= Cardinality(Threads)
  BY <1>1, ThreadsAssumption, FS_Subset
<1>3. Cardinality(Reading) \in Nat /\ Cardinality(Threads) \in Nat
  BY <1>2, ThreadsAssumption, FS_CardinalityType
<1>4. Cardinality(Reading) = 0 <=> Reading = {}
  BY <1>2, FS_EmptySet
<1> QED
  BY <1>2, <1>3, <1>4

\* The invariant gives the type invariant.
LEMMA RwInvTypeOK == RwInv => TypeOK
<1> SUFFICES ASSUME RwInv PROVE TypeOK
  OBVIOUS
<1>1. readers \in 0..Cardinality(Threads)
  BY ReadingFinite DEF RwInv, ReadersCounted
<1>2. writer \in {0, 1}
  BY DEF RwInv, WriterFlagged
<1> QED
  BY <1>1, <1>2 DEF RwInv, PlaceOK, TypeOK

\* Nobody has or wants a new lock.
LEMMA InitRwInv == Init => RwInv
<1> SUFFICES ASSUME Init PROVE RwInv
  OBVIOUS
<1>1. PlaceOK
  BY DEF Init, PlaceOK, Places
<1>2. \A p \in Places \ {"out"} : At(p) = {}
  BY DEF Init, At, Places
<1>3. /\ Reading = {} /\ Writing = {} /\ At("rcond") = {} /\ At("wcond") = {}
      /\ At("reading") = {} /\ At("writing") = {}
  BY <1>2 DEF Reading, Writing, Places
<1>4. ReadersCounted
  BY <1>3, FS_EmptySet DEF Init, ReadersCounted
<1> QED
  BY <1>1, <1>3, <1>4
     DEF RwInv, Init, WriterFlagged, ReadersWriterExclusion, FreeLockIsWatched

\* A thread that takes a free or read lock to read
LEMMA TakeToRead ==
  ASSUME RwInv, NEW t \in Threads, place[t] \in {"out", "rwoken"},
         writer = 0, readers' = readers + 1, UNCHANGED writer,
         place' = [place EXCEPT ![t] = "reading"]
  PROVE  RwInv'
<1>1. PlaceOK'
  BY DEF RwInv, PlaceOK, Places
<1>2. Writing = {} /\ Writing' = {}
  BY DEF RwInv, PlaceOK, WriterFlagged, Writing, At
<1>3. Reading' = Reading \cup {t} /\ t \notin Reading
  BY DEF RwInv, PlaceOK, Reading, At
<1>4. ReadersCounted'
  BY <1>3, ReadingFinite, FS_AddElement DEF RwInv, ReadersCounted
<1>5. ReadersWriterExclusion' /\ FreeLockIsWatched'
  BY <1>2, <1>3
     DEF ReadersWriterExclusion, FreeLockIsWatched, Reading, Writing
<1> QED
  BY <1>1, <1>2, <1>4, <1>5 DEF RwInv, WriterFlagged

\* A thread that takes a free lock to write
LEMMA TakeToWrite ==
  ASSUME RwInv, NEW t \in Threads, place[t] \in {"out", "wwoken"},
         readers = 0, writer = 0, writer' = 1, UNCHANGED readers,
         place' = [place EXCEPT ![t] = "writing"]
  PROVE  RwInv'
<1>1. PlaceOK'
  BY DEF RwInv, PlaceOK, Places
<1>2. Writing = {} /\ Writing' = {t}
  BY DEF RwInv, PlaceOK, WriterFlagged, Writing, At
<1>3. Reading = {} /\ Reading' = {}
  <2>1. Reading = {}
    BY ReadingFinite DEF RwInv, ReadersCounted
  <2> QED
    BY <2>1 DEF RwInv, PlaceOK, Reading, At
<1>4. ReadersCounted'
  BY <1>3 DEF RwInv, ReadersCounted
<1>5. ReadersWriterExclusion' /\ FreeLockIsWatched'
  BY <1>2, <1>3
     DEF ReadersWriterExclusion, FreeLockIsWatched, Reading, Writing
<1> QED
  BY <1>1, <1>2, <1>4, <1>5 DEF RwInv, WriterFlagged

\* A thread that finds the lock taken and goes to wait
LEMMA GoesToWait ==
  ASSUME RwInv, NEW t \in Threads, NEW p \in {"rcond", "wcond"},
         place[t] \in {"out", "rwoken", "wwoken"}, readers # 0 \/ writer # 0,
         UNCHANGED <<readers, writer>>, place' = [place EXCEPT ![t] = p]
  PROVE  RwInv'
<1>1. PlaceOK'
  BY DEF RwInv, PlaceOK, Places
<1>2. Reading' = Reading /\ Writing' = Writing
  BY DEF RwInv, PlaceOK, Reading, Writing, At
<1>3. Reading \cup Writing # {}
  BY ReadingFinite DEF RwInv, ReadersCounted, WriterFlagged
<1>4. ReadersWriterExclusion' /\ FreeLockIsWatched'
  BY <1>2, <1>3
     DEF RwInv, ReadersWriterExclusion, FreeLockIsWatched, Reading, Writing
<1> QED
  BY <1>1, <1>2, <1>4 DEF RwInv, ReadersCounted, WriterFlagged

LEMMA RdlockRwInv ==
  ASSUME RwInv, NEW t \in Threads, Rdlock(t) PROVE RwInv'
<1>1. CASE writer = 0
  BY <1>1, TakeToRead DEF Rdlock
<1>2. CASE writer # 0
  BY <1>2, GoesToWait DEF Rdlock
<1> QED
  BY <1>1, <1>2

LEMMA WrlockRwInv ==
  ASSUME RwInv, NEW t \in Threads, Wrlock(t) PROVE RwInv'
<1>1. CASE readers = 0 /\ writer = 0
  BY <1>1, TakeToWrite DEF Wrlock
<1>2. CASE readers # 0 \/ writer # 0
  BY <1>2, GoesToWait DEF Wrlock
<1> QED
  BY <1>1, <1>2

\* The thread that unlocks is the writer when the flag is set and a reader
\* when it is not; a lock that becomes free wakes somebody if anybody sleeps.
LEMMA UnlockRwInv ==
  ASSUME RwInv, NEW t \in Threads, Unlock(t) PROVE RwInv'
<1> USE DEF RwInv
<1>1. CASE writer # 0
  <2>1. writer' = 0 /\ UNCHANGED readers
    BY <1>1 DEF Unlock
  <2>2. PICK S \in Signalled : After(t, S)
    BY <1>1 DEF Unlock
  <2>3. S \subseteq At("wcond") /\ (At("wcond") # {} => S # {})
    BY DEF Signalled
  <2>4. Writing = {t} /\ Reading = {}
    BY <1>1 DEF WriterFlagged, ReadersWriterExclusion, Unlock, Reading,
                Writing, At
  <2>5. PlaceOK'
    BY <2>2 DEF PlaceOK, After, Places
  <2>6. Writing' = {} /\ Reading' = {}
    BY <2>2, <2>4 DEF PlaceOK, After, Writing, Reading, At
  <2>7. FreeLockIsWatched'
    <3> SUFFICES ASSUME At("rcond")' \cup At("wcond")' # {}
                 PROVE  At("rwoken")' \cup At("wwoken")' # {}
      BY DEF FreeLockIsWatched
    <3>1. At("rcond")' = {}
      BY <2>2, <2>3 DEF After, At
    <3>2. PICK u \in Threads : place[u] = "wcond" /\ u # t
      BY <2>2, <2>3, <3>1 DEF After, At
    <3>3. PICK v \in S : v \in Threads /\ place[v] = "wcond"
      BY <2>3, <3>2 DEF At
    <3>4. v # t
      BY <2>4, <3>3 DEF Writing, At
    <3>5. place'[v] = "wwoken"
      BY <2>2, <3>3, <3>4 DEF After, At
    <3> QED
      BY <3>3, <3>5 DEF At
  <2> QED
    BY <2>1, <2>4, <2>5, <2>6, <2>7
       DEF ReadersCounted, WriterFlagged, ReadersWriterExclusion, Reading,
           Writing
<1>2. CASE writer = 0
  <2>1. readers' = readers - 1 /\ UNCHANGED writer
    BY <1>2 DEF Unlock
  <2>2. PICK S \in SUBSET At("wcond") :
          After(t, S) /\ (readers' = 0 /\ At("wcond") # {} => S # {})
    <3>1. CASE readers' = 0
      BY <1>2, <3>1 DEF Unlock, Signalled
    <3>2. CASE readers' # 0
      BY <1>2, <3>2 DEF Unlock
    <3> QED
      BY <3>1, <3>2
  <2>3. Writing = {} /\ t \in Reading
    BY <1>2 DEF WriterFlagged, Unlock, Reading, Writing, At
  <2>4. PlaceOK'
    BY <2>2 DEF PlaceOK, After, Places
  <2>5. Writing' = {} /\ Reading' = Reading \ {t}
    BY <2>2, <2>3 DEF PlaceOK, After, Writing, Reading, At
  <2>6. ReadersCounted'
    BY <2>1, <2>3, <2>5, ReadingFinite, FS_RemoveElement DEF ReadersCounted
  <2>7. FreeLockIsWatched'
    <3> SUFFICES ASSUME Reading' = {}, At("rcond")' \cup At("wcond")' # {}
                 PROVE  At("rwoken")' \cup At("wwoken")' # {}
      BY DEF FreeLockIsWatched, Reading
    <3>1. readers' = 0
      BY <2>6, FS_EmptySet DEF ReadersCounted
    <3>2. At("rcond")' = {}
      BY <2>2 DEF After, At
    <3>3. PICK u \in Threads : place[u] = "wcond"
      BY <2>2, <3>2 DEF After, At
    <3>4. PICK v \in S : v \in Threads /\ place[v] = "wcond"
      BY <2>2, <3>1, <3>3 DEF At
    <3>5. v # t
      BY <2>3, <3>4 DEF Reading, At
    <3>6. place'[v] = "wwoken"
      BY <2>2, <3>4, <3>5 DEF After, At
    <3> QED
      BY <3>4, <3>6 DEF At
  <2>8. ReadersWriterExclusion'
    BY <2>5 DEF ReadersWriterExclusion, Writing
  <2> QED
    BY <1>2, <2>1, <2>4, <2>5, <2>6, <2>7, <2>8 DEF WriterFlagged
<1> QED
  BY <1>1, <1>2

\* An interrupted waiter is itself on the way to look again.
LEMMA InterruptedRwInv ==
  ASSUME RwInv, NEW t \in Threads, Interrupted(t) PROVE RwInv'
<1> USE DEF RwInv
<1>1. PICK p \in {"rwoken", "wwoken"} : place' = [place EXCEPT ![t] = p]
  BY DEF Interrupted
<1>2. place[t] \in {"rcond", "wcond"} /\ UNCHANGED <<readers, writer>>
  BY DEF Interrupted
<1>3. PlaceOK'
  BY <1>1 DEF PlaceOK, Places
<1>4. Reading' = Reading /\ Writing' = Writing
  BY <1>1, <1>2 DEF PlaceOK, Reading, Writing, At
<1>5. At("rwoken")' \cup At("wwoken")' # {}
  BY <1>1 DEF PlaceOK, At
<1> QED
  BY <1>2, <1>3, <1>4, <1>5
     DEF ReadersCounted, WriterFlagged, ReadersWriterExclusion,
         FreeLockIsWatched, Reading, Writing

LEMMA NextRwInv == RwInv /\ [Next]_vars => RwInv'
<1> SUFFICES ASSUME RwInv, [Next]_vars PROVE RwInv'
  OBVIOUS
<1>1. CASE UNCHANGED vars
  BY <1>1 DEF vars, RwInv, PlaceOK, ReadersCounted, WriterFlagged, Reading,
              Writing, ReadersWriterExclusion, FreeLockIsWatched, At
<1>2. ASSUME NEW t \in Threads, Tryrdlock(t) PROVE RwInv'
  BY <1>2, TakeToRead DEF Tryrdlock
<1>3. ASSUME NEW t \in Threads, Trywrlock(t) PROVE RwInv'
  BY <1>3, TakeToWrite DEF Trywrlock
<1> QED
  BY <1>1, <1>2, <1>3, RdlockRwInv, WrlockRwInv, UnlockRwInv, InterruptedRwInv
     DEF Next

-----------------------------------------------------------------------------
(* The theorems *)

\* pthread.c: the fields and the waiting threads agree in every reachable
\* state of a read-write lock.
THEOREM LockInvariance == Spec => []RwInv
  BY InitRwInv, NextRwInv, PTL DEF Spec

\* pthread.c: the count of readers is never negative, nor more than there are
\* threads.
THEOREM LockTypes == Spec => []TypeOK
  BY LockInvariance, RwInvTypeOK, PTL

\* pthread.c: a writer is alone.
THEOREM Exclusion == Spec => []ReadersWriterExclusion
<1>1. RwInv => ReadersWriterExclusion
  BY DEF RwInv
<1> QED
  BY <1>1, LockInvariance, PTL

\* pthread.c: one cnd_signal to the writers and one cnd_broadcast to the
\* readers are enough that a free lock is never slept on by all.
THEOREM FreeLockWatched == Spec => []FreeLockIsWatched
<1>1. RwInv => FreeLockIsWatched
  BY DEF RwInv
<1> QED
  BY <1>1, LockInvariance, PTL

-----------------------------------------------------------------------------
\* The once flag

\* The one thread between its compare-and-swap and its store, if any
Runs(t) == oPc[t] \in {"function", "running", "store"}

\* What the flag says of the function: 0, it was not entered; 1, exactly one
\* thread has it in hand, and where that thread stands tells how far it got;
\* 2, it ran.
FlagIsTrue ==
  /\ oState = 0 => /\ \A t \in Threads : ~Runs(t)
                   /\ oStarted = 0 /\ oFinished = 0
  /\ oState = 1 => \E t \in Threads :
                    /\ Runs(t)
                    /\ \A u \in Threads : Runs(u) => u = t
                    /\ oStarted = (IF oPc[t] = "function" THEN 0 ELSE 1)
                    /\ oFinished = (IF oPc[t] = "store" THEN 1 ELSE 0)
  /\ oState = 2 => /\ \A t \in Threads : ~Runs(t)
                   /\ oStarted = 1 /\ oFinished = 1

\* A caller that is done, or is about to wake the others, has seen 2.
DoneIsSeen == \A t \in Threads : oPc[t] \in {"wake", "returned"} => oState = 2

OnceInv == O!TypeOK /\ FlagIsTrue /\ DoneIsSeen /\ O!NobodyLeftAsleep

LEMMA InitOnceInv == O!Init => OnceInv
BY DEF O!Init, OnceInv, O!TypeOK, FlagIsTrue, DoneIsSeen, O!NobodyLeftAsleep, Runs,
       O!Sleepers, O!Labels

LEMMA NextOnceInv == OnceInv /\ [O!Next]_(O!vars) => OnceInv'
<1> SUFFICES ASSUME OnceInv, [O!Next]_(O!vars) PROVE OnceInv'
  OBVIOUS
<1> USE DEF OnceInv, O!TypeOK, FlagIsTrue, DoneIsSeen, O!NobodyLeftAsleep, Runs,
            O!Sleepers, O!Labels, O!Goto
<1>1. CASE UNCHANGED O!vars
  BY <1>1 DEF O!vars
<1>2. ASSUME NEW t \in Threads, O!Call(t) \/ O!Interrupted(t) PROVE OnceInv'
  BY <1>2 DEF O!Call, O!Interrupted
<1>3. ASSUME NEW t \in Threads, O!Load(t) PROVE OnceInv'
  BY <1>3 DEF O!Load
<1>4. ASSUME NEW t \in Threads, O!Cas(t) PROVE OnceInv'
  <2>1. CASE oState = 0
    \* t takes the function in hand
    BY <1>4, <2>1 DEF O!Cas
  <2>2. CASE oState # 0
    BY <1>4, <2>2 DEF O!Cas
  <2> QED
    BY <2>1, <2>2
<1>5. ASSUME NEW t \in Threads, O!Enter(t) \/ O!Leave(t) PROVE OnceInv'
  <2>1. oState = 1
    BY <1>5 DEF O!Enter, O!Leave
  <2> QED
    BY <1>5, <2>1 DEF O!Enter, O!Leave
<1>6. ASSUME NEW t \in Threads, O!Store(t) PROVE OnceInv'
  <2>1. oState = 1 /\ oStarted = 1 /\ oFinished = 1
    BY <1>6 DEF O!Store
  <2>2. \A u \in Threads : Runs(u) <=> u = t
    BY <1>6, <2>1 DEF O!Store
  <2> QED
    BY <1>6, <2>1, <2>2 DEF O!Store
<1>7. ASSUME NEW t \in Threads, O!Wake(t) PROVE OnceInv'
  BY <1>7 DEF O!Wake
<1>8. ASSUME NEW t \in Threads, O!FutexWait(t) PROVE OnceInv'
  \* the kernel lets nobody sleep on a flag that is not 1
  BY <1>8 DEF O!FutexWait
<1> QED
  BY <1>1, <1>2, <1>3, <1>4, <1>5, <1>6, <1>7, <1>8 DEF O!Next, O!Step

-----------------------------------------------------------------------------
(* What follows from it *)

LEMMA OnceInvariance == O!Spec => []OnceInv
BY InitOnceInv, NextOnceInv, PTL DEF O!Spec

\* Type correctness of the flag, with the function entered and left at most
\* once.
THEOREM OnceTypes == O!Spec => []O!TypeOK
<1>1. OnceInv => O!TypeOK
  BY DEF OnceInv
<1> QED
  BY <1>1, OnceInvariance, PTL

\* call_once keeps its promise: one run, finished before any call returns.
THEOREM Once == O!Spec => []OnceBeforeReturn
<1>1. OnceInv => OnceBeforeReturn
  BY DEF OnceBeforeReturn, OnceInv, O!TypeOK, FlagIsTrue, DoneIsSeen, O!OnceBeforeReturn
<1> QED
  BY <1>1, OnceInvariance, PTL

\* The FUTEX_WAKE after the store reaches everybody who sleeps.
THEOREM OnceWakes == O!Spec => []NobodyLeftAsleep
<1>1. OnceInv => NobodyLeftAsleep
  BY DEF OnceInv, NobodyLeftAsleep
<1> QED
  BY <1>1, OnceInvariance, PTL

-----------------------------------------------------------------------------
\* The barrier

\* The steps at which a thread has the mutex
Inside(t) ==
  bPc[t] \in {"arrive", "bump", "wake", "load", "release", "unlock"}

HoldersInside == \A t \in Threads : Inside(t) => bHolder = t

\* The sequence of the condition variable counts the openings, but for the one
\* whose thread has its bump to do.
SequenceCounts ==
  bSequence = IF \E t \in Threads : bPc[t] = "bump" THEN bTrips - 1 ELSE bTrips

\* Who is about to wait arrived since the last opening, and compares with the
\* sequence of that time.
WaitersExpect ==
  \A t \in Threads :
    /\ bPc[t] \in {"load", "release"} => bCycle[t] = bTrips
    /\ bPc[t] \in {"release", "futex"} => bExpected[t] = bCycle[t]

\* While a broadcast goes on, all that wait came before it.
BroadcastReachesAll ==
  \A t \in Threads :
    bPc[t] \in {"bump", "wake"} =>
      /\ bCycle[t] < bTrips
      /\ \A u \in B!Waiting : bCycle[u] < bTrips

\* Those of the current cycle
Counted == {t \in B!Waiting : bCycle[t] = bTrips}

PassersAreLate ==
  ~bInterrupted => \A t \in Threads :
                     bPc[t] \in {"relock", "unlock"} => bCycle[t] < bTrips

WaitersCounted == ~bInterrupted => bReached = Cardinality(Counted)

BarrierInv == /\ B!TypeOK
              /\ HoldersInside
              /\ SequenceCounts
              /\ WaitersExpect
              /\ BroadcastReachesAll
              /\ PassersAreLate
              /\ WaitersCounted
              /\ B!NobodyLeftBehind

\* Those counted are finitely many.
LEMMA CountedFinite == IsFiniteSet(Counted) /\ Cardinality(Counted) \in Nat
<1>1. Counted \in SUBSET Threads
  BY DEF Counted, B!Waiting
<1> QED
  BY <1>1, ThreadsAssumption, FS_Subset, FS_CardinalityType

LEMMA InitBarrierInv == B!Init => BarrierInv
<1> SUFFICES ASSUME B!Init PROVE BarrierInv
  OBVIOUS
<1>1. Counted = {}
  BY DEF B!Init, Counted, B!Waiting
<1>2. WaitersCounted
  BY <1>1, FS_EmptySet DEF B!Init, WaitersCounted
<1>3. B!TypeOK
  <2>1. bTrips \in Nat /\ 0 \in 0..bTrips /\ 0 \in 0..(Count - 1)
    BY ObjectsAssumption DEF B!BarrierAssumption, B!Init
  <2>2. /\ bPc \in [Threads -> B!Labels] /\ bExpected \in [Threads -> 0..bTrips]
        /\ bCycle \in [Threads -> 0..bTrips]
    BY <2>1 DEF B!Init, B!Labels
  <2> QED
    BY <2>1, <2>2 DEF B!Init, B!Mutex!Init, B!TypeOK
<1>4. /\ HoldersInside /\ SequenceCounts /\ WaitersExpect
      /\ BroadcastReachesAll /\ PassersAreLate /\ B!NobodyLeftBehind
  BY DEF B!Init, HoldersInside, Inside, SequenceCounts, WaitersExpect,
         BroadcastReachesAll, PassersAreLate, B!NobodyLeftBehind, B!Sleepers
<1> QED
  BY <1>2, <1>3, <1>4 DEF BarrierInv

\* All parts but the count
Parts == /\ B!TypeOK /\ HoldersInside /\ SequenceCounts /\ WaitersExpect
         /\ BroadcastReachesAll /\ PassersAreLate /\ B!NobodyLeftBehind

LEMMA CallBarrier ==
  ASSUME BarrierInv, NEW t \in Threads, B!Call(t) \/ B!MtxLock(t)
  PROVE  BarrierInv'
<1> USE DEF BarrierInv, B!TypeOK, B!Labels
<1>1. Parts'
  BY ObjectsAssumption
     DEF B!BarrierAssumption, B!Call, B!MtxLock, B!Mutex!Acquire, B!Goto,
         Parts, HoldersInside, Inside, SequenceCounts, WaitersExpect,
         BroadcastReachesAll, PassersAreLate, B!NobodyLeftBehind, B!Sleepers,
         B!Waiting
<1>2. Counted' = Counted
  BY DEF B!Call, B!MtxLock, B!Goto, Counted, B!Waiting
<1> QED
  BY <1>1, <1>2 DEF Parts, WaitersCounted, B!Call, B!MtxLock

\* The one that makes the count full opens the barrier for all that wait; the
\* others are counted.
LEMMA ArriveBarrier ==
  ASSUME BarrierInv, NEW t \in Threads, B!Arrive(t) PROVE BarrierInv'
<1> USE DEF BarrierInv, B!TypeOK, B!Labels, B!Goto
<1>1. bHolder = t /\ (\A u \in Threads : Inside(u) => u = t)
  BY DEF B!Arrive, HoldersInside, Inside
<1>2. bSequence = bTrips
  BY <1>1 DEF SequenceCounts, Inside, B!Arrive
<1>3. Parts'
  <2>1. CASE bReached + 1 >= Count
    BY <1>1, <1>2, <2>1, ObjectsAssumption
       DEF B!BarrierAssumption, B!Arrive, Parts, HoldersInside, Inside,
           SequenceCounts, WaitersExpect, BroadcastReachesAll, PassersAreLate,
           B!NobodyLeftBehind, B!Sleepers, B!Waiting
  <2>2. CASE bReached + 1 < Count
    BY <1>1, <1>2, <2>2, ObjectsAssumption
       DEF B!BarrierAssumption, B!Arrive, Parts, HoldersInside, Inside,
           SequenceCounts, WaitersExpect, BroadcastReachesAll, PassersAreLate,
           B!NobodyLeftBehind, B!Sleepers, B!Waiting
  <2> QED
    BY <2>1, <2>2, ObjectsAssumption DEF B!BarrierAssumption
<1>4. WaitersCounted'
  <2>1. CASE bReached + 1 >= Count
    <3>1. Counted' = {}
      BY <2>1 DEF B!Arrive, Counted, B!Waiting
    <3> QED
      BY <2>1, <3>1, FS_EmptySet DEF B!Arrive, WaitersCounted
  <2>2. CASE bReached + 1 < Count
    <3>0. /\ ~(bReached + 1 >= Count)
          /\ bReached' = bReached + 1 /\ bTrips' = bTrips
          /\ bPc' = [bPc EXCEPT ![t] = "load"]
          /\ bCycle' = [bCycle EXCEPT ![t] = bTrips]
          /\ bPc[t] = "arrive" /\ bInterrupted' = bInterrupted
      BY <2>2, ObjectsAssumption DEF B!BarrierAssumption, B!Arrive
    <3>1. Counted' = Counted \cup {t} /\ t \notin Counted
      BY <3>0 DEF Counted, B!Waiting
    <3> QED
      BY <3>0, <3>1, CountedFinite, FS_AddElement DEF WaitersCounted
  <2> QED
    BY <2>1, <2>2, ObjectsAssumption DEF B!BarrierAssumption
<1> QED
  BY <1>3, <1>4 DEF Parts

LEMMA BumpBarrier ==
  ASSUME BarrierInv, NEW t \in Threads, B!Bump(t) PROVE BarrierInv'
<1> USE DEF BarrierInv, B!TypeOK, B!Labels, B!Goto
<1>1. bHolder = t /\ (\A u \in Threads : Inside(u) => u = t)
  BY DEF B!Bump, HoldersInside, Inside
<1>2. bSequence = bTrips - 1
  BY DEF SequenceCounts, B!Bump
<1>3. Parts'
  BY <1>1, <1>2
     DEF B!Bump, Parts, HoldersInside, Inside, SequenceCounts, WaitersExpect,
         BroadcastReachesAll, PassersAreLate, B!NobodyLeftBehind, B!Sleepers,
         B!Waiting
<1>4. Counted' = Counted
  BY DEF B!Bump, Counted, B!Waiting
<1> QED
  BY <1>3, <1>4 DEF Parts, WaitersCounted, B!Bump

\* Whom the broadcast wakes came before the opening.
LEMMA WakeBarrier ==
  ASSUME BarrierInv, NEW t \in Threads, B!WakeAll(t) PROVE BarrierInv'
<1> USE DEF BarrierInv, B!TypeOK, B!Labels
<1>1. bHolder = t /\ (\A u \in Threads : Inside(u) => u = t)
  BY DEF B!WakeAll, HoldersInside, Inside
<1>2. bSequence = bTrips
  BY <1>1 DEF SequenceCounts, Inside, B!WakeAll
<1>3. bCycle[t] < bTrips /\ \A u \in B!Waiting : bCycle[u] < bTrips
  BY DEF BroadcastReachesAll, B!WakeAll
<1>4. Parts'
  BY <1>1, <1>2, <1>3
     DEF B!WakeAll, Parts, HoldersInside, Inside, SequenceCounts,
         WaitersExpect, BroadcastReachesAll, PassersAreLate,
         B!NobodyLeftBehind, B!Sleepers, B!Waiting
<1>5. Counted' = {} /\ Counted = {}
  BY <1>3 DEF B!WakeAll, Counted, B!Waiting, B!Sleepers
<1> QED
  BY <1>4, <1>5 DEF Parts, WaitersCounted, B!WakeAll

LEMMA GoToWaitBarrier ==
  ASSUME BarrierInv, NEW t \in Threads, B!Load(t) \/ B!Release(t)
  PROVE  BarrierInv'
<1> USE DEF BarrierInv, B!TypeOK, B!Labels, B!Goto
<1>1. bHolder = t /\ (\A u \in Threads : Inside(u) => u = t)
  BY DEF B!Load, B!Release, HoldersInside, Inside
<1>2. bSequence = bTrips
  BY <1>1 DEF SequenceCounts, Inside, B!Load, B!Release
<1>3. Parts'
  BY <1>1, <1>2, ObjectsAssumption
     DEF B!BarrierAssumption, B!Load, B!Release, B!Mutex!Release, Parts,
         HoldersInside, Inside, SequenceCounts, WaitersExpect,
         BroadcastReachesAll, PassersAreLate, B!NobodyLeftBehind, B!Sleepers,
         B!Waiting
<1>4. Counted' = Counted
  BY DEF B!Load, B!Release, Counted, B!Waiting
<1> QED
  BY <1>3, <1>4 DEF Parts, WaitersCounted, B!Load, B!Release

\* A sequence that does not count an opening yet is about to be bumped, with
\* the broadcast after it; a sequence that differs shows an opening.
LEMMA FutexBarrier ==
  ASSUME BarrierInv, NEW t \in Threads, B!FutexWait(t) PROVE BarrierInv'
<1> USE DEF BarrierInv, B!TypeOK, B!Labels, B!Goto
<1>1. bExpected[t] = bCycle[t]
  BY DEF WaitersExpect, B!FutexWait
<1>2. CASE bSequence = bExpected[t]
  <2>1. Parts'
    BY <1>1, <1>2
       DEF B!FutexWait, Parts, HoldersInside, Inside, SequenceCounts,
           WaitersExpect, BroadcastReachesAll, PassersAreLate,
           B!NobodyLeftBehind, B!Sleepers, B!Waiting
  <2>2. Counted' = Counted
    BY <1>2 DEF B!FutexWait, Counted, B!Waiting
  <2> QED
    BY <2>1, <2>2 DEF Parts, WaitersCounted, B!FutexWait
<1>3. CASE bSequence # bExpected[t]
  <2>1. bCycle[t] < bTrips
    BY <1>1, <1>3
       DEF SequenceCounts, BroadcastReachesAll, B!FutexWait, B!Waiting
  <2>2. Parts'
    BY <1>1, <1>3, <2>1
       DEF B!FutexWait, Parts, HoldersInside, Inside, SequenceCounts,
           WaitersExpect, BroadcastReachesAll, PassersAreLate,
           B!NobodyLeftBehind, B!Sleepers, B!Waiting
  <2>3. Counted' = Counted
    BY <1>3, <2>1 DEF B!FutexWait, Counted, B!Waiting
  <2> QED
    BY <2>2, <2>3 DEF Parts, WaitersCounted, B!FutexWait
<1> QED
  BY <1>2, <1>3

LEMMA LeaveBarrier ==
  ASSUME BarrierInv, NEW t \in Threads,
         B!Interrupted(t) \/ B!Relock(t) \/ B!MtxUnlock(t)
  PROVE  BarrierInv'
<1> USE DEF BarrierInv, B!TypeOK, B!Labels, B!Goto
<1>1. Parts'
  <2>1. CASE B!Interrupted(t)
    BY <2>1, ObjectsAssumption
       DEF B!BarrierAssumption, B!Interrupted,
           Parts, HoldersInside, Inside, SequenceCounts, WaitersExpect,
           BroadcastReachesAll, PassersAreLate, B!NobodyLeftBehind, B!Sleepers,
           B!Waiting
  <2>2. CASE B!Relock(t)
    BY <2>2, ObjectsAssumption
       DEF B!BarrierAssumption, B!Relock, B!Mutex!Acquire,
           Parts, HoldersInside, Inside, SequenceCounts, WaitersExpect,
           BroadcastReachesAll, PassersAreLate, B!NobodyLeftBehind, B!Sleepers,
           B!Waiting
  <2>3. CASE B!MtxUnlock(t)
    BY <2>3, ObjectsAssumption
       DEF B!BarrierAssumption, B!MtxUnlock, B!Mutex!Release,
           Parts, HoldersInside, Inside, SequenceCounts, WaitersExpect,
           BroadcastReachesAll, PassersAreLate, B!NobodyLeftBehind, B!Sleepers,
           B!Waiting
  <2> QED
    BY <2>1, <2>2, <2>3
<1>2. WaitersCounted'
  <2>1. CASE B!Interrupted(t)
    BY <2>1 DEF B!Interrupted, WaitersCounted
  <2>2. CASE B!Relock(t) \/ B!MtxUnlock(t)
    <3>1. Counted' = Counted
      BY <2>2 DEF B!Relock, B!MtxUnlock, Counted, B!Waiting
    <3> QED
      BY <2>2, <3>1 DEF B!Relock, B!MtxUnlock, WaitersCounted
  <2> QED
    BY <2>1, <2>2
<1> QED
  BY <1>1, <1>2 DEF Parts

LEMMA NextBarrierInv == BarrierInv /\ [B!Next]_(B!vars) => BarrierInv'
<1> SUFFICES ASSUME BarrierInv, [B!Next]_(B!vars) PROVE BarrierInv'
  OBVIOUS
<1>1. CASE UNCHANGED B!vars
  BY <1>1 DEF B!vars, BarrierInv, B!TypeOK, HoldersInside, Inside,
              SequenceCounts, WaitersExpect, BroadcastReachesAll,
              PassersAreLate, WaitersCounted, Counted, B!NobodyLeftBehind,
              B!Sleepers, B!Waiting
<1> QED
  BY <1>1, CallBarrier, ArriveBarrier, BumpBarrier, WakeBarrier,
     GoToWaitBarrier, FutexBarrier, LeaveBarrier
     DEF B!Next, B!Step

\* pthread.c: the steps of the threads at a barrier agree with its fields in
\* every reachable state, interrupted waits or not.
THEOREM BarrierInvariance == B!Spec => []BarrierInv
  BY InitBarrierInv, NextBarrierInv, PTL DEF B!Spec

\* pthread.c: the count stays below that of the barrier, and the sequence is
\* never ahead of the openings.
THEOREM BarrierTypes == B!Spec => []B!TypeOK
<1>1. BarrierInv => B!TypeOK
  BY DEF BarrierInv
<1> QED
  BY <1>1, BarrierInvariance, PTL

\* pthread_barrier_wait: without interruptions nobody is let through before
\* the barrier opens, and the count is that of those who wait for it.
THEOREM BarrierHolds == B!Spec => []NobodyPassesEarly
<1>1. BarrierInv => NobodyPassesEarly
  <2> SUFFICES ASSUME BarrierInv, ~bInterrupted
               PROVE  B!NobodyPassesEarly
    BY DEF NobodyPassesEarly, B!NobodyPassesEarly
  <2>1. B!Cardinality(Counted) = Cardinality(Counted)
    BY DEF B!Cardinality, Cardinality
  <2> QED
    BY <2>1 DEF BarrierInv, PassersAreLate, WaitersCounted, Counted,
                B!NobodyPassesEarly
<1> QED
  BY <1>1, BarrierInvariance, PTL

\* pthread_barrier_wait: the one broadcast is enough for all who wait.
THEOREM BarrierWakes == B!Spec => []NobodyLeftBehind
<1>1. BarrierInv => NobodyLeftBehind
  BY DEF BarrierInv, NobodyLeftBehind
<1> QED
  BY <1>1, BarrierInvariance, PTL

-----------------------------------------------------------------------------
\* The three together

\* Each object keeps its promises among the others.
THEOREM Objects ==
  ObjectsSpec => [](/\ ReadersWriterExclusion /\ FreeLockIsWatched
                    /\ OnceBeforeReturn /\ NobodyLeftAsleep
                    /\ NobodyPassesEarly /\ NobodyLeftBehind)
<1>1. ObjectsInit => Init /\ O!Init /\ B!Init
  BY DEF ObjectsInit
<1>2. [ObjectsNext]_ObjectsVars =>
        [Next]_vars /\ [O!Next]_(O!vars) /\ [B!Next]_(B!vars)
  BY DEF ObjectsNext, UseRwLock, UseOnce, UseBarrier, ObjectsVars, vars,
         oVars, bVars, O!vars, B!vars
<1>3. ObjectsSpec => Spec /\ O!Spec /\ B!Spec
  BY <1>1, <1>2, PTL DEF ObjectsSpec, Spec, O!Spec, B!Spec
<1> QED
  BY <1>3, Exclusion, FreeLockWatched, Once, OnceWakes, BarrierHolds,
     BarrierWakes, PTL
=============================================================================
