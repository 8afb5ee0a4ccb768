--------------------------- MODULE CondVar_proofs ---------------------------
(***************************************************************************)
(* Theorems about CondVar, for any finite numbers of producers and         *)
(* consumers: a wait returns with the mutex, and no signal is lost.        *)
(***************************************************************************)
EXTENDS CondVar, FiniteSetTheorems, TLAPS

InBump == {p \in Producers : pc[p] = "bump"}

\* A producer that puts, and any thread that is about to unlock, has the mutex;
\* a thread outside of everything does not.
HolderOK ==
  /\ \A p \in Producers : pc[p] \in {"put", "unlock"} => holder = p
  /\ \A t \in Threads : pc[t] = "idle" => holder # t

\* The sequence has been bumped for each item, but for those whose producers
\* have still to do it.
SequenceCounts == sequence + Cardinality(InBump) = puts

\* A consumer that goes to wait with the mutex has seen that there is no item.
SeenNone ==
  \A c \in Consumers : pc[c] \in {"clock", "load"} /\ holder = c => items = 0

\* Between its load and its FUTEX_WAIT no more items come than are put after
\* the sequence number that it has loaded.
LoadedBefore ==
  \A c \in Consumers :
    pc[c] = "futex" \/ (pc[c] = "release" /\ holder = c) =>
      items + expected[c] <= puts

\* A timeout and an error are results of the wait that is being left.
OutcomeOK ==
  \A c \in Consumers :
    outcome[c] # "success" => pc[c] \in {"relock", "returned"}

IInv == /\ TypeOK
        /\ HolderOK
        /\ WaitReturnsHolding
        /\ SequenceCounts
        /\ SeenNone
        /\ LoadedBefore
        /\ OutcomeOK
        /\ NoLostSignal

-----------------------------------------------------------------------------

\* Sets of producers and of consumers can be counted.
LEMMA Countable ==
  ASSUME NEW S, S \subseteq Producers \/ S \subseteq Consumers
  PROVE  IsFiniteSet(S) /\ Cardinality(S) \in Nat
  BY FiniteAssumption, FS_Subset, FS_CardinalityType

\* The larger of two such sets has no fewer members.
LEMMA MoreCount ==
  ASSUME NEW S, NEW T, S \subseteq T,
         T \subseteq Producers \/ T \subseteq Consumers
  PROVE  Cardinality(S) <= Cardinality(T)
  BY Countable, FS_Subset

\* One member more
LEMMA OneMore ==
  ASSUME NEW S, NEW x, x \notin S,
         S \subseteq Producers \/ S \subseteq Consumers
  PROVE  Cardinality(S \cup {x}) = Cardinality(S) + 1
  BY Countable, FS_AddElement

\* One member less
LEMMA OneLess ==
  ASSUME NEW S, NEW x \in S,
         S \subseteq Producers \/ S \subseteq Consumers
  PROVE  Cardinality(S \ {x}) = Cardinality(S) - 1
  BY Countable, FS_RemoveElement

\* The sets that the invariant counts are such sets, before and after a step.
LEMMA Counted ==
  /\ InBump \subseteq Producers /\ InBump' \subseteq Producers
  /\ Signalling \subseteq Producers /\ Signalling' \subseteq Producers
  /\ Looking \subseteq Consumers /\ Looking' \subseteq Consumers
  /\ InBump \subseteq Signalling
  BY DEF InBump, Signalling, Looking

\* A step that brings no item, puts nobody to sleep and takes nobody from
\* those that signal or look keeps NoLostSignal.
LEMMA NobodyLeaves ==
  ASSUME TypeOK, TypeOK', NoLostSignal, items' <= items,
         Sleepers' \subseteq Sleepers,
         Signalling \subseteq Signalling', Looking \subseteq Looking'
  PROVE  NoLostSignal'
<1>1. /\ Cardinality(Signalling) <= Cardinality(Signalling')
      /\ Cardinality(Looking) <= Cardinality(Looking')
  BY Counted, MoreCount
<1>2. /\ Cardinality(Signalling) \in Nat /\ Cardinality(Signalling') \in Nat
      /\ Cardinality(Looking) \in Nat /\ Cardinality(Looking') \in Nat
  BY Counted, Countable
<1>3. items \in Nat /\ items' \in Nat
  BY SeqAssumption DEF TypeOK
<1>4. NoLostSignal' <=>
        (Sleepers' # {} =>
           items' <= Cardinality(Signalling') + Cardinality(Looking'))
  BY DEF NoLostSignal
<1> QED
  BY <1>1, <1>2, <1>3, <1>4 DEF NoLostSignal

\* Nothing has happened.
LEMMA InitIInv == Init => IInv
<1> SUFFICES ASSUME Init PROVE IInv
  OBVIOUS
<1>1. TypeOK
  BY SeqAssumption
     DEF Init, Mutex!Init, TypeOK, ProducerLabels, ConsumerLabels
<1>2. HolderOK /\ WaitReturnsHolding /\ SeenNone /\ LoadedBefore /\ OutcomeOK
  BY ClientsAssumption
     DEF Init, Mutex!Init, HolderOK, WaitReturnsHolding, SeenNone,
         LoadedBefore, OutcomeOK, Threads
<1>3. InBump = {} /\ Sleepers = {}
  BY DEF Init, InBump, Sleepers, Threads
<1>4. SequenceCounts
  BY <1>3, FS_EmptySet DEF Init, SequenceCounts
<1> QED
  BY <1>1, <1>2, <1>3, <1>4 DEF IInv, NoLostSignal

\* The variables keep their types.
LEMMA NextTypeOK == TypeOK /\ [Next]_vars => TypeOK'
<1> SUFFICES ASSUME TypeOK, [Next]_vars PROVE TypeOK'
  OBVIOUS
<1> USE DEF TypeOK, Threads, ProducerLabels, ConsumerLabels, Goto, client
<1>1. CASE UNCHANGED vars
  BY <1>1 DEF vars
<1>2. ASSUME NEW t \in Threads, Start(t) PROVE TypeOK'
  BY <1>2 DEF Start
<1>3. ASSUME NEW t \in Threads, MtxLock(t) PROVE TypeOK'
  BY <1>3 DEF MtxLock, Mutex!Acquire
<1>4. ASSUME NEW t \in Threads, MtxUnlock(t) PROVE TypeOK'
  BY <1>4 DEF MtxUnlock, Mutex!Release
<1>5. ASSUME NEW p \in Producers, Put(p) PROVE TypeOK'
  <2>1. puts' \in 0..MaxPuts /\ items' \in 0..puts'
    BY <1>5, SeqAssumption DEF Put
  <2> QED
    BY <1>5, <2>1 DEF Put, Mutex!Release
<1>6. ASSUME NEW p \in Producers, PutNothing(p) PROVE TypeOK'
  BY <1>6 DEF PutNothing
<1>7. ASSUME NEW p \in Producers, Bump(p) PROVE TypeOK'
  <2>1. sequence' \in 0..(SeqSize - 1)
    BY <1>7, SeqAssumption DEF Bump
  <2> QED
    BY <1>7, <2>1 DEF Bump
<1>8. ASSUME NEW p \in Producers, WakeOne(p) PROVE TypeOK'
  <2>1. PICK awake : WakeSet(p, awake)
    BY <1>8 DEF WakeOne
  <2> QED
    BY <2>1 DEF WakeSet, AfterSignal
<1>9. ASSUME NEW p \in Producers, WakeAll(p) PROVE TypeOK'
  BY <1>9 DEF WakeAll, WakeSet, AfterSignal
<1>10. ASSUME NEW c \in Consumers, Check(c) PROVE TypeOK'
  <2>1. items' \in 0..puts'
    BY <1>10, SeqAssumption DEF Check
  <2> QED
    BY <1>10, <2>1 DEF Check
<1>11. ASSUME NEW c \in Consumers, CarelessWait(c) PROVE TypeOK'
  BY <1>11 DEF CarelessWait
<1>12. ASSUME NEW c \in Consumers, ReadClock(c) PROVE TypeOK'
  BY <1>12 DEF ReadClock
<1>13. ASSUME NEW c \in Consumers, Load(c) PROVE TypeOK'
  BY <1>13 DEF Load
<1>14. ASSUME NEW c \in Consumers, Release(c) PROVE TypeOK'
  BY <1>14, SeqAssumption DEF Release, Mutex!Release
<1>15. ASSUME NEW c \in Consumers, FutexWait(c) PROVE TypeOK'
  BY <1>15, SeqAssumption DEF FutexWait
<1>16. ASSUME NEW c \in Consumers, NEW result \in {"success", "timedout"},
              LeaveSleep(c, result)
       PROVE  TypeOK'
  BY <1>16 DEF LeaveSleep
<1>17. ASSUME NEW c \in Consumers, Relock(c) PROVE TypeOK'
  BY <1>17 DEF Relock, Mutex!Acquire
<1>18. ASSUME NEW c \in Consumers, Returned(c) PROVE TypeOK'
  BY <1>18 DEF Returned
<1> HIDE DEF TypeOK
<1> QED
  BY <1>1, <1>2, <1>3, <1>4, <1>5, <1>6, <1>7, <1>8, <1>9, <1>10, <1>11,
     <1>12, <1>13, <1>14, <1>15, <1>16, <1>17, <1>18
     DEF Next, ProducerStep, ConsumerStep, Interrupted, TimedOut

\* Who is past mtx_lock has the mutex, and who is back from mtx_unlock has not.
LEMMA NextHolderOK ==
  TypeOK /\ HolderOK /\ WaitReturnsHolding /\ [Next]_vars
    => HolderOK' /\ WaitReturnsHolding'
<1> SUFFICES ASSUME TypeOK, HolderOK, WaitReturnsHolding, [Next]_vars
             PROVE  HolderOK' /\ WaitReturnsHolding'
  OBVIOUS
<1> USE ClientsAssumption
        DEF HolderOK, WaitReturnsHolding, Threads, Goto, client
<1>0. /\ pc \in [Threads -> ProducerLabels \cup ConsumerLabels]
      /\ outcome \in [Consumers -> {"success", "timedout", "error"}]
  BY DEF TypeOK
<1>1. CASE UNCHANGED vars
  BY <1>1 DEF vars
<1>2. ASSUME NEW t \in Threads, Start(t)
      PROVE  HolderOK' /\ WaitReturnsHolding'
  BY <1>0, <1>2 DEF Start
<1>3. ASSUME NEW t \in Threads, MtxLock(t)
      PROVE  HolderOK' /\ WaitReturnsHolding'
  BY <1>0, <1>3 DEF MtxLock, Mutex!Acquire
<1>4. ASSUME NEW t \in Threads, MtxUnlock(t)
      PROVE  HolderOK' /\ WaitReturnsHolding'
  BY <1>0, <1>4 DEF MtxUnlock, Mutex!Release
<1>5. ASSUME NEW p \in Producers, Put(p)
      PROVE  HolderOK' /\ WaitReturnsHolding'
  BY <1>0, <1>5 DEF Put, Mutex!Release
<1>6. ASSUME NEW p \in Producers, PutNothing(p)
      PROVE  HolderOK' /\ WaitReturnsHolding'
  BY <1>0, <1>6 DEF PutNothing
<1>7. ASSUME NEW p \in Producers, Bump(p)
      PROVE  HolderOK' /\ WaitReturnsHolding'
  BY <1>0, <1>7 DEF Bump
<1>8. ASSUME NEW p \in Producers, WakeOne(p) \/ WakeAll(p)
      PROVE  HolderOK' /\ WaitReturnsHolding'
  <2>1. PICK awake \in SUBSET Sleepers : WakeSet(p, awake)
    BY <1>8 DEF WakeOne, WakeAll
  <2> QED
    BY <1>0, <2>1 DEF WakeSet, AfterSignal, Sleepers
<1>9. ASSUME NEW c \in Consumers, Check(c)
      PROVE  HolderOK' /\ WaitReturnsHolding'
  BY <1>0, <1>9 DEF Check
<1>10. ASSUME NEW c \in Consumers, CarelessWait(c)
       PROVE  HolderOK' /\ WaitReturnsHolding'
  BY <1>0, <1>10 DEF CarelessWait
<1>11. ASSUME NEW c \in Consumers, ReadClock(c)
       PROVE  HolderOK' /\ WaitReturnsHolding'
  BY <1>0, <1>11 DEF ReadClock
<1>12. ASSUME NEW c \in Consumers, Load(c)
       PROVE  HolderOK' /\ WaitReturnsHolding'
  BY <1>0, <1>12 DEF Load
<1>13. ASSUME NEW c \in Consumers, Release(c)
       PROVE  HolderOK' /\ WaitReturnsHolding'
  BY <1>0, <1>13 DEF Release, Mutex!Release
<1>14. ASSUME NEW c \in Consumers, FutexWait(c)
       PROVE  HolderOK' /\ WaitReturnsHolding'
  BY <1>0, <1>14 DEF FutexWait
<1>15. ASSUME NEW c \in Consumers, NEW result, LeaveSleep(c, result)
       PROVE  HolderOK' /\ WaitReturnsHolding'
  BY <1>0, <1>15 DEF LeaveSleep
<1>16. ASSUME NEW c \in Consumers, Relock(c)
       PROVE  HolderOK' /\ WaitReturnsHolding'
  BY <1>0, <1>16 DEF Relock, Mutex!Acquire
<1>17. ASSUME NEW c \in Consumers, Returned(c)
       PROVE  HolderOK' /\ WaitReturnsHolding'
  BY <1>0, <1>17 DEF Returned
<1> HIDE DEF HolderOK, WaitReturnsHolding
<1> QED
  BY <1>1, <1>2, <1>3, <1>4, <1>5, <1>6, <1>7, <1>8, <1>9, <1>10, <1>11,
     <1>12, <1>13, <1>14, <1>15, <1>16, <1>17
     DEF Next, ProducerStep, ConsumerStep, Interrupted, TimedOut

\* A result other than success is forgotten when the wait is over.
LEMMA NextOutcomeOK ==
  TypeOK /\ OutcomeOK /\ [Next]_vars => OutcomeOK'
<1> SUFFICES ASSUME TypeOK, OutcomeOK, [Next]_vars, NEW d \in Consumers,
                    outcome'[d] # "success"
             PROVE  pc'[d] \in {"relock", "returned"}
  BY DEF OutcomeOK
<1> DEFINE Good == pc'[d] \in {"relock", "returned"}
<1> USE DEF OutcomeOK, Threads, Goto, client
<1>0. /\ pc \in [Threads -> ProducerLabels \cup ConsumerLabels]
      /\ outcome \in [Consumers -> {"success", "timedout", "error"}]
  BY DEF TypeOK
<1>1. CASE UNCHANGED vars
  BY <1>1 DEF vars
<1>2. ASSUME NEW t \in Threads, Start(t) \/ MtxLock(t) \/ MtxUnlock(t)
      PROVE  Good
  BY <1>0, <1>2 DEF Start, MtxLock, MtxUnlock
<1>3. ASSUME NEW p \in Producers, Put(p) \/ PutNothing(p) \/ Bump(p)
      PROVE  Good
  BY <1>0, <1>3, ClientsAssumption DEF Put, PutNothing, Bump
<1>4. ASSUME NEW p \in Producers, WakeOne(p) \/ WakeAll(p)
      PROVE  Good
  <2>1. PICK awake \in SUBSET Sleepers : WakeSet(p, awake)
    BY <1>4 DEF WakeOne, WakeAll
  <2>2. outcome[d] # "success"
    BY <2>1 DEF WakeSet
  <2> QED
    BY <1>0, <2>1, <2>2, ClientsAssumption DEF WakeSet
<1>5. ASSUME NEW c \in Consumers, Check(c) \/ CarelessWait(c) \/ ReadClock(c)
      PROVE  Good
  BY <1>0, <1>5 DEF Check, CarelessWait, ReadClock
<1>6. ASSUME NEW c \in Consumers, Load(c) \/ Release(c) \/ FutexWait(c)
      PROVE  Good
  BY <1>0, <1>6 DEF Load, Release, FutexWait
<1>7. ASSUME NEW c \in Consumers, NEW result, LeaveSleep(c, result)
      PROVE  Good
  BY <1>0, <1>7 DEF LeaveSleep
<1>8. ASSUME NEW c \in Consumers, Relock(c) \/ Returned(c)
      PROVE  Good
  BY <1>0, <1>8 DEF Relock, Returned
<1> QED
  BY <1>1, <1>2, <1>3, <1>4, <1>5, <1>6, <1>7, <1>8
     DEF Next, ProducerStep, ConsumerStep, Interrupted, TimedOut

\* The sequence moves on for every item, once its producer gets there.
LEMMA NextSequenceCounts ==
  TypeOK /\ SequenceCounts /\ [Next]_vars => SequenceCounts'
<1> SUFFICES ASSUME TypeOK, SequenceCounts, [Next]_vars PROVE SequenceCounts'
  OBVIOUS
<1>0. /\ pc \in [Threads -> ProducerLabels \cup ConsumerLabels]
      /\ sequence \in Nat /\ puts \in Nat
      /\ Cardinality(InBump) \in Nat
  BY Counted, Countable, SeqAssumption DEF TypeOK
<1> DEFINE Same == InBump' = InBump /\ sequence' = sequence /\ puts' = puts
<1>same. ASSUME Same PROVE SequenceCounts'
  <2> QED
    BY <1>same DEF SequenceCounts
<1> HIDE DEF Same
<1> USE DEF Threads, Goto, client
<1>1. ASSUME UNCHANGED vars PROVE SequenceCounts'
  BY <1>1, <1>same DEF vars, InBump, Same
<1>2. ASSUME NEW t \in Threads, Start(t) \/ MtxLock(t) \/ MtxUnlock(t)
      PROVE  SequenceCounts'
  <2> QED
    BY <1>0, <1>2, <1>same DEF Start, MtxLock, MtxUnlock, InBump, Same
<1>3. ASSUME NEW p \in Producers, Put(p) PROVE SequenceCounts'
  <2>1. p \notin InBump /\ InBump' = InBump \cup {p}
    BY <1>0, <1>3 DEF Put, InBump
  <2>2. Cardinality(InBump') = Cardinality(InBump) + 1
    BY <2>1, Counted, OneMore
  <2> QED
    BY <1>0, <1>3, <2>2 DEF Put, SequenceCounts
<1>4. ASSUME NEW p \in Producers, PutNothing(p) PROVE SequenceCounts'
  BY <1>0, <1>4, <1>same DEF PutNothing, InBump, Same
<1>5. ASSUME NEW p \in Producers, Bump(p) PROVE SequenceCounts'
  <2>1. p \in InBump /\ InBump' = InBump \ {p}
    BY <1>0, <1>5 DEF Bump, InBump
  <2>2. Cardinality(InBump') = Cardinality(InBump) - 1
    BY <2>1, Counted, OneLess
  <2>3. Cardinality(InBump') \in Nat
    BY Counted, Countable
  <2>4. sequence + 1 \in 0..(SeqSize - 1)
    BY <1>0, <2>2, <2>3, SeqAssumption DEF SequenceCounts, TypeOK
  <2>5. sequence' = sequence + 1
    BY <1>5, <2>4, SeqAssumption DEF Bump
  <2> QED
    BY <1>0, <1>5, <2>2, <2>5 DEF Bump, SequenceCounts
<1>6. ASSUME NEW p \in Producers, WakeOne(p) \/ WakeAll(p)
      PROVE  SequenceCounts'
  <2>1. PICK awake \in SUBSET Sleepers : WakeSet(p, awake)
    BY <1>6 DEF WakeOne, WakeAll
  <2>2. pc[p] \in {"wake_one", "wake_all"}
    BY <1>6 DEF WakeOne, WakeAll
  <2> QED
    BY <1>0, <2>1, <2>2, <1>same
       DEF WakeSet, AfterSignal, Sleepers, InBump, Same
<1>7. ASSUME NEW c \in Consumers,
             Check(c) \/ CarelessWait(c) \/ ReadClock(c) \/ Load(c)
      PROVE  SequenceCounts'
  BY <1>0, <1>7, <1>same
     DEF Check, CarelessWait, ReadClock, Load, InBump, Same
<1>8. ASSUME NEW c \in Consumers,
             Release(c) \/ FutexWait(c) \/ Relock(c) \/ Returned(c)
      PROVE  SequenceCounts'
  BY <1>0, <1>8, <1>same
     DEF Release, FutexWait, Relock, Returned, InBump, Same
<1>9. ASSUME NEW c \in Consumers, NEW result, LeaveSleep(c, result)
      PROVE  SequenceCounts'
  BY <1>0, <1>9, <1>same DEF LeaveSleep, InBump, Same
<1> QED
  BY <1>1, <1>2, <1>3, <1>4, <1>5, <1>6, <1>7, <1>8, <1>9
     DEF Next, ProducerStep, ConsumerStep, Interrupted, TimedOut

\* Items come only while no consumer is between its look and its unlock, and
\* the load sees every bump that was made.
LEMMA NextSeen ==
  TypeOK /\ HolderOK /\ SequenceCounts /\ SeenNone /\ LoadedBefore /\ [Next]_vars
    => SeenNone' /\ LoadedBefore'
<1> SUFFICES ASSUME TypeOK, HolderOK, SequenceCounts, SeenNone, LoadedBefore,
                    [Next]_vars
             PROVE  SeenNone' /\ LoadedBefore'
  OBVIOUS
<1>0. /\ pc \in [Threads -> ProducerLabels \cup ConsumerLabels]
      /\ expected \in [Consumers -> 0..(SeqSize - 1)]
      /\ items \in Nat /\ puts \in Nat /\ sequence \in Nat
      /\ sequence <= puts
  BY Counted, Countable, SeqAssumption DEF TypeOK, SequenceCounts
<1> USE ClientsAssumption, SeqAssumption
        DEF SeenNone, LoadedBefore, Threads, Goto, client
<1>1. CASE UNCHANGED vars
  BY <1>1 DEF vars
<1>2. ASSUME NEW t \in Threads, Start(t) PROVE SeenNone' /\ LoadedBefore'
  BY <1>0, <1>2 DEF Start
<1>3. ASSUME NEW t \in Threads, MtxLock(t) PROVE SeenNone' /\ LoadedBefore'
  <2>1. holder = NoThread
    BY <1>3 DEF MtxLock, Mutex!Acquire
  <2> QED
    BY <1>0, <1>3, <2>1 DEF MtxLock, Mutex!Acquire
<1>4. ASSUME NEW t \in Threads, MtxUnlock(t) PROVE SeenNone' /\ LoadedBefore'
  BY <1>0, <1>4 DEF MtxUnlock, Mutex!Release
<1>5. ASSUME NEW p \in Producers, Put(p) PROVE SeenNone' /\ LoadedBefore'
  <2>1. holder = p
    BY <1>5 DEF Put, HolderOK
  <2>2. \A c \in Consumers : holder # c /\ holder' # c
    BY <1>5, <2>1 DEF Put, Mutex!Release
  <2> QED
    BY <1>0, <1>5, <2>2 DEF Put
<1>6. ASSUME NEW p \in Producers, PutNothing(p) PROVE SeenNone' /\ LoadedBefore'
  BY <1>0, <1>6 DEF PutNothing
<1>7. ASSUME NEW p \in Producers, Bump(p) PROVE SeenNone' /\ LoadedBefore'
  BY <1>0, <1>7 DEF Bump
<1>8. ASSUME NEW p \in Producers, WakeOne(p) \/ WakeAll(p)
      PROVE  SeenNone' /\ LoadedBefore'
  <2>1. PICK awake \in SUBSET Sleepers : WakeSet(p, awake)
    BY <1>8 DEF WakeOne, WakeAll
  <2> QED
    BY <1>0, <2>1 DEF WakeSet, AfterSignal, Sleepers
<1>9. ASSUME NEW c \in Consumers, Check(c) PROVE SeenNone' /\ LoadedBefore'
  BY <1>0, <1>9 DEF Check
<1>10. ASSUME NEW c \in Consumers, CarelessWait(c)
       PROVE  SeenNone' /\ LoadedBefore'
  <2>1. holder # c
    BY <1>10 DEF CarelessWait, HolderOK
  <2> QED
    BY <1>0, <1>10, <2>1 DEF CarelessWait
<1>11. ASSUME NEW c \in Consumers, ReadClock(c)
       PROVE  SeenNone' /\ LoadedBefore'
  BY <1>0, <1>11 DEF ReadClock
<1>12. ASSUME NEW c \in Consumers, Load(c) PROVE SeenNone' /\ LoadedBefore'
  BY <1>0, <1>12 DEF Load
<1>13. ASSUME NEW c \in Consumers, Release(c) PROVE SeenNone' /\ LoadedBefore'
  BY <1>0, <1>13 DEF Release, Mutex!Release
<1>14. ASSUME NEW c \in Consumers, FutexWait(c)
       PROVE  SeenNone' /\ LoadedBefore'
  BY <1>0, <1>14 DEF FutexWait
<1>15. ASSUME NEW c \in Consumers, NEW result, LeaveSleep(c, result)
       PROVE  SeenNone' /\ LoadedBefore'
  BY <1>0, <1>15 DEF LeaveSleep
<1>16. ASSUME NEW c \in Consumers, Relock(c) PROVE SeenNone' /\ LoadedBefore'
  BY <1>0, <1>16 DEF Relock, Mutex!Acquire
<1>17. ASSUME NEW c \in Consumers, Returned(c)
       PROVE  SeenNone' /\ LoadedBefore'
  BY <1>0, <1>17 DEF Returned
<1> HIDE DEF SeenNone, LoadedBefore
<1> QED
  BY <1>1, <1>2, <1>3, <1>4, <1>5, <1>6, <1>7, <1>8, <1>9, <1>10, <1>11,
     <1>12, <1>13, <1>14, <1>15, <1>16, <1>17
     DEF Next, ProducerStep, ConsumerStep, Interrupted, TimedOut

\* With no sleeper, or no item, there is nothing to lose.
LEMMA NothingToLose ==
  ASSUME Sleepers' = {} \/ items' = 0 PROVE NoLostSignal'
<1>1. Cardinality(Signalling') \in Nat /\ Cardinality(Looking') \in Nat
  BY Counted, Countable
<1>2. NoLostSignal' <=>
        (Sleepers' # {} =>
           items' <= Cardinality(Signalling') + Cardinality(Looking'))
  BY DEF NoLostSignal
<1> QED
  BY <1>1, <1>2

\* A new item comes with a producer that has to signal it.
LEMMA PutSignals ==
  ASSUME TypeOK, NoLostSignal, NEW p \in Producers, Put(p)
  PROVE  NoLostSignal'
<1>1. /\ pc \in [Threads -> ProducerLabels \cup ConsumerLabels]
      /\ items \in Nat
  BY SeqAssumption DEF TypeOK
<1>2. p \notin Signalling /\ Signalling' = Signalling \cup {p}
  BY <1>1 DEF Put, Goto, Signalling, Threads
<1>3. Looking' = Looking /\ Sleepers' = Sleepers
  BY <1>1, ClientsAssumption DEF Put, Goto, Looking, Sleepers, Threads
<1>4. Cardinality(Signalling') = Cardinality(Signalling) + 1
  BY <1>2, Counted, OneMore
<1>5. Cardinality(Signalling) \in Nat /\ Cardinality(Looking) \in Nat
  BY Counted, Countable
<1> QED
  BY <1>1, <1>3, <1>4, <1>5 DEF NoLostSignal, Put

\* A consumer that stops looking has taken an item, or there is none.
LEMMA CheckTakes ==
  ASSUME TypeOK, NoLostSignal, NEW c \in Consumers, Check(c)
  PROVE  NoLostSignal'
<1>1. /\ pc \in [Threads -> ProducerLabels \cup ConsumerLabels]
      /\ items \in Nat
  BY SeqAssumption DEF TypeOK
<1>2. CASE items = 0
  BY <1>2, NothingToLose DEF Check
<1>3. CASE items # 0
  <2>1. items' = items - 1 /\ pc' = [pc EXCEPT ![c] = "unlock"]
        /\ outcome' = outcome
    BY <1>3 DEF Check, Goto
  <2>2. c \in Looking /\ Looking' = Looking \ {c}
    BY <1>1, <2>1 DEF Check, Looking, Threads
  <2>3. Signalling' = Signalling /\ Sleepers' = Sleepers
    BY <1>1, <2>1, ClientsAssumption DEF Check, Signalling, Sleepers, Threads
  <2>4. Cardinality(Looking') = Cardinality(Looking) - 1
    BY <2>2, Counted, OneLess
  <2>5. Cardinality(Signalling) \in Nat /\ Cardinality(Looking) \in Nat
    BY Counted, Countable
  <2> QED
    BY <1>1, <2>1, <2>3, <2>4, <2>5 DEF NoLostSignal
<1> QED
  BY <1>2, <1>3

\* Who is woken looks in the place of the producer that woke.
LEMMA WakeOneHandsOver ==
  ASSUME TypeOK, OutcomeOK, NoLostSignal, NEW p \in Producers, WakeOne(p)
  PROVE  NoLostSignal'
<1>1. /\ pc \in [Threads -> ProducerLabels \cup ConsumerLabels]
      /\ items \in Nat
  BY SeqAssumption DEF TypeOK
<1>2. CASE Sleepers = {}
  <2>1. WakeSet(p, {})
    BY <1>2 DEF WakeOne
  <2>2. Sleepers' = {}
    BY <1>1, <1>2, <2>1, ClientsAssumption
       DEF WakeSet, AfterSignal, Sleepers, Threads
  <2> QED
    BY <2>2, NothingToLose
<1>3. CASE Sleepers # {}
  <2>1. PICK c \in Sleepers : WakeSet(p, {c})
    BY <1>3 DEF WakeOne
  <2>2. c \in Consumers /\ pc[c] = "asleep" /\ outcome[c] = "success"
        /\ pc[p] = "wake_one" /\ c # p
    BY ClientsAssumption DEF Sleepers, OutcomeOK, WakeOne
  <2>3. /\ pc' = [t \in Threads |-> IF t = c THEN "relock"
                                    ELSE IF t = p THEN AfterSignal(p) ELSE pc[t]]
        /\ outcome' = outcome /\ items' = items
    BY <2>1 DEF WakeSet, client
  <2>4. p \in Signalling /\ Signalling' = Signalling \ {p}
    BY <1>1, <2>2, <2>3, ClientsAssumption DEF Signalling, AfterSignal, Threads
  <2>5. c \notin Looking /\ Looking' = Looking \cup {c}
    BY <1>1, <2>2, <2>3, ClientsAssumption DEF Looking, AfterSignal, Threads
  <2>6. Cardinality(Signalling') = Cardinality(Signalling) - 1
    BY <2>4, Counted, OneLess
  <2>7. Cardinality(Looking') = Cardinality(Looking) + 1
    BY <2>5, Counted, OneMore
  <2>8. Cardinality(Signalling) \in Nat /\ Cardinality(Looking) \in Nat
    BY Counted, Countable
  <2> QED
    BY <1>1, <1>3, <2>3, <2>6, <2>7, <2>8 DEF NoLostSignal
<1> QED
  BY <1>2, <1>3

\* A broadcast leaves nobody asleep.
LEMMA WakeAllLeavesNone ==
  ASSUME TypeOK, NEW p \in Producers, WakeAll(p)
  PROVE  NoLostSignal'
<1>1. Sleepers' = {}
  BY ClientsAssumption
     DEF TypeOK, WakeAll, WakeSet, AfterSignal, Sleepers, Threads
<1> QED
  BY <1>1, NothingToLose

\* A consumer falls asleep only when each item that has come since it looked
\* has a producer before its bump.
LEMMA SleepsInTime ==
  ASSUME TypeOK, SequenceCounts, LoadedBefore, NoLostSignal,
         NEW c \in Consumers, FutexWait(c)
  PROVE  NoLostSignal'
<1>1. /\ pc \in [Threads -> ProducerLabels \cup ConsumerLabels]
      /\ expected \in [Consumers -> 0..(SeqSize - 1)]
      /\ items \in Nat /\ puts \in Nat /\ sequence \in Nat
  BY SeqAssumption DEF TypeOK
<1>2. pc[c] = "futex" /\ items' = items /\ outcome' = outcome
  BY DEF FutexWait
<1>3. Signalling' = Signalling /\ Looking \subseteq Looking'
  BY <1>1, ClientsAssumption
     DEF FutexWait, Goto, Signalling, Looking, Threads
<1>4. /\ Cardinality(Signalling) \in Nat /\ Cardinality(InBump) \in Nat
      /\ Cardinality(Looking) \in Nat /\ Cardinality(Looking') \in Nat
      /\ Cardinality(Looking) <= Cardinality(Looking')
      /\ Cardinality(InBump) <= Cardinality(Signalling)
  BY <1>3, Counted, Countable, MoreCount
<1>5. NoLostSignal' <=>
        (Sleepers' # {} =>
           items' <= Cardinality(Signalling') + Cardinality(Looking'))
  BY DEF NoLostSignal
<1>6. CASE sequence = expected[c]
  <2>1. items + expected[c] <= puts
    BY <1>2 DEF LoadedBefore
  <2>2. items <= Cardinality(InBump)
    BY <1>1, <1>4, <1>6, <2>1 DEF SequenceCounts
  <2> QED
    BY <1>1, <1>2, <1>3, <1>4, <1>5, <2>2
<1>7. CASE sequence # expected[c]
  <2>1. Sleepers' = Sleepers
    BY <1>1, <1>7, ClientsAssumption DEF FutexWait, Goto, Sleepers, Threads
  <2> QED
    BY <1>1, <1>2, <1>3, <1>4, <1>5, <2>1 DEF NoLostSignal
<1> QED
  BY <1>6, <1>7

\* No step loses a signal.
LEMMA NextNoLostSignal == IInv /\ [Next]_vars => NoLostSignal'
<1> SUFFICES ASSUME IInv, [Next]_vars PROVE NoLostSignal'
  OBVIOUS
<1>0. /\ TypeOK /\ TypeOK' /\ OutcomeOK /\ OutcomeOK' /\ NoLostSignal
      /\ SequenceCounts /\ LoadedBefore
  BY NextTypeOK, NextOutcomeOK DEF IInv
<1>a. /\ pc \in [Threads -> ProducerLabels \cup ConsumerLabels]
      /\ outcome \in [Consumers -> {"success", "timedout", "error"}]
      /\ items \in Nat
  BY <1>0, SeqAssumption DEF TypeOK
<1> DEFINE Stays == /\ items' = items /\ Sleepers' \subseteq Sleepers
                    /\ Signalling \subseteq Signalling'
                    /\ Looking \subseteq Looking'
<1>stays. ASSUME Stays PROVE NoLostSignal'
  BY <1>0, <1>a, <1>stays, NobodyLeaves
<1> HIDE DEF Stays
<1> USE ClientsAssumption DEF Threads, Goto, client
<1>1. ASSUME UNCHANGED vars PROVE NoLostSignal'
  BY <1>1, <1>stays DEF vars, Stays, Sleepers, Signalling, Looking
<1>2. ASSUME NEW t \in Threads, Start(t) \/ MtxLock(t) \/ MtxUnlock(t)
      PROVE  NoLostSignal'
  BY <1>a, <1>2, <1>stays
     DEF Start, MtxLock, MtxUnlock, Stays, Sleepers, Signalling, Looking
<1>3. ASSUME NEW p \in Producers, Put(p) PROVE NoLostSignal'
  BY <1>0, <1>3, PutSignals
<1>4. ASSUME NEW p \in Producers, PutNothing(p) \/ Bump(p) PROVE NoLostSignal'
  BY <1>a, <1>4, <1>stays
     DEF PutNothing, Bump, Stays, Sleepers, Signalling, Looking
<1>5. ASSUME NEW p \in Producers, WakeOne(p) \/ WakeAll(p) PROVE NoLostSignal'
  BY <1>0, <1>5, WakeOneHandsOver, WakeAllLeavesNone
<1>6. ASSUME NEW c \in Consumers, Check(c) PROVE NoLostSignal'
  BY <1>0, <1>6, CheckTakes
<1>7. ASSUME NEW c \in Consumers, FutexWait(c) PROVE NoLostSignal'
  BY <1>0, <1>7, SleepsInTime
<1>8. ASSUME NEW c \in Consumers,
             CarelessWait(c) \/ ReadClock(c) \/ Load(c) \/ Release(c)
      PROVE  NoLostSignal'
  BY <1>a, <1>8, <1>stays
     DEF CarelessWait, ReadClock, Load, Release, Stays, Sleepers, Signalling,
         Looking
<1>9. ASSUME NEW c \in Consumers, NEW result, LeaveSleep(c, result)
      PROVE  NoLostSignal'
  BY <1>a, <1>9, <1>stays
     DEF LeaveSleep, Stays, Sleepers, Signalling, Looking
<1>10. ASSUME NEW c \in Consumers, Relock(c) \/ Returned(c)
       PROVE  NoLostSignal'
  BY <1>a, <1>10, <1>stays
     DEF Relock, Returned, Stays, Sleepers, Signalling, Looking
<1> QED
  BY <1>1, <1>2, <1>3, <1>4, <1>5, <1>6, <1>7, <1>8, <1>9, <1>10
     DEF Next, ProducerStep, ConsumerStep, Interrupted, TimedOut

\* The invariant is inductive.
LEMMA NextIInv == IInv /\ [Next]_vars => IInv'
  BY NextTypeOK, NextHolderOK, NextSequenceCounts, NextSeen, NextOutcomeOK,
     NextNoLostSignal
     DEF IInv

-----------------------------------------------------------------------------

\* Every behaviour of the producers and the consumers keeps the invariant.
THEOREM Invariance == Spec => []IInv
  BY InitIInv, NextIInv, PTL DEF Spec

\* condvar.c: the variables keep their types.  No more items are taken than
\* were put, and the sequence keeps to its width.
THEOREM TypeCorrect == Spec => []TypeOK
<1>1. IInv => TypeOK
  BY DEF IInv
<1> QED
  BY <1>1, Invariance, PTL

\* cnd_wait and cnd_timedwait: whatever ends the wait, who came with the mutex
\* has it on return.
THEOREM WaitCorrect == Spec => []WaitReturnsHolding
<1>1. IInv => WaitReturnsHolding
  BY DEF IInv
<1> QED
  BY <1>1, Invariance, PTL

\* cnd_signal and cnd_broadcast: while anybody sleeps, each item that was put
\* has somebody on the way to it, or a producer that has still to wake.
THEOREM SignalsKept == Spec => []NoLostSignal
<1>1. IInv => NoLostSignal
  BY DEF IInv
<1> QED
  BY <1>1, Invariance, PTL
=============================================================================
