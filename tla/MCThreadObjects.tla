--------------------------- MODULE MCThreadObjects ---------------------------
(***************************************************************************)
(* The objects of the thread library that share nothing with each other:   *)
(* a read-write lock, a once flag and a barrier.  In a behaviour the       *)
(* threads use one of them.                                                *)
(***************************************************************************)
EXTENDS RwLock

CONSTANTS
  NoThread,
  Count,        \* of the barrier
  MaxTrips      \* bound: how often it opens

VARIABLES
  object,                                            \* the one that is used
  oState, oStarted, oFinished, oPc,                  \* the once flag
  bHolder, bDepth, bReached, bSequence, bPc, bExpected, bTrips, bCycle,
  bInterrupted                                       \* the barrier

oVars == <<oState, oStarted, oFinished, oPc>>
bVars == <<bHolder, bDepth, bReached, bSequence, bPc, bExpected, bTrips,
           bCycle, bInterrupted>>

O == INSTANCE CallOnce WITH
       state <- oState, started <- oStarted, finished <- oFinished, pc <- oPc

B == INSTANCE Barrier WITH
       holder <- bHolder, depth <- bDepth, reached <- bReached,
       sequence <- bSequence, pc <- bPc, expected <- bExpected,
       trips <- bTrips, cycle <- bCycle, interrupted <- bInterrupted

ASSUME ObjectsAssumption == B!BarrierAssumption

ObjectsVars == <<vars, object, oVars, bVars>>

ObjectsInit == /\ object \in {"rwlock", "once", "barrier"}
               /\ Init /\ O!Init /\ B!Init

UseRwLock(A) == /\ object = "rwlock" /\ A
                /\ UNCHANGED <<object, oVars, bVars>>
UseOnce(A) == /\ object = "once" /\ A
              /\ UNCHANGED <<object, vars, bVars>>
UseBarrier(A) == /\ object = "barrier" /\ A
                 /\ UNCHANGED <<object, vars, oVars>>

ObjectsNext == UseRwLock(Next) \/ UseOnce(O!Next) \/ UseBarrier(B!Next)

\* The fairness of FairSpec in each of the modules
ObjectsSpec ==
  /\ ObjectsInit /\ [][ObjectsNext]_ObjectsVars
  /\ WF_ObjectsVars(UseRwLock(WokenRuns))
  /\ \A t \in Threads : WF_ObjectsVars(UseOnce(O!Step(t)))

\* No call_once returns before the function has run to its end, once.
OnceBeforeReturn == O!OnceBeforeReturn

\* Nobody sleeps on a flag whose function is done, unless a wake is coming.
NobodyLeftAsleep == O!NobodyLeftAsleep

\* Every call_once returns if the function does.
EveryCallReturns == O!EveryCallReturns

\* Without interrupted waits nobody passes a barrier before its cycle is full.
NobodyPassesEarly == B!NobodyPassesEarly

\* Nobody sleeps for a cycle whose barrier has opened, unless a wake is coming.
NobodyLeftBehind == B!NobodyLeftBehind
==============================================================================
