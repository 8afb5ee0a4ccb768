------------------------------ MODULE MCThreads ------------------------------
(***************************************************************************)
(* Threads that are created and joined, and threads that keep values under *)
(* keys.  The two share no state: in a behaviour one of them is at work.   *)
(* There is a slot less than malloc has blocks, so that thrd_create also   *)
(* finds the table full.                                                   *)
(***************************************************************************)
EXTENDS ThreadLife

CONSTANTS Owners, Values, KeyCount, ValueCount, Iterations

VARIABLES
  work,         \* "life" or "storage"
  keys, values, sweepPc, round, pos, called, resets, last

storageVars == <<keys, values, sweepPc, round, pos, called, resets, last>>

Storage == INSTANCE Tss WITH
  Threads <- Owners, table <- values, pc <- sweepPc

ASSUME StorageAssumption == Storage!TssAssumption

allVars == <<vars, work, storageVars>>

LifeDoes(A) == work = "life" /\ A /\ UNCHANGED <<work, storageVars>>
StorageDoes(A) == work = "storage" /\ A /\ UNCHANGED <<work, vars>>

ThreadsInit == work \in {"life", "storage"} /\ Init /\ Storage!Init

ThreadsNext == LifeDoes(Next) \/ StorageDoes(Storage!Next)

\* The fairness of ThreadLife's FairSpec
ThreadsSpec ==
  /\ ThreadsInit /\ [][ThreadsNext]_allVars
  /\ WF_allVars(LifeDoes(JoinStep))
  /\ \A c \in Children : WF_allVars(LifeDoes(ChildStep(c)))

\* tss_get returns what the thread set last and nothing else, also when keys
\* and tids are used again.
GetGivesLastSet == Storage!GetGivesLastSet

\* A thread that has ended leaves no value in the table that all share.
EndsClean == Storage!EndsClean

\* A destructor is called for the value that its thread has then, never twice
\* for one setting.
DestructorOncePerValue == Storage!DestructorOncePerValue
==============================================================================
