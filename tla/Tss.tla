--------------------------------- MODULE Tss ---------------------------------
(***************************************************************************)
(* Thread-specific storage of meuos-libc, src/thread/tss.c, and the sweep  *)
(* of destructors at the end of a thread, __meuos_tss_cleanup in           *)
(* src/thread/state.c.  One table of keys and one of values serve all      *)
(* threads; a value is found by searching for its tid and key.  tss_guard  *)
(* makes each search one step, and is free while a destructor runs.        *)
(*                                                                         *)
(* A thread is its tid, which the kernel gives again to a later thread.    *)
(***************************************************************************)
EXTENDS Naturals

CONSTANTS
  Threads,      \* tids
  Values,       \* what threads set, other than NULL
  None,         \* NULL, and the key and tid 0
  KeyCount,     \* TSS_KEYS (32)
  ValueCount,   \* TSS_VALUES (256), for all threads together
  Iterations    \* TSS_DTOR_ITERATIONS (4)

Keys == 1..KeyCount
Entries == 1..ValueCount

\* What instances have to assume
TssAssumption == /\ KeyCount \in Nat /\ ValueCount \in Nat
                 /\ Iterations \in Nat \ {0}
                 /\ None \notin Threads \cup Values \cup Keys

VARIABLES
  keys,         \* tss_keys: "free", "plain" or, with a destructor, "dtor"
  table,        \* tss_values
  pc,           \* "unborn", "running", "sweep", "destructor" or "dead"
  round, pos, called,  \* the locals iteration, index and called of the sweep
  resets,       \* how many values a thread's destructors have set, up to Iterations
  last          \* what each thread has set, and not lost since, by key

vars == <<keys, table, pc, round, pos, called, resets, last>>
sweepVars == <<round, pos, called>>

Empty == [tid |-> None, key |-> None, value |-> None]

Init ==
  /\ keys = [k \in Keys |-> "free"]
  /\ table = [i \in Entries |-> Empty]
  /\ pc = [t \in Threads |-> "unborn"]
  /\ round = [t \in Threads |-> 0]
  /\ pos = [t \in Threads |-> 1]
  /\ called = [t \in Threads |-> FALSE]
  /\ resets = [t \in Threads |-> 0]
  /\ last = [t \in Threads |-> [k \in Keys |-> None]]

First(S) == CHOOSE i \in S : \A j \in S : i <= j

Found(t, k) == {i \in Entries : table[i].tid = t /\ table[i].key = k}
Vacant == {i \in Entries : table[i].tid = None}

\* tss_get
Get(t, k) ==
  IF keys[k] # "free" /\ Found(t, k) # {} THEN table[First(Found(t, k))].value
                                          ELSE None

-----------------------------------------------------------------------------
(* What the program calls, from a thread's function or from a destructor *)

InClient(t) == pc[t] \in {"running", "destructor"}

\* tss_create: the first free key, or thrd_nomem
Create(t) ==
  /\ InClient(t)
  /\ \E k \in Keys : keys[k] = "free"
  /\ LET k == First({j \in Keys : keys[j] = "free"})
     IN \E use \in {"plain", "dtor"} : keys' = [keys EXCEPT ![k] = use]
  /\ UNCHANGED <<table, pc, sweepVars, resets, last>>

\* Mutant: the values stay in the table.
DeleteKeyOnly(t, k) ==
  /\ InClient(t)
  /\ keys' = [keys EXCEPT ![k] = "free"]
  /\ last' = [u \in Threads |-> [last[u] EXCEPT ![k] = None]]
  /\ UNCHANGED <<table, pc, sweepVars, resets>>

\* tss_delete: the key, and its values in all threads
Delete(t, k) ==
  /\ InClient(t)
  /\ keys' = [keys EXCEPT ![k] = "free"]
  /\ table' = [i \in Entries |-> IF table[i].key = k THEN Empty ELSE table[i]]
  /\ last' = [u \in Threads |-> [last[u] EXCEPT ![k] = None]]
  /\ UNCHANGED <<pc, sweepVars, resets>>

\* tss_set.  On a free key it returns thrd_error, on a full table thrd_nomem,
\* and a NULL that is not there needs no entry; these change nothing.
Setting(t, k, v) ==
  /\ InClient(t)
  /\ keys[k] # "free"
  /\ IF pc[t] = "destructor" /\ v # None
       THEN resets' = [resets EXCEPT ![t] = IF @ < Iterations THEN @ + 1 ELSE @]
       ELSE UNCHANGED resets
  /\ last' = [last EXCEPT ![t][k] = v]
  /\ UNCHANGED <<keys, pc, sweepVars>>

SetFound(t, k, v) ==
  /\ Setting(t, k, v)
  /\ Found(t, k) # {}
  /\ LET i == First(Found(t, k))
     IN table' = IF v = None THEN [table EXCEPT ![i] = Empty]
                             ELSE [table EXCEPT ![i].value = v]

\* Mutant: the first vacant entry ends the search.
SetNewBeforeFound(t, k, v) ==
  /\ Setting(t, k, v)
  /\ v # None
  /\ Vacant # {}
  /\ \A i \in Found(t, k) : First(Vacant) < i
  /\ table' = [table EXCEPT ![First(Vacant)] = [tid |-> t, key |-> k, value |-> v]]

SetNew(t, k, v) ==
  /\ Setting(t, k, v)
  /\ v # None
  /\ Vacant # {}
  /\ Found(t, k) = {}
  /\ table' = [table EXCEPT ![First(Vacant)] = [tid |-> t, key |-> k, value |-> v]]

-----------------------------------------------------------------------------
(* A thread's start, its end, and the sweep *)

\* The sweep gives up after Iterations rounds, and leaves what destructors
\* set in the last of them.
WithinRounds(t) == resets[t] < Iterations

\* A tid comes to life, for the first time or again.
Start(t) ==
  /\ pc[t] \in {"unborn", "dead"}
  /\ pc' = [pc EXCEPT ![t] = "running"]
  /\ resets' = [resets EXCEPT ![t] = IF WithinRounds(t) THEN 0 ELSE @]
  /\ last' = [last EXCEPT ![t] = [k \in Keys |-> None]]
  /\ UNCHANGED <<keys, table, sweepVars>>

\* __meuos_thread_finish calls __meuos_tss_cleanup
End(t) ==
  /\ pc[t] = "running"
  /\ pc' = [pc EXCEPT ![t] = "sweep"]
  /\ UNCHANGED <<keys, table, sweepVars, resets, last>>

InSweep(t) == pc[t] = "sweep" /\ pos[t] \in Entries

HasValue(t, i) == table[i].tid = t /\ keys[table[i].key] # "free"

\* An entry of another thread
SweepPasses(t) ==
  /\ InSweep(t)
  /\ ~HasValue(t, pos[t])
  /\ pos' = [pos EXCEPT ![t] = @ + 1]
  /\ UNCHANGED <<keys, table, pc, round, called, resets, last>>

\* The value is taken out of the table, and its destructor, if there is one,
\* called once the guard is free.
SweepTakes(t) ==
  LET entry == table[pos[t]]
  IN /\ InSweep(t)
     /\ HasValue(t, pos[t])
     /\ table' = [table EXCEPT ![pos[t]] = Empty]
     /\ last' = [last EXCEPT ![t][entry.key] = None]
     /\ IF keys[entry.key] = "dtor"
          THEN pc' = [pc EXCEPT ![t] = "destructor"] /\ UNCHANGED pos
          ELSE pos' = [pos EXCEPT ![t] = @ + 1] /\ UNCHANGED pc
     /\ UNCHANGED <<keys, round, called, resets>>

DestructorReturns(t) ==
  /\ pc[t] = "destructor"
  /\ pc' = [pc EXCEPT ![t] = "sweep"]
  /\ pos' = [pos EXCEPT ![t] = @ + 1]
  /\ called' = [called EXCEPT ![t] = TRUE]
  /\ UNCHANGED <<keys, table, round, resets, last>>

\* A round goes over the whole table.  When it called a destructor there is
\* another one, unless it was the last of Iterations.
NewRound(t, again) ==
  /\ pc[t] = "sweep"
  /\ pos[t] = ValueCount + 1
  /\ pos' = [pos EXCEPT ![t] = 1]
  /\ called' = [called EXCEPT ![t] = FALSE]
  /\ round' = [round EXCEPT ![t] = IF again THEN @ + 1 ELSE 0]
  /\ pc' = [pc EXCEPT ![t] = IF again THEN "sweep" ELSE "dead"]
  /\ UNCHANGED <<keys, table, resets, last>>

\* Mutant: one round and no more.
RoundOnce(t) == NewRound(t, FALSE)

Round(t) == NewRound(t, called[t] /\ round[t] + 1 < Iterations)

SweepStep(t) ==
  SweepPasses(t) \/ SweepTakes(t) \/ DestructorReturns(t) \/ Round(t)

-----------------------------------------------------------------------------

Next ==
  \E t \in Threads :
    \/ Create(t)
    \/ \E k \in Keys :
         \/ Delete(t, k)
         \/ \E v \in Values \cup {None} : SetFound(t, k, v) \/ SetNew(t, k, v)
    \/ Start(t) \/ End(t) \/ SweepStep(t)

Spec == Init /\ [][Next]_vars

-----------------------------------------------------------------------------
(* Properties *)

TypeOK ==
  /\ keys \in [Keys -> {"free", "plain", "dtor"}]
  /\ table \in [Entries -> [tid : Threads \cup {None}, key : Keys \cup {None},
                          value : Values \cup {None}]]
  /\ pc \in [Threads -> {"unborn", "running", "sweep", "destructor", "dead"}]
  /\ round \in [Threads -> 0..(Iterations - 1)]
  /\ pos \in [Threads -> 1..(ValueCount + 1)]
  /\ called \in [Threads -> BOOLEAN]
  /\ resets \in [Threads -> 0..Iterations]
  /\ last \in [Threads -> [Keys -> Values \cup {None}]]

\* tss_get returns what this thread, and not an earlier one with its tid, last
\* set for this key, and not for an earlier one with its number; NULL when it
\* set nothing, when a destructor has had the value, and after tss_delete.
\* This is so while the destructors of the threads that had its tid set fewer
\* values than the sweep has rounds.
GetGivesLastSet ==
  \A t \in Threads, k \in Keys :
    WithinRounds(t) /\ pc[t] # "dead" => Get(t, k) = last[t][k]

\* A thread that has ended leaves nothing in the table, so every value that
\* has a destructor went through it, also one that a destructor set again (if
\* they set fewer than there are rounds).
EndsClean ==
  \A t \in Threads, i \in Entries :
    WithinRounds(t) /\ pc[t] = "dead" => table[i].tid # t

\* A destructor is called for a value that the thread has for the key then,
\* never twice for one setting nor for a value that was replaced.
DestructorOncePerValue ==
  [][\A t \in Threads :
       WithinRounds(t) /\ pc[t] = "sweep" /\ pc'[t] = "destructor" =>
         LET entry == table[pos[t]]
         IN entry.value = last[t][entry.key] /\ entry.value # None]_vars
=============================================================================
