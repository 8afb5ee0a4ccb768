-------------------------------- MODULE Lock --------------------------------
(***************************************************************************)
(* What a C11 mutex promises its clients: at most one holder, who may      *)
(* nest, and who alone can give it back.  The mutex of meuos-libc (CMutex) *)
(* is shown to implement this specification.                               *)
(***************************************************************************)
EXTENDS Naturals

CONSTANTS
  Threads,      \* the threads of the process
  NoThread      \* "held by nobody"

VARIABLES
  holder,       \* the thread that has the mutex, or NoThread
  depth         \* how many times the holder has it

vars == <<holder, depth>>

Init == holder = NoThread /\ depth = 0

Acquire(t) == /\ holder = NoThread
              /\ holder' = t
              /\ depth' = 1

Reenter(t) == /\ holder = t
              /\ depth' = depth + 1
              /\ UNCHANGED holder

Leave(t) == /\ holder = t
            /\ depth > 1
            /\ depth' = depth - 1
            /\ UNCHANGED holder

Release(t) == /\ holder = t
              /\ depth = 1
              /\ holder' = NoThread
              /\ depth' = 0

Next == \E t \in Threads : Acquire(t) \/ Reenter(t) \/ Leave(t) \/ Release(t)

Spec == Init /\ [][Next]_vars
=============================================================================
