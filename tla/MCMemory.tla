------------------------------ MODULE MCMemory -------------------------------
(***************************************************************************)
(* What a process gets memory from: the allocator, with a word of 6 bits,  *)
(* and the dynamic loader, with an executable and three libraries.  A      *)
(* behaviour is of one of them: each is taken to have the program break to *)
(* itself, which both move (rtld_alloc and sbrk).                          *)
(*                                                                         *)
(* Of malloc's sizes, 61 and 63 are refused by its tests and 28 by the     *)
(* kernel, which gives no more than MaxBrk.  Of the libraries, two need    *)
(* each other, two define the symbol that all import, and all choices of   *)
(* sonames and of thread-local variables are tried.                        *)
(***************************************************************************)
EXTENDS Malloc

CONSTANTS
  Users,                         \* the threads that use thread-local variables
  Files, Main, Systems, MaxLibs, \* of the loader
  Symbols                        \* what files define and refer to

VARIABLES
  part,              \* "allocator" or "loader"
  system, libs, loaderPc, stack, first, at, modules, dtv, tlsBlocks, told

loaderVars == <<system, libs, loaderPc, stack, first, at, modules, dtv,
                tlsBlocks, told>>

Loader == INSTANCE Rtld WITH
  Threads <- Users, pc <- loaderPc, blocks <- tlsBlocks

ASSUME LoaderAssumption ==
  /\ Loader!RtldAssumption
  /\ Systems \subseteq Loader!SystemType(Symbols)

\* What the loader finds, where TLC looks for it
Graphs == {[main |-> <<"a">>, a |-> <<"b">>, b |-> <<"a">>, c |-> <<"b">>],
           [main |-> <<"missing", "b">>, a |-> <<>>, b |-> <<>>,
            c |-> <<"a", "b">>]}

LoaderSystems ==
  {[f \in Files |->
      [needs |-> graph[f], uses |-> Symbols, tls |-> f \in tls,
       defs |-> IF f \in {"a", "c"} THEN Symbols ELSE {},
       soname |-> f \in sonames]] :
   graph \in Graphs, tls \in SUBSET Files,
   sonames \in SUBSET (Files \ {"main"})}

allVars == <<vars, part, loaderVars>>

\* Where the allocator is at work the files do not matter.
MemoryInit == /\ part \in {"allocator", "loader"}
              /\ Init /\ Loader!Init
              /\ part = "allocator" =>
                   system = CHOOSE one \in Systems : TRUE

AllocatorDoes(A) == part = "allocator" /\ A /\ UNCHANGED <<part, loaderVars>>
LoaderDoes(A) == part = "loader" /\ A /\ UNCHANGED <<part, vars>>

MemoryNext == AllocatorDoes(Next) \/ LoaderDoes(Loader!Next)

MemorySpec == MemoryInit /\ [][MemoryNext]_allVars

\* A symbol that several libraries import means one definition to all of them,
\* whenever they were loaded.
OneDefinition == Loader!OneDefinition

\* No code of the program runs while a library that is loaded is not relocated,
\* and no initialiser runs twice.
RelocatedBeforeRun == Loader!RelocatedBeforeRun

\* A thread's block of thread-local variables stays where it was told it is.
BlocksStay == Loader!BlocksStay

\* rtld.h: `returns the current thread's address of the TLS variable in module
\* mod'.  Two threads are never told the same block.
OwnStorage == Loader!OwnStorage
==============================================================================
