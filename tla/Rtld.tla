-------------------------------- MODULE Rtld --------------------------------
(***************************************************************************)
(* The dynamic loader ld.so, rtld.c of meuos-toolchain.  At the start of a *)
(* program, and in each rtld_dlopen, it loads a file and what that needs,  *)
(* gives modules with thread-local variables their numbers, relocates what *)
(* it has loaded and calls initialisers.  Nothing is ever unloaded.        *)
(*                                                                         *)
(* Libraries lie in /lib.  Those that others need are asked for by their   *)
(* soname, and are found under their path; dlopen is called with paths.    *)
(* One thread at a time is in the loader, as the code has no lock.         *)
(***************************************************************************)
EXTENDS Naturals, Sequences, FiniteSets

CONSTANTS
  Files,
  Main,        \* the executable
  Systems,     \* what the files may be; one choice in a behaviour
  Threads,     \* those that use thread-local variables
  MaxLibs      \* RTLD_MAX_LIBS

\* `needs' are the DT_NEEDED entries, `defs' and `uses' the symbols that a file
\* defines and refers to, `tls' tells whether it has a PT_TLS segment and
\* `soname' whether it has a DT_SONAME.  A file that is needed may be missing.
SystemType(Symbols) ==
  [Files -> [needs : Seq(Files \cup {"missing"}), defs : SUBSET Symbols,
             uses : SUBSET Symbols, tls : BOOLEAN, soname : BOOLEAN]]

RtldAssumption == /\ Main \in Files /\ "missing" \notin Files
                  /\ MaxLibs \in Nat \ {0}

VARIABLES
  system,
  libs,        \* st->libs
  pc,          \* "load", "relocate", "init", or "run" outside of the loader
  stack,       \* the calls of rtld_load_needed: the library, its next entry
  first,       \* first_new, 1 at the start
  at,          \* the index in the loops over libs
  modules,     \* st->tls_mods: the library of each module
  dtv,         \* st->dtv without its slot 0; a slot holds a block or 0
  blocks,      \* how many blocks have been allocated; they are numbered
  told         \* the block each thread was last told is a module's

vars == <<system, libs, pc, stack, first, at, modules, dtv, blocks, told>>

Libs == 1 .. Len(libs)
FileOf(i) == system[libs[i].file]

\* A library is listed under its soname, or else under the path that was tried.
NewLib(f) == [file |-> f, name |-> IF system[f].soname THEN "soname" ELSE "path",
              modid |-> 0, bound |-> <<>>, relocated |-> FALSE, inits |-> 0]

Listed(f, name) == \E i \in Libs : libs[i].file = f /\ libs[i].name = name

Init == /\ system \in Systems
        /\ libs = <<[NewLib(Main) EXCEPT !.name = "main"]>>
        /\ pc = "load"
        /\ stack = <<[lib |-> 1, next |-> 1]>>
        /\ first = 1 /\ at = 1
        /\ modules = <<>> /\ dtv = <<>> /\ blocks = 0
        /\ told = [t \in Threads |-> [m \in 1 .. MaxLibs |-> 0]]

-----------------------------------------------------------------------------
\* Loading

Top == stack[Len(stack)]
Needs == FileOf(Top.lib).needs
Advanced == [stack EXCEPT ![Len(stack)].next = @ + 1]

\* An entry of DT_NEEDED: the file is listed, or there is no room for it, or it
\* is missing, which nobody is told; or it is loaded, and what it needs is next.
LoadNeeded ==
  /\ pc = "load" /\ stack # <<>>
  /\ Top.next <= Len(Needs)
  /\ LET f == Needs[Top.next]
         skip == Listed(f, "soname") \/ Len(libs) >= MaxLibs \/ f = "missing"
     IN  \/ skip /\ stack' = Advanced /\ UNCHANGED libs
         \/ /\ ~skip
            /\ libs' = Append(libs, NewLib(f))
            /\ stack' = Append(Advanced, [lib |-> Len(libs'), next |-> 1])
  /\ UNCHANGED <<system, pc, first, at, modules, dtv, blocks, told>>

LoadedNeeded ==
  /\ pc = "load" /\ stack # <<>>
  /\ Top.next > Len(Needs)
  /\ stack' = SubSeq(stack, 1, Len(stack) - 1)
  /\ UNCHANGED <<system, libs, pc, first, at, modules, dtv, blocks, told>>

\* rtld_dlopen with a path; of one that is listed it gives the handle, and
\* with a full table, or a file that is missing, it fails.
Dlopen(f) ==
  /\ pc = "run"
  /\ Len(libs) < MaxLibs
  /\ ~Listed(f, "path")
  /\ libs' = Append(libs, NewLib(f))
  /\ first' = Len(libs')
  /\ stack' = <<[lib |-> Len(libs'), next |-> 1]>>
  /\ pc' = "load"
  /\ UNCHANGED <<system, at, modules, dtv, blocks, told>>

-----------------------------------------------------------------------------
\* Thread-local storage

HasTls(i) == FileOf(i).tls
TlsLibs == {i \in Libs : HasTls(i)}

\* The number of a library's module, at the start: its place in the list among
\* those that have thread-local variables.
ModuleOf(i) == Cardinality({j \in TlsLibs : j <= i})

\* rtld_tls_setup and rtld_tls_build_dtv: each module has a block from the start.
SetupTls ==
  LET count == Cardinality(TlsLibs)
  IN  /\ pc = "load" /\ stack = <<>> /\ first = 1
      /\ modules' = [m \in 1 .. count |-> CHOOSE i \in TlsLibs : ModuleOf(i) = m]
      /\ libs' = [i \in Libs |->
                    IF HasTls(i) THEN [libs[i] EXCEPT !.modid = ModuleOf(i)]
                                 ELSE libs[i]]
      /\ dtv' = [m \in 1 .. count |-> m]
      /\ blocks' = count
      /\ pc' = "relocate" /\ at' = 1
      /\ UNCHANGED <<system, stack, first, told>>

\* Mutant: the slots are not copied when the vector grows.
GrownEmpty(m) == [i \in 1 .. m + 1 |-> 0]

\* The vector when there is a module m: m + 2 slots, if it has to grow, with
\* slot 0.
Grown(m) == IF m <= Len(dtv) THEN dtv
            ELSE [i \in 1 .. m + 1 |-> IF i <= Len(dtv) THEN dtv[i] ELSE 0]

\* The module of the library that is opened.  Those that come with it and have
\* thread-local variables as well get no number.
RegisterTls ==
  LET m == Len(modules) + 1
  IN  /\ pc = "load" /\ stack = <<>> /\ first > 1
      /\ \/ /\ HasTls(first)
            /\ modules' = Append(modules, first)
            /\ libs' = [libs EXCEPT ![first].modid = m]
            /\ dtv' = Grown(m)
         \/ /\ ~HasTls(first)
            /\ UNCHANGED <<modules, libs, dtv>>
      /\ pc' = "relocate" /\ at' = first
      /\ UNCHANGED <<system, stack, first, blocks, told>>

\* Program code runs, and the loader's state is known to it (g_st).
Running == pc = "run" \/ (pc = "init" /\ first > 1)

\* rtld_tls_get_addr: the vector is the primary thread's, whoever asks, and an
\* empty slot is filled with a new block (rtld_tls_lazy_alloc).
GetAddr(t, m) ==
  /\ Running
  /\ m \in DOMAIN modules
  /\ \/ /\ dtv[m] # 0
        /\ UNCHANGED <<dtv, blocks>>
     \/ /\ dtv[m] = 0
        /\ blocks' = blocks + 1
        /\ dtv' = [dtv EXCEPT ![m] = blocks']
  /\ told' = [told EXCEPT ![t][m] = dtv'[m]]
  /\ UNCHANGED <<system, libs, pc, stack, first, at, modules>>

-----------------------------------------------------------------------------
\* Relocation and initialisers

Definers(s) == {i \in Libs : s \in FileOf(i).defs}

\* Mutant: the search goes from the last library to the first.
FindLast(s) == IF Definers(s) = {} THEN 0
               ELSE CHOOSE i \in Definers(s) : \A j \in Definers(s) : j <= i

\* rtld_find_sym
Find(s) == IF Definers(s) = {} THEN 0
           ELSE CHOOSE i \in Definers(s) : \A j \in Definers(s) : i <= j

\* resolve_sym_value: a library's own definition goes before others.
Resolve(i, s) == IF s \in FileOf(i).defs THEN i ELSE Find(s)

Relocate ==
  /\ pc = "relocate" /\ at \in Libs
  /\ libs' = [libs EXCEPT ![at].relocated = TRUE,
                          ![at].bound = [s \in FileOf(at).uses |-> Resolve(at, s)]]
  /\ at' = at + 1
  /\ UNCHANGED <<system, pc, stack, first, modules, dtv, blocks, told>>

\* Mutant: the library that is opened is relocated, and no other.
RelocatedOpened ==
  /\ pc = "relocate" /\ (at > Len(libs) \/ (first > 1 /\ at > first))
  /\ pc' = "init" /\ at' = first
  /\ UNCHANGED <<system, libs, stack, first, modules, dtv, blocks, told>>

Relocated ==
  /\ pc = "relocate" /\ at > Len(libs)
  /\ pc' = "init" /\ at' = first
  /\ UNCHANGED <<system, libs, stack, first, modules, dtv, blocks, told>>

\* At the start, the main binary first and then the libraries as listed; in
\* rtld_dlopen, of the library that is opened only.
InitLib ==
  LET last == IF first = 1 THEN Len(libs) ELSE first
  IN  /\ pc = "init"
      /\ libs' = [libs EXCEPT ![at].inits = @ + 1]
      /\ at' = at + 1
      /\ pc' = IF at = last THEN "run" ELSE "init"
      /\ UNCHANGED <<system, stack, first, modules, dtv, blocks, told>>

Next == \/ LoadNeeded \/ LoadedNeeded \/ SetupTls \/ RegisterTls
        \/ Relocate \/ Relocated \/ InitLib
        \/ \E f \in Files \ {Main} : Dlopen(f)
        \/ \E t \in Threads, m \in 1 .. MaxLibs : GetAddr(t, m)

Spec == Init /\ [][Next]_vars

-----------------------------------------------------------------------------
\* Properties

\* A symbol that several libraries import means the same definition to all of
\* them, whether they were bound at the start or by a dlopen that came with
\* other definitions of it.
OneDefinition ==
  \A i, j \in Libs :
    \A s \in (DOMAIN libs[i].bound \cap DOMAIN libs[j].bound)
               \ (FileOf(i).defs \cup FileOf(j).defs) :
      libs[i].bound[s] # 0 /\ libs[j].bound[s] # 0
        => libs[i].bound[s] = libs[j].bound[s]

\* No code of the program, the initialisers included, runs while a library in
\* the list is not relocated; no initialiser runs twice.
RelocatedBeforeRun ==
  /\ pc \in {"init", "run"} => \A i \in Libs : libs[i].relocated
  /\ \A i \in Libs : libs[i].inits <= 1

\* A thread's block of a module stays where the thread was told it is, also
\* when a dlopen has to replace the vector.
BlocksStay ==
  [][\A t \in Threads, m \in 1 .. MaxLibs :
       told[t][m] # 0 => told'[t][m] = told[t][m]]_vars

\* `returns the current thread's address of the TLS variable in module mod':
\* two threads are never told the same block.
OwnStorage ==
  \A t, u \in Threads : \A m \in 1 .. MaxLibs :
    t # u /\ told[t][m] # 0 => told[t][m] # told[u][m]
==============================================================================
