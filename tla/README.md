# A verification of MeuOS-Kit

TLA+ specifications of parts of MeuOS-Kit, the TLC configurations that check
them and the TLAPS proofs about them. All paths below are relative to the root
of the repository.

## 1. The system

MeuOS-Kit is a set of freestanding C programs: a C library, a toolchain, a
compiler, a build tool, a shell, utilities, and formats for packages and
system images. They share no memory and run no common protocol; each is a
program or a library of its own, and they meet in files and processes. So each
component below is a separate system to verify.

| component | state | operations | interacts with | what is hard | what makes it correct |
|---|---|---|---|---|---|
| libc mutexes, `projects/meuos-libc/src/thread/mutex.c` | one futex word; plain `owner`, `count`, `type` | `mtx_init`, `lock`, `trylock`, `timedlock`, `unlock`, `destroy` | futex(2); condition variables, rwlocks, barriers, stdio sit on it | races on the unguarded fields, wakeups, timeouts, reuse | exclusion, only the holder unlocks and always can, no lost wakeup |
| libc condition variables, `condvar.c` | a 32-bit sequence | `cnd_wait`, `timedwait`, `signal`, `broadcast` | a mutex, futex(2) | a signal between unlock and sleep; timeout against signal | no signal lost, the mutex is held on return |
| libc `call_once`, `call_once.c` | a three-valued word | `call_once` | futex(2), the caller's function | callers that come while it runs | once, finished before any return, nobody left asleep |
| libc threads, `c11_threads.c`, `syscall/exit.c`, `arch/*/thread_clone.S` | control block, TLS area, stack per thread | `thrd_create`, `exit`, `join`, `sleep`, `yield` | clone(2), exit(2), futex(2), malloc, mmap, the control table | each failing step of creation; end against join; reuse of memory | join returns the right result, nothing leaks, nobody runs on freed memory |
| libc control table, `state.c` | 64 slots behind a spin guard | add, remove, find by tid | threads, TSS | tids and blocks used again | a running thread finds itself |
| libc TSS, `tss.c`, `state.c` | 32 keys, 256 values behind a spin guard | `tss_create`, `delete`, `get`, `set`, the destructor sweep | thread exit, tids | values left after four sweeps, deletion while set, full tables | a value is seen by its thread and key only, destructors run once per value |
| libc POSIX layer, `pthread.c` | rwlock, barrier, spin lock, cleanup stack | the pthread calls | mutexes, condition variables | spurious wakeups, starvation, non-atomic spin lock | exclusion of readers and writers; nobody passes a barrier early |
| libc allocator, `stdlib/malloc.c` | a list of blocks with headers, spin lock | `malloc`, `free`, `realloc`, `calloc` | sbrk | size arithmetic, the lock window of `realloc`, no memory | blocks are disjoint and inside the heap, data is kept, nothing is lost |
| libc TLS and dlfcn | templates, per-thread blocks, handles | allocate, free, `dlopen`... | threads, rtld | layout per architecture | each thread has its own block |
| libc process, environment, signals, popen | tables of exit functions, strings, pids | `atexit`, `setenv`, `system`, `popen`... | fork, exec, wait | a table at its limit; which wait reaps which child | exit order; statuses reach their owner |
| libc stdio, strings, math, regex, time, network | buffers | the C library | system calls | data conversion | functional correctness |
| meow engine, `projects/meow/src/engine/{graph,exec}.c` | targets with `visiting` and `done`, file times, lock files, children | walk, check times, lock, run, wait | the recipe parser, the shell, make-like children | parallel children with private flags; failures; two processes on one target | commands after their dependencies, no rebuild without need, no stale result |
| meow recipes, probes, packages | the target table | parse, import, query | the engine | text | the table says what the recipe says |
| msh jobs and traps, `projects/meuos-shell/src/exec/{job,trap}.c` | pending signal, job table | handlers, wait, run traps | kernel signals, children | a handler at any instruction | no trap is lost, no job forgotten |
| msh language | text, variables | lex, parse, expand | jobs | text | POSIX semantics |
| toolchain linker, archiver, rtld | symbols, archives, link maps | resolve, extract, relocate, load | ELF files | order and fixed points | every symbol has its one definition; initialisers after their dependencies |
| toolchain assembler, binary utilities | instructions, ELF structures | encode, print | files | tables | functional correctness |
| mcc | AST, IR | compile | files | optimisation | semantics preserved |
| compression, sysroot images, libtui, utilities, build tools, scripts | streams, file formats, screens | as named | files, terminal | data formats | round trips |

The components with concurrency, and so the ones tests reach least, are the
threads half of libc first, then meow's parallel walk and the shell's signals.
The tests of `projects/meuos-libc/test/threads.c` run each call once or twice
in one order. The specifications start there and go on in that order.

The hazards, with the line where each one bites and the properties that cover
it, are listed in `PROJECT.json`.

## 2. Plan

Written in this order; a module is checked before the next one is begun.

1. `Lock`: what a mutex promises. Done.
2. `CMutex`: `mutex.c`, shown to implement `Lock`. Done, proved.
3. `CondVar`: `condvar.c` over `Lock`. Done, proved.
4. `CallOnce`: `call_once.c`. Done, proved.
5. `ThreadLife`: `c11_threads.c`, the control table. Done, proved.
6. `Tss`: `tss.c` and the destructor sweep. Done, proved.
7. `RwLock`: read-write locks over what `CMutex` and `CondVar` establish. Done,
   proved.
8. `Barrier`: barriers, with the steps of `cnd_wait`. Done, proved.
9. `Malloc`: the list of blocks, first fit, `realloc`'s lock windows, and the
   size arithmetic with its width. Done, proved.
10. `BuildGraph`: meow's walk of the target graph, serial and with forked
    processes, the test of the times, the lock file, failing commands, kills,
    several invocations; and `Build`, what a build promises, which it
    implements. Done, proved.
11. `Shell`: msh's loop, job table, waits, pending trap, and what SIGCHLD
    interrupts. Done, proved.
12. `Rtld`: the dynamic loader, from the loading of what a program needs to
    initialisers and `dlopen`. Done, proved.
13. Proofs, of the safety of what is above. Done for every safety property that
    a run checks.

Abstract specifications: `Lock` is implemented by `CMutex` and used by `CondVar`
and `Barrier`. A specification of a condition variable between `CondVar` and
`RwLock` is worth stating (`RwLock` relies on it in prose today). `Build` is
implemented by `BuildGraph`. Extensions after that, if the code repays them: spin locks
and `pthread_create`/`pthread_exit`, popen's table of children, archive member
selection in `ld`.

## 3. The modules and the code

| module | models | what it is for |
|---|---|---|
| `Lock` | nothing in the code | the abstract mutex: `holder`, `depth` |
| `CMutex` | `mutex.c` | every access to the word and the fields is a step |
| `CMutex_proofs` | | theorems about `CMutex` |
| `CondVar`, `CondVar_proofs` | `condvar.c`, with `INSTANCE Lock` for the mutex | the waiter's three steps against the signaller's two; theorems |
| `CallOnce` | `call_once.c` | the once flag |
| `ThreadLife` | `c11_threads.c`, the table of `state.c`, `_exit`, `thread_clone.S` | life of a control block, TLS area, stack and slot |
| `Tss` | `tss.c`, `__meuos_tss_cleanup` of `state.c` | tables shared by all threads, against what each thread set |
| `RwLock` | `pthread_rwlock_*` in `pthread.c` | who is inside, who waits, and who is woken |
| `Barrier` | `pthread_barrier_wait`, with `condvar.c`'s steps and `INSTANCE Lock` | cycles that follow each other |
| `Malloc` | `stdlib/malloc.c`, `sbrk` of `syscall/brk.c` | where blocks lie, who owns them and what is in them |
| `Build` | nothing in the code | what a build promises: what each output is made from |
| `BuildGraph`, `BuildGraph_proofs` | `run_target`, `target_lock`, `target_out_of_date` of meow's `graph.c`, `run` of `exec.c` | calls, forked processes, commands, locks, kills; implements `Build`; theorems |
| `Shell`, `Shell_proofs` | `run_repl` of `main.c`, `job.c`, `trap.c`, what `parse.c` forks and waits for, what `lineedit.c` does on EINTR | one process against its children and signals; theorems |
| `Rtld` | `rtld.c` of the toolchain | what is loaded, numbered, relocated and initialised, and where thread-local variables are |
| `MCMemory`, `Memory_proofs` | | `Malloc` and `Rtld`, one of them in a behaviour; the files; theorems about both |
| `MCThreads`, `Threads_proofs` | | `ThreadLife` and `Tss`, one of them in a behaviour; theorems about both |
| `MCThreadObjects`, `ThreadObjects_proofs` | | `RwLock`, `CallOnce` and `Barrier`, one of them in a behaviour; theorems about the three |
| `MCBuildGraph` | | the recipes |
| other `MC...` | | constants for TLC |

`Barrier`, `Tss` and `Rtld` are instantiated by `MCThreadObjects`, `MCThreads` and
`MCMemory`, which have the constants of those modules as their own and state
their assumptions again.

### CMutex

`state`, `owner`, `count` and `kind` are the fields of `mtx_t`. `pc` is the
place of each thread in the code, `call` the locking function it is in,
`expired` whether the deadline of its `mtx_timedlock` has passed, and `depth`
what the *client* is owed: how many times it was told `thrd_success` less the
unlocks that were accepted. The properties are stated with `depth`, so they
speak of what callers see and not of the fields that implement it.

`mtx_trylock` is `TryOwner`, `TryBump`, `TryCas`, `SetOwner`, `SetCount`;
`mtx_lock` and `mtx_timedlock` go round it, with `FutexWait` (compare and
queue, one step of the kernel), `Interrupted` (EINTR), `ReadClock` and
`TimedOut`. `mtx_unlock` is `CheckOwner`, `Drop`, `ClearOwner`, `ClearCount`,
`StoreFree`, `Wake`. `owner` and `count` are plain ints that other threads read
while the holder writes them: on the machines the library supports an aligned
int is read whole, and as every access is a step the model has every
interleaving of them; it does not have reorderings by the compiler or of weakly
ordered memory. `Recycle` is `mtx_destroy` followed by `mtx_init`, as soon as a
correct client may do it, which is before the last unlocker's `FUTEX_WAKE`.

Clients do anything except locking a plain mutex they hold with `mtx_lock`,
which is a deadlock by definition.

### CondVar

The mutex steps are `Lock`'s, atomic; `CMutex` implements `Lock`, which is why
that is enough. Producers put an item and signal or broadcast, before or after
they unlock; consumers take one and wait while there is none, with or without
a deadline. `CarelessWait` waits without the mutex, which the code refuses.
`cnd_wait` is `Load`, `Release`, `FutexWait`, then `Interrupted` or `TimedOut`
or somebody's `WakeOne`/`WakeAll`, and `Relock`. FUTEX_WAIT returning ETIMEDOUT
and a wake are exclusive in the kernel: a thread already woken returns 0. Other errors
of FUTEX_WAIT, which make the wait return `thrd_error` (`condvar.c:98`), are left out.

### ThreadLife

`control` is the memory of control blocks by address, and `used`, `mapped`,
`tls` and `table` what is allocated. `malloc` and `mmap` give any free address,
including the one just given back. `thrd_create` is one action per resource and
one per failure; `clone` writes the tid before anyone goes on. A child is
`Return` or `ThrdExit`, `StoreResult`, `Publish` (`tid = 0`), `Wake`,
`CallExit`, `KernelExit`. `ClearTid` says whether the architecture passes
`CLONE_CHILD_CLEARTID`: x86_64, i386, aarch64 and loongarch64 do, riscv64 and
arm do not. A result is the name of the thread that returned it. One thread
creates and joins; the guard around the table makes each table function atomic.
`JoinRead` is the test of the tid and FUTEX_WAIT in one step (`c11_threads.c:90-93`),
as the kernel compares again before it sleeps. An exit that still runs on a stack which
another thread got meanwhile is taken to be harmless (`CallExit`), and the failure of
`arch_prctl` in the child (x86_64 `thread_clone.S:48-61`) is left out.

### Tss

`keys` and `table` are `tss_keys` and `tss_values`; `round`, `pos` and `called`
are the locals of the sweep. Each search under `tss_guard` is a step, and a
destructor is a place in which the thread is a client again. `last` records what
each thread set and was not taken from it, which is what C11 says `tss_get`
returns. `Start` gives a tid out again after its thread's end. `resets` counts
the values that destructors set: the sweep makes `TSS_DTOR_ITERATIONS` rounds,
so a thread whose destructors set that many may leave some. The properties then
say nothing of that tid any more, because a later thread does find them.

### RwLock

`readers` and `writer` are the fields, `place` where each thread is. The fields
are touched under the mutex only, so what happens between taking and leaving it
is one step. `cnd_signal` is given with the mutex held, which is why it wakes at
least one of those that wait; it may wake more, as every waiter that is still
between its unlock and FUTEX_WAIT finds the sequence moved. `Interrupted` is a
wait that ends without a signal.

### Barrier

As in `CondVar`, `Load`, `Release`, `FutexWait`, `Relock` are the steps of
`cnd_wait`, `Bump` and `WakeAll` those of `cnd_broadcast`. `trips` and `cycle`
record how often the barrier opened, and for which opening a thread came.
`interrupted` remembers an EINTR: `pthread_barrier_wait` does not loop, and after
one its promise is gone. That is the precondition of `NobodyPassesEarly`; with
a signal handler in the program the code does let a thread through.

### Malloc

`blocks` is the list from `allocation_head` on and `brk` the program break;
addresses and sizes are numbers, and sums and products are those of a word of
`Modulus` values (`Increment` is the conversion to `intptr_t`). `malloc` and
`free` hold the lock from their first look at the list on and are one step.
`realloc` is three: it looks at the old size (`ReallocKeeps`, `ReallocLooks`),
allocates (`ReallocMalloc`, `ReallocFails`), copies and gives back
(`ReallocCopies`). `held` are the pointers the program has and `content` whose
data is at each address; a pointer in a `realloc` belongs to that call, and
any thread may free any pointer of the program. A thread never frees a pointer
twice or uses it after that. With `Huge` FALSE the program asks for no block of
half of the address space or more, except where `malloc` itself refuses it.
Nobody else moves the break: a program that calls `brk` itself is left out, and so
is the loader, whose `rtld_alloc` moves it too (section 5).

### Build and BuildGraph

`Build` has four variables: the recipe, the `version` of each target's sources
and commands, what each output was made from (`content`, a set of pairs of a
target and a version), and the `result` of the last invocation. An output may be
made only while the outputs it reads are current, and success may be reported
only when everything wanted is.

In `BuildGraph` a call of `run_target` is a *frame*. It is named by its
invocation and by the path of targets that led to it, so that two processes that
reach one target are two frames; `at` is its place in the function, `todo` the
positions in its recipe of the dependencies it has still to start, `done` its process's copy of the `done`
flags, `failed` whether a child has failed. With `-j1` a frame is a recursive
call, with `-jN` a process (`Forking`). `Enter` is the head of `run_target`,
`Visit` and `ForkFails` the loop that forks, `Collect` waitpid, `Return` the end
of the recursive call, `DepsDone` what follows the loop, `TakeLock` and `Test`
the lock and the look at the times under it, `Start`, `Finish` and
`CommandFails` the `sh -c` that runs the commands, `Done` the rest. `cmds` is apart
from the frames because a command goes on when its meow is killed, and has
inherited the descriptor of the lock (`Freed`, `Release`). `Visiting` is the
`visiting` mark: in a forked process the marks of its ancestors are set, and in
a recursion those of its callers. `Kill` kills any meow process at any time;
`Invoke` starts the next one, which may meet children and commands of the last.
`version` and `content` are not in the program: they record what was read.

What it takes for granted. Files written one after the other have equal
modification times or growing ones, as the steps of the file system's clock will have
it: `Write` leaves `clock` or moves it on by one, up to `MaxLag` after the last change
of a source. A change of a source is later than every output there is (`Edit`); sources
are changed between builds, after the first one, and not while one runs. The commands
of a target are one command; it reads its sources and the outputs of the dependencies it lists
when it starts, writes its output when it ends, and leaves the output as it was
when it fails (`CleanFailures`). The lock file can be opened, and two targets do
not have the same djb2 hash. `abort` is `run_abort_on_fail` of the target's
commands, which the two parsers set differently. Downloads, patches, hooks,
installation, macros and the expansion of text are left out.

### Shell

`pc` is the place in the loop: `reap` (`msh_job_reap`, one entry of the table a
step, as handlers come in between), `check`, `clear` and `trap`
(`msh_trap_check`), `read`, `eval`, `add` (between the fork of a background job and
its entry), `wait` (a waitpid without WNOHANG), `end`. `table` is `g_jobs`,
`sigchld` and `pending` are the flags that handlers set, and `chld` is a SIGCHLD
that the kernel has not delivered. `Sigchld` and `Signal` are the handlers and
may run at every step. `caught` records the traps that were caught and have not
run. Lines are told apart by what they do to this state: a command, a pipeline of
two, a job, `fg N` (and `wait N`, the same function), `wait`, `trap`, `exit`.

`restart` is whether `signal()` asks for SA_RESTART. It is a variable without
steps, of two values in the run, because the shell is built for the hosts, where
it does, and over meuos-libc, where it does not (`signal.c:102`).
`Interrupted` is what a system call that fails with EINTR leads to in each place.
Traps are installed with SA_RESTART and so interrupt nothing. The command of a trap is
one that forks and waits for nothing; `trap.c:208` evaluates any.

The signals of the model are those that the line editor does not take for itself
(it has handlers of its own for TERM, HUP and QUIT). Traps of EXIT and ERR are
left out, and so are stopped jobs: no waitpid of the shell passes WUNTRACED, so
it never sees one. `waitpid` of a foreground command that a signal kills is a
command that ends.

### Rtld

`libs` is `st->libs`: the file of each entry, whether it is listed under its
soname or the path it was found at, its module number, what its imports were
bound to, whether it is relocated and how often its initialisers ran. The
loader is sequential; its steps are single because what it does depends on what
is listed at that moment. `stack` are the recursive calls of `rtld_load_needed`,
`first` is `first_new` of the `rtld_dlopen` on its way, 1 at the start. `LoadNeeded`
is an entry of DT_NEEDED, `LoadedNeeded` the return of a call, `SetupTls` the
numbering at the start, `RegisterTls` that of a `dlopen`, `Relocate` and `InitLib`
the two loops. `dtv` is the vector of blocks, `GetAddr` `rtld_tls_get_addr` with
the lazy allocation. `told` is not in the program: it is the block that a thread
was last told a module has.

`system` is what the files are; it is chosen at the start and does not change.
Libraries lie in `/lib`: the needed ones are asked for by soname and found under
the path, `dlopen` is given the path. One thread is in the loader at a time,
and no initialiser calls `dlopen`; the code has no lock. `rtld_dlsym`, which
changes nothing, and the failure of the loader's own allocator are left out.

## 4. The runs

A run is one question or several: `threads`, `objects` and `memory` each hold several
modules, and a behaviour chooses one of them at its start, so that the reachable
states are the sum and not the product. They say nothing of the modules together. The
allocator and the loader of `memory` share the program break, and each is checked as if
it had it to itself (section 5).
Types are not checked by the runs but proved.

| run | instance | checks |
|---|---|---|
| `mutex` | 3 threads, nesting to 2, fair | `MutualExclusion`, `UnlockObeysHolder`, `NoLostWakeup`, that `CMutex` implements `Lock`, `FreeMutexIsTaken`, `TimedlockReturns` |
| `condvar` | 2 producers, 3 consumers, 2 items, fair | `WaitReturnsHolding`, `NoLostSignal`, `ItemsReachSleepers` |
| `threads` | life: 2 threads, 3 blocks, 3 stacks, 2 slots, no CLEARTID; storage: 2 tids, 2 keys (`KeyCount`), 2 entries (`ValueCount`), 2 values, 2 rounds (`Iterations`); fair | `JoinGivesResult`, `NoLeak`, `RunningIsFound`, `JoinReturns`; `GetGivesLastSet`, `EndsClean`, `DestructorOncePerValue` |
| `threads_cleartid` | 2 of each, CLEARTID | `JoinGivesResult` fails |
| `objects` | 5 threads; a read-write lock, or a once flag, or a barrier for 2 that opens 3 times; fair | `ReadersWriterExclusion`, `FreeLockIsWatched`, `FreeLockIsTaken`; `OnceBeforeReturn`, `NobodyLeftAsleep`, `EveryCallReturns`; `NobodyPassesEarly`, `NobodyLeftBehind` |
| `memory` | allocator: 2 threads, a 6-bit word, a heap of 18 units, 6 sizes, 2 counts; loader: 4 files, 2 graphs, 1 symbol, a table of 5 | `BlocksInHeap`, `HeldAreGood`, `ContentKept`, `NothingLost`; `OneDefinition`, `RelocatedBeforeRun`, `BlocksStay` |
| `loader_threads` | the same files, 2 threads with thread-local variables | `OwnStorage` fails |
| `malloc_huge` | the allocator with a size of 58 of 63 | `BlocksInHeap` fails |
| `build` | 3 recipes of 4 targets, `-j1` and `-j2`, 2 invocations, at most one edit of each of 2 targets, at most one fault, fair | `OneBuilderAtATime`, `InputsSettled`, `NothingLeftBehind`, `SuccessMeansCurrent`, that `BuildGraph` implements `Build`, `BuildEnds` |
| `build_yaml` | a recipe in YAML, `-j1`, a fault | `SuccessMeansCurrent` fails |
| `shell` | both libcs, 2 entries, 3 processes, 2 signals, 2 lines that fork nothing, fair | `NoJobForgotten`, `TrapNotLost`, `PromptComesBack` |
| `shell_meuos` | the same over meuos-libc only | `FgWaits` fails |

Bounds, and why they are enough.

- *Threads of a mutex: 3.* The hard case is a wakeup that goes to one sleeper
  while another sleeps and a third thread takes the mutex; three threads have
  it. The safety properties are proved for any number.
- *`MaxDepth` = 2* nests once, so that an unlock both keeps and frees.
- *`MaxPuts` = 2, `SeqSize` = 3.* Two signals at a time, so that one can be
  spent while the other is on its way, and a sequence that wraps. `MaxPuts <
  SeqSize` is an assumption of the module: with 2^32 signals between a
  waiter's load and its wait the code does lose them.
- *Three consumers* let one wait, one time out and one arrive.
- *`Slots` = 2, three blocks and stacks*: a third `thrd_create` gets its block,
  TLS area and stack and then finds the table full. Two threads are enough for
  one to end while the other lives, and for the second to get the block and the
  stack of the first. `Children` are used once each, which bounds the run and is
  why it ends without an error: deadlock is not checked there because the parent
  may have nothing more to do.
- *Five callers of `call_once`*: one runs, one sleeps, one arrives, one calls
  again.
- *Two entries for two tids and two keys*, so that the table is full with half
  of what the threads may set, and a destructor competes for a free entry. Two
  rounds are the fewest with which a round can follow another.
- *Five threads at a read-write lock*: two readers, two writers that wait, and
  one that arrives.
- *Five threads at a barrier for two, three openings*: a cycle fills, twice, while
  threads of the last one are on their way out. The bound on openings ends the
  run, so deadlock is not checked.
- *Recipes of four targets*: a chain of three files, `prog` from `lib` from `gen`, the
  middle one reached by two processes and the last one listed twice, below a target
  for another machine; a target that is reached directly and through another, which
  has `parallel: 1`; and a cycle beside a target whose `when` fails. Three files in a
  row are the fewest in which an output that is written again can make a finished one
  out of date while a third target's commands read it. Two invocations let one be
  killed, or fail, or find all done, before the other; changes of `gen` and `prog`
  between them (`MaxEdits` = 1 of each) make outputs of one version meet sources of
  another; the one fault is a kill, a failing fork or a failing command, at any step.
  `-j2` is the least with two children at once. With `MaxLag` = 1 the outputs of a
  build have two times, an older and a newer, wherever in the build the clock moves:
  a test compares two times and no more.
- *A table of two jobs and three processes*: the third job finds the table full;
  a job can end while another is reaped. One trapped signal, sent twice: once to
  be read, and once more while it is.
- *A heap of 18 units, `Align` and `Header` 2.* It holds four blocks of the
  smallest size, or two with one that was outgrown, so that reuse by first fit,
  growth and the lack of memory all happen, in a `realloc` as well. Of the
  sizes, 0 and 3 are rounded up, 28 is refused by the kernel, 61 by the sum with
  the header and 63 by the rounding; 22 times 3 or 5 wraps.

- *Four files, a table of five.* Two of the libraries need each other, two define
  the symbol that all import, one need is missing; which files have a soname and
  which have thread-local variables is free, 128 systems for two graphs. Files
  without a soname are loaded again each time they are needed, until the table
  is full, which five entries are enough to see. After the start up to three
  `dlopen`s follow, each of which may extend the vector of blocks.

Fairness. A thread inside a call is scheduled (weak fairness of its next step),
and for `mtx_timedlock` time goes on. The function given to `call_once` and
thread functions return. In `RwLock` some woken thread
gets the mutex, which is what `FreeMutexIsTaken` gives and no more: which one is
not said. In `BuildGraph` some call of `run_target` that can go on does, and a
command does not run for ever (it is not assumed to succeed); no fault, edit or
invocation is owed. In `Shell` the process is scheduled, SIGCHLD is delivered and
commands end; nobody has to type. Nothing is assumed of clients (none has to call or to
unlock), of signal handlers, of deadlines in `CondVar`, or of the choice among sleepers
that FUTEX_WAKE makes.

Every property has a *mutant*: a definition changed as a slip in the code would
change it (a comparison dropped, an order swapped, a wake forgotten) with which
the same run finds the property violated. They stand in the modules above the
definition they alter and are listed in `PROJECT.json`; nothing else uses them.

## 5. What the checks found

- **The kernel's late write to a joined thread's block** (`threads_cleartid`).
  `__meuos_thread_finish` (`c11_threads.c:31`) stores `tid = 0` itself. The
  joiner may then free the control block while the ending thread is still on
  its way to exit(2), where the kernel writes 0 to the same address
  (`CLONE_CHILD_CLEARTID`). If `malloc` has meanwhile given the block to
  another `thrd_create`, that thread's tid becomes 0 while it runs: its
  `thrd_join` returns at once with result 0 and frees what it uses, and its
  `thrd_exit` cannot find the block. On architectures without the flag the
  property holds (`threads`). The same early store lets `thrd_join` unmap the stack
  (`c11_threads.c:100`) before the ending thread has made its last calls on it:
  `crashed` in `ThreadLife`, which `JoinReturns` excepts. The comments at
  `c11_threads.c:27-30` and `syscall/exit.c:11-13` speak of the exit as having
  happened.
- **Barriers and EINTR.** `pthread_barrier_wait` waits once (`pthread.c:287`); a
  wait that is interrupted lets its thread through and leaves its place in the
  count taken. No document of the library speaks of it, so it is a precondition
  (`~interrupted`) and not a run of its own.

- **Sizes that become negative** (`malloc_huge`). `malloc` tests that the sum of
  size and header fits a `size_t` and then converts it to `intptr_t`
  (`malloc.c:81`). From half of the address space on the increment is negative:
  `sbrk` lowers the break, if it is not near the start of the heap, and `malloc`
  returns a block at the old break, with the size that was asked for. The
  comment at `malloc.c:8-9` says that the allocator owns only memory obtained
  through `sbrk`.

- **A failing command of a YAML recipe is passed over** (`build_yaml`). The
  YAML parser leaves the flags of a command at 0 (`recipe/parse.c:328`), and
  without `run_abort_on_fail` `run_target` goes on (`graph.c:672`). The target
  counts as done and meow prints `built` and returns 0; the program does so when
  run on such a recipe. `meow.h:32` calls aborting the default.
- **A foreground wait is cut short** (`shell_meuos`). `msh_job_fg` makes one
  waitpid; where `signal()` does not ask for SA_RESTART the end of another job
  makes it fail, and `fg` returns 1 with the job running (`job.c:95`;
  `job.h:39` says that it waits). For the same reason a foreground command is
  given up (`parse.c:1380`), a line that is being typed is executed as far as it
  goes (`lineedit.c:214`), and a script on standard input ends there
  (`main.c:160`).

- **Threads share their thread-local variables under ld.so** (`loader_threads`).
  `rtld_tls_get_addr` (`rtld.c:1008`) uses the primary thread's vector whoever
  asks, and imports of `__tls_get_addr` are bound to it before libc's
  (`rtld.c:521-546`). `rtld.h:294-296` says that it `returns the current thread's
  address`.

Seen on the way, and not runs of their own:

- **Changed commands do not rebuild.** `graph.c:6-7` and `:25-26` announce a
  saved build state per target with the text of its commands.
  `check_buildstate` and `save_buildstate` exist and are never called: only
  times decide. With `EditKinds = {"recipe"}` the instance of `build` violates
  `SuccessMeansCurrent`: the build after the edit reports success over the
  output of the old commands.
- `parallel: 1` in a target takes no lock, so under `-jN` its commands may run
  twice at once if two other targets need it. `graph.c:648-651` presents the lock
  as a light precaution; `OneBuilderAtATime` exempts such targets (`Locked`), as
  well as builds with `-j1`.
- What is made from such a target is not safe either, although it is locked itself.
  Let `all` need `prog` and `lib`, `prog` need `lib`, `lib` need `gen`, and `gen` have
  `parallel: 1`. Under `-j2` two processes run `gen`'s commands. When the first is
  done `lib` is made, under its lock, and the commands of `prog` begin to read it.
  Then the second ends: `gen` is now newer than `lib` (`graph.c:786-844` compares
  nanoseconds), the process that looks at `lib` again under its lock finds it out of
  date, and writes it while `prog` reads. A `gen` left running by a killed `-j1` build
  does the same. So `InputsSettled` has the premise `Serialized`: no build so far was
  serial, and neither the file nor any below it has `parallel: 1`. With
  `parallel: 1` in `gen` of `Chain` the instance of `build` violates the property
  without that premise.
- The break has two owners. `rtld_alloc` (`rtld.c:79-91`) goes on from its own
  `heap_cur` and extends the break only where `heap_cur` lies beyond it; it does not
  see that `malloc`, through `sbrk` (`brk.c`), has moved the break meanwhile. What the
  loader allocates while the program runs (a block or a longer vector of
  thread-local variables, what a `dlopen` brings) then lies first in the rest of the
  page it began, and after that in `malloc`'s blocks. `malloc.c:8-9` says that the
  allocator owns memory obtained through `sbrk` only; it says nothing of others. The
  properties of `Malloc` and of `Rtld` are those of a program in which not both
  allocate after the start.
- A command that fails after it began to write its output leaves an output that
  the next build takes for good. With `CleanFailures = FALSE`
  `SuccessMeansCurrent` fails; no document promises otherwise.
- With `when` a recipe may leave out a file that another target needs. That file
  is then never made, whoever needs it is out of date for good
  (`target_out_of_date`, `graph.c`), and each process that reaches such a target runs
  its commands again, while another may be reading its output: `InputsSettled` fails
  for such recipes, and for those where the failure of a command that writes a file
  is ignored. The recipes of `build` have neither; the theorem has both as
  hypotheses (`InputsBuilt`, `Strict`).
- Two different signals before the shell looks: the second takes the only pending
  slot (`trap.c:83`).
- The job table never shrinks (announced in `job.h:6`); from the 65th job on
  nothing is entered and nothing is said.
- `timeout` of the utilities (`utils/sys/timeout.c:55`) sleeps for the whole
  duration: the end of the command does not interrupt its nanosleep, as SIGCHLD
  has no handler, so it always returns 124. It is sequential and has no module.
- The loader. A library that comes with a `dlopen` and has thread-local variables
  gets no module number (`rtld.c:1056` looks at the opened one only; the comment
  above and `rtld.h:226-227` speak of every one), so its accesses resolve to 0.
  Nor do its initialisers run (`rtld.c:1103`). A library with a DT_SONAME that is
  opened by its path is loaded again each time, as it is listed under the soname
  (`rtld.c:1041` announces otherwise). With a full table `dlopen` refuses libraries
  that are loaded as well (`rtld.c:1038`). While initialisers run at the start
  `g_st` is not set, and a thread-local variable is at 0. `init` and `dtv` of the
  state on `rtld_main`'s stack may be read before they are set.
- The array of pipes in `parse.c:1408` is allocated with `sizeof(int)` for pairs
  of ints; bare `trap S` frees the command and keeps the pointer
  (`trap.c:179`); `graph.c:72` uses `expand_path` before its declaration. These
  are slips of memory and language that the models abstract from.

## 6. What is proved

The theorems hold for every value of the constants that the assumptions allow:
any number of threads, processes, blocks, targets, jobs, signals, builds and
faults. They are in seven modules, and every one of them has the same shape: an
invariant, stronger than the property, that the steps preserve. What the
strengthening says is what makes the code work, so it is told here.

`CMutex_proofs` assumes that `NoThread` is not a thread (`ThreadsAssumption`)
and that `MaxDepth` is positive (`DepthAssumption`), nothing about how many
threads there are. `MutualExclusion`, `UnlockObeysHolder` and `NoLostWakeup`
are not inductive by themselves: that no other thread is owed the mutex when a
compare-and-swap succeeds follows only from how the fields look at each step of
the one thread that moved the word. The inductive invariant `IInv` says, for
each place in the code, what the fields are: `state` is 1 exactly when some
thread has the mutex (by `owner` or by its place between the
compare-and-swap and the store of 0), that thread is unique, `count` is
what its client is owed, and all other clients are owed nothing; besides, a free
mutex with sleepers has a thread about to wake or to try. It is shown initial
and preserved action by action, and gives the four invariants and the
refinement: the compare-and-swap maps to `Acquire`, the store of 0 to
`Release`, `TryBump` and `Drop` to `Reenter` and `Leave`, everything else to
stuttering.

`ThreadObjects_proofs` assumes a finite number of threads, of which `NoThread`
is none, and a positive count of the barrier.

- The read-write lock. `RwInv` says that the count is the number of readers and the
  flag is set while there is a writer, with the exclusion and the wakeup property
  themselves; the facts about cardinality come from `FiniteSetTheorems`. It is
  needed because the code decides by the fields, and the properties speak of
  the threads.
- The once flag. `OnceInv` ties the flag to the one thread between the
  compare-and-swap and the store, and the counters `started` and `finished` to
  that thread's place.
- The barrier. That nobody passes early is a matter of sleepers that are woken
  too soon, and of waiters of one cycle that compare with the sequence of another.
  `BarrierInv` says that the sequence counts the openings, but for the one whose
  thread has its bump still to do (`SequenceCounts`), and that whoever is before its
  FUTEX_WAIT compares with the sequence of its own cycle (`WaitersExpect`): so a
  thread whose barrier has opened meanwhile does not sleep. While a broadcast goes on,
  all that wait came before it (`BroadcastReachesAll`), because the mutex is held
  from the last arrival to the end of the broadcast (`HoldersInside`). The count is
  that of the waiters of the current cycle until a wait is interrupted
  (`WaitersCounted`); `NobodyLeftBehind` does not need it.

`CondVar_proofs` assumes finitely many producers and consumers, who are
different threads (`ClientsAssumption`, `FiniteAssumption`), and fewer signals than
the sequence has values (`SeqAssumption`): without the last one the property
is false. `NoLostSignal` speaks of sleepers, and what keeps it is said of
threads that do not sleep yet: a waiter that has loaded the sequence, under
the mutex, has seen no item then (`SeenNone`), so between its load and its
FUTEX_WAIT there can be no more items than signals after the number it has
(`LoadedBefore`), because each item's signal moves the sequence
(`SequenceCounts`). `WaitReturnsHolding` needs that a wait is left by `Relock` only
(`OutcomeOK`).

`Threads_proofs`. `NoLeak` holds on every architecture. Its invariant
`HoldInv` says exactly what is allocated at each step of `thrd_create` and
`thrd_join`, failing ones included. `JoinGivesResult` and `RunningIsFound` have
the hypothesis `ClearTid = FALSE`, without which the run `threads_cleartid` shows
that they fail; `JoinInv` then ties each thread that has not published its end to
its own block, and each that has to its result.

Of the storage it assumes what `Tss` does: that there is at least one round and
that NULL (`None`) is no thread, no value and no key. `GetIsLastSet` has two sides. That an
entry is not somebody else's needs that the table holds values of keys that exist only
(`EntriesOK`) and nothing of tids that are not in use (`NothingKept`), which is
what the sweep is for. So `SweepInv` counts its rounds: what is found behind the
sweep was set by a destructor of this round (`SetBehind`), a round that finds
anything comes after one that set something (`RoundsHaveCause`), and before its
first destructor a round leaves nothing behind (`NothingBehind`). A last round
that leaves something has then seen as many settings as there are rounds, which
the properties except. That a thread finds its own is `OneForEachKey`, kept as
`tss_set` looks for the entry before it takes a free one, and `EntriesHoldLast`.

`Memory_proofs`, of the allocator, assumes what `Malloc` does of the word, the header and the
heap's bounds, and has the hypothesis `Huge = FALSE`, without which `malloc_huge` is the
counterexample. `BlocksInHeap` is nearly inductive: the
invariant adds that what a `realloc` on its way wants was asked for. For the
others `OwnInv` says that the pointers of the program and those of the `realloc`s
on their way are at different blocks in use, large enough, that they are all of
those, and that the data which a `realloc` has still to copy are where they
were. It holds in the two windows of `realloc` because the old block stays in use
there, so no other call can be given it. `HeapTypes` adds that every block is
aligned, because header and rounded size are multiples of the alignment
(`AlignInv`). Facts about sequences come from `SequenceTheorems`.

Of the loader it assumes that the systems are made of files with needs,
definitions and thread-local variables (`LoaderAssumption`), nothing of how they
depend on each other. `OneDefinition` follows from `BoundOK`, that what an import was
bound to is what `rtld_find_sym` would find now: libraries are put at the end of
the list, and what is found is the first definition, so a later one does not
change it (`FindStays`). `RelocationOK` says how far the two loops have come,
and that what was there before `first_new` is relocated since an earlier call.
`ToldOK` says that the block of which a thread was told is in the vector, which
is never shorter than the list of modules.

`Shell_proofs`. `NoJobForgotten` is proved with the order of the table (`TableOK`: the
processes of the entries grow, so each has one entry) and with what is known of
the job that is forked and not entered yet (`AddOK`): if it has ended, its SIGCHLD
has not been looked at. `TrapsKept` has the hypothesis that one signal can be
trapped (`OneSignal`), which is what the single slot of `trap.c` can keep.
`FgWaitsWithRestart` is the action property that `shell_meuos` refutes for
meuos-libc, for those libcs whose `signal()` asks for SA_RESTART.

`BuildGraph_proofs` assumes that the root and what is edited are targets, that
`NoOne` is not a call, and that the number of invocations is bounded by some
number (`RecipeAssumption`, `EditedAssumption`, `NoOneAssumption`,
`BoundsAssumption`); the graph may have cycles.

- `TypeCorrect` rests on `TreeInv`. That a call is named by its path is only a name
  if no call is made twice, and `TodoOK` says why: of the positions that a call has
  still to start nothing was ever started (`StillToStart`), neither a call nor a
  command nor a lock of it being left, and two positions never name one target
  (`Uniques`, the first occurrences). The numbers have a least one (`Least`) by
  the library's theorem about sets, which replaces an induction.
- `CommandsSerialized`: `LockInv` ties the flock of a target to the one call or
  command between `target_lock` and its end that has the descriptor.
- `SuccessLeavesNothing`: a command or a call that lost its caller has a failure
  between itself and the root (`Doomed`, `WholeInv`), and `Failed` forgets none on
  the way up, so a root that ends well has nothing below it.
- `SuccessIsCurrent` and `EngineImplementsBuild` have three hypotheses: no command
  that writes a file may fail without ending its target (`Strict`, refuted by
  `build_yaml`), a command that fails leaves its output alone (`CleanFailures =
  TRUE`), and only sources are edited (`EditKinds`); section 5 tells what
  happens without each. `ContentInv` says that the times tell the truth (an output
  that is not out of date was made from what its inputs are now, `TimesTell`) and that
  there is a set `D` of targets, closed under dependency, whose outputs are of the
  current sources and which has in it all that any process believes to be done
  (`Current`, `Account`). The set is a witness and not a variable: each step says
  by how much it grows, and an edit starts it again from nothing; every output newer
  than the last edit is in it (`New`). It is what
  different processes, each with its own `done` flags, have in common. `ReachInv`
  adds that an output has only versions of targets it can be reached from, which
  makes `Promise!Current` of it. In the refinement `Finish` is the writing of an
  output, the end of the root the end of the build, and most other steps stutter.
- `InputsStay` has the hypotheses `Strict` and `InputsBuilt`, that no built target
  depends on a file which this machine does not build. Where all builds were parallel
  (`Forks`) `SettledInv` has such a set `D` again: those of its targets that are locked
  all the way down (`LockedBelow`) no command will find out of date any more, and nobody
  is at work on them. A call that is about to run a command, or runs it, has its target
  outside of `D`, as it found it out of date, and it is the only one, by its lock
  (`NobodyElse`); the targets it depends on are in `D`, as they were reported to it.
  An output may be newer than all others when it is written. Its target is not in `D`
  then, so no target in `D` depends on it, `D` being closed; and when it joins `D` it
  is no older than what it was made from (`WroteSettled`). Without a lock below, a
  target in `D` may be written, and the induction fails at the step at which the code
  does.

What this prover cannot do stays with TLC: all liveness (`FreeMutexIsTaken`,
`TimedlockReturns`, `ItemsReachSleepers`, `JoinReturns`, `FreeLockIsTaken`,
`EveryCallReturns`, `PromptComesBack`, `BuildEnds`), as it has no use for
fairness. Every invariant and every action property of a passing run is proved,
and so are both refinements, under the hypotheses named above. For four of these
(`ClearTid`, `Huge`, `Strict`, `restart`) a run that expects a violation shows what
happens without them.

`Rtld` numbers the modules by counting and not with `SelectSeq`, and `BuildGraph`
finds least positions by well-foundedness: recursive definitions, the library's
included, are beyond these provers, as they would need an induction whose
hypothesis is an operator.

## 7. What is not modelled

The 32-bit wrap of the condition's sequence inside a waiter's window (it takes
2^32 signals); `cnd_wait` with a recursive mutex that is held twice, which sleeps
with the mutex held (`condvar.c:53`, undefined for callers); the starvation of
writers by readers that overlap, which `pthread.c:229` allows; compiler and
memory-model reorderings of `owner` and `count`; several threads creating and
joining at once, and a join of a thread by two threads; `pthread_create` and its
relatives, which wrap `thrd_*` and a TSS key; the spin locks, which outside x86
test and set in two steps, as `pthread.c:318-319` says; the list of cleanup
handlers, which nothing reads; what of meow's engine and of the shell is named
above as left out, and what of the loader is;
`thrd_sleep`, `thrd_yield`, `thrd_equal`, which change no state. Components
without a module are in `PROJECT.json` with the reason: text processing and
data conversion for the most part, where a model would repeat the program, and
the compiler, whose correctness is about the meaning of programs.

The map covers a small part of the repository's lines, and more modules would
change that little: of some 194 thousand lines most are a compiler, assemblers and
disassemblers for seven machines, codecs, a hundred utilities and the tables and
text processing they consist of. They are sequential functions from input to
output. The parts with processes, threads, signals, locks and failures in the
middle come first, and those that were found are above; `ld`'s choice of archive
members is the candidate for a further module.
