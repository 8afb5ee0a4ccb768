------------------------------- MODULE Malloc --------------------------------
(***************************************************************************)
(* The allocator of meuos-libc, src/stdlib/malloc.c, on sbrk of            *)
(* src/syscall/brk.c: a list of blocks that only grows, newest first, with *)
(* first fit among those marked available.  Nothing is split, joined or    *)
(* given back to the system.  malloc and free hold allocation_lock from    *)
(* their first look at the list to their last, and are one step each;      *)
(* realloc takes the lock three times.                                     *)
(*                                                                         *)
(* Addresses and sizes are numbers below Modulus, in units of which a      *)
(* header takes Header and to which sizes are rounded up by Align.         *)
(***************************************************************************)
EXTENDS Integers, Sequences

CONSTANTS
  Threads,
  None,
  Modulus,      \* SIZE_MAX + 1
  Align,        \* 16
  Header,       \* sizeof(struct allocation): 32, or 16 on 32 bits
  StartBrk,     \* where the heap begins
  MaxBrk,       \* bound: how far the kernel lets it grow
  Sizes,        \* bound: the sizes that the program asks for
  Counts,       \* bound: the counts that it gives to calloc
  Huge          \* whether it asks for sizes that sbrk takes for negative

Half == Modulus \div 2

ASSUME WordAssumption ==
  /\ Modulus \in Nat /\ Half * 2 = Modulus
  /\ Align \in Nat \ {0} /\ Modulus % Align = 0
  /\ Header \in Nat \ {0} /\ Header % Align = 0 /\ Header < Half
ASSUME HeapAssumption ==
  StartBrk \in Nat /\ MaxBrk \in Nat /\ StartBrk <= MaxBrk /\ MaxBrk < Half
ASSUME RequestAssumption ==
  Sizes \subseteq 0..(Modulus - 1) /\ Counts \subseteq 0..(Modulus - 1)
  /\ Huge \in BOOLEAN

VARIABLES
  brk,          \* the program break
  blocks,       \* the list from allocation_head on: addr, size, available
  content,      \* by address of a block: whose data is in it
  held,         \* the pointers the program has: addr, size and data's owner
  pc,           \* where each thread is
  call          \* what a thread is reallocating

vars == <<brk, blocks, content, held, pc, call>>

NoCall == [addr |-> None, size |-> 0, tag |-> None, want |-> 0, new |-> None]

Init == /\ brk = StartBrk
        /\ blocks = <<>>
        /\ content = [a \in StartBrk..MaxBrk |-> None]
        /\ held = {}
        /\ pc = [t \in Threads |-> "idle"]
        /\ call = [t \in Threads |-> NoCall]

-----------------------------------------------------------------------------
(* The body of malloc *)

\* aligned_size: 0 when rounding up would pass SIZE_MAX
aligned_size(size) ==
  LET n == IF size = 0 THEN 1 ELSE size
  IN IF n > Modulus - Align THEN 0
                            ELSE ((n + Align - 1) \div Align) * Align

\* !size || size > SIZE_MAX - sizeof(*block)
Refused(n) == n = 0 \/ n > Modulus - 1 - Header

\* Mutant: the size of the header is forgotten.
IncrementBare(n) == IF n >= Half THEN n - Modulus ELSE n

\* (intptr_t)(sizeof(*block) + size)
Increment(n) ==
  IF Header + n >= Half THEN Header + n - Modulus ELSE Header + n

\* sbrk moves the break when the kernel lets it.
BreakAllowed(n) == brk + Increment(n) \in StartBrk..MaxBrk

\* find_available
Fits(n) == {i \in DOMAIN blocks : blocks[i].available /\ blocks[i].size >= n}

First(S) == CHOOSE i \in S : \A j \in S : i <= j

\* malloc returns the block at addr.
Reuse(n, addr) ==
  /\ ~Refused(n)
  /\ Fits(n) # {}
  /\ addr = blocks[First(Fits(n))].addr
  /\ blocks' = [blocks EXCEPT ![First(Fits(n))].available = FALSE]
  /\ UNCHANGED brk

Grow(n, addr) ==
  /\ ~Refused(n)
  /\ Fits(n) = {}
  /\ BreakAllowed(n)
  /\ addr = brk
  /\ brk' = brk + Increment(n)
  /\ blocks' = <<[addr |-> brk, size |-> n, available |-> FALSE]>> \o blocks

Allocate(n, addr) == Reuse(n, addr) \/ Grow(n, addr)

\* malloc returns 0.
Fails(n) == Refused(n) \/ (Fits(n) = {} /\ ~BreakAllowed(n))

\* What the program asks for.  With Huge FALSE, no size whose block takes
\* half of the address space or more, unless malloc's own tests refuse it.
Asked(size) ==
  Huge \/ Refused(aligned_size(size)) \/ Header + aligned_size(size) < Half

-----------------------------------------------------------------------------
(* The calls.  What a thread gets it fills with its data. *)

Give(t, addr, size, tag) ==
  /\ held' = held \cup {[addr |-> addr, size |-> size, tag |-> tag]}
  /\ content' = [content EXCEPT ![addr] = tag]

malloc(t, size) ==
  /\ pc[t] = "idle"
  /\ Asked(size)
  /\ \E addr \in StartBrk..MaxBrk :
       Allocate(aligned_size(size), addr) /\ Give(t, addr, size, t)
  /\ UNCHANGED <<pc, call>>

\* Mutant: the product may wrap.
callocWraps(t, count, size) ==
  /\ pc[t] = "idle"
  /\ Asked((count * size) % Modulus)
  /\ \E addr \in StartBrk..MaxBrk :
       /\ Allocate(aligned_size((count * size) % Modulus), addr)
       /\ Give(t, addr, count * size, t)
  /\ UNCHANGED <<pc, call>>

\* size && count > SIZE_MAX / size returns 0.
calloc(t, count, size) ==
  /\ pc[t] = "idle"
  /\ size # 0 => count <= (Modulus - 1) \div size
  /\ Asked(count * size)
  /\ \E addr \in StartBrk..MaxBrk :
       Allocate(aligned_size(count * size), addr) /\ Give(t, addr, count * size, t)
  /\ UNCHANGED <<pc, call>>

BlockAt(addr) == CHOOSE i \in DOMAIN blocks : blocks[i].addr = addr

\* free, also what realloc(pointer, 0) does
free(t, h) ==
  /\ pc[t] = "idle"
  /\ blocks' = [blocks EXCEPT ![BlockAt(h.addr)].available = TRUE]
  /\ held' = held \ {h}
  /\ UNCHANGED <<brk, content, pc, call>>

\* realloc looks at the old size, and keeps a block that is large enough.
ReallocKeeps(t, h, size) ==
  /\ pc[t] = "idle"
  /\ size # 0
  /\ size <= blocks[BlockAt(h.addr)].size
  /\ held' = (held \ {h}) \cup {[h EXCEPT !.size = size]}
  /\ UNCHANGED <<brk, blocks, content, pc, call>>

StartRealloc(t, h, size) ==
  /\ pc[t] = "idle"
  /\ size > blocks[BlockAt(h.addr)].size
  /\ Asked(size)
  /\ held' = held \ {h}
  /\ call' = [call EXCEPT ![t] = [addr |-> h.addr, size |-> h.size,
                                  tag |-> h.tag, want |-> size, new |-> None]]
  /\ pc' = [pc EXCEPT ![t] = "malloc"]

\* Mutant: the old block is freed before the new one is there.
ReallocFrees(t, h, size) ==
  /\ StartRealloc(t, h, size)
  /\ blocks' = [blocks EXCEPT ![BlockAt(h.addr)].available = TRUE]
  /\ UNCHANGED <<brk, content>>

ReallocLooks(t, h, size) ==
  /\ StartRealloc(t, h, size)
  /\ UNCHANGED <<brk, blocks, content>>

ReallocMalloc(t) ==
  /\ pc[t] = "malloc"
  /\ \E addr \in StartBrk..MaxBrk :
       /\ Allocate(aligned_size(call[t].want), addr)
       /\ call' = [call EXCEPT ![t].new = addr]
  /\ pc' = [pc EXCEPT ![t] = "copy"]
  /\ UNCHANGED <<content, held>>

\* Mutant: a realloc that fails takes the old block with it.
ReallocFailsForgets(t) ==
  /\ pc[t] = "malloc"
  /\ Fails(aligned_size(call[t].want))
  /\ call' = [call EXCEPT ![t] = NoCall]
  /\ pc' = [pc EXCEPT ![t] = "idle"]
  /\ UNCHANGED <<brk, blocks, content, held>>

\* Without memory realloc returns 0, and the old pointer stays good.
ReallocFails(t) ==
  /\ pc[t] = "malloc"
  /\ Fails(aligned_size(call[t].want))
  /\ held' = held \cup {[addr |-> call[t].addr, size |-> call[t].size,
                         tag |-> call[t].tag]}
  /\ call' = [call EXCEPT ![t] = NoCall]
  /\ pc' = [pc EXCEPT ![t] = "idle"]
  /\ UNCHANGED <<brk, blocks, content>>

\* memcpy, and the old block is marked available, under the lock
ReallocCopies(t) ==
  /\ pc[t] = "copy"
  /\ content' = [content EXCEPT ![call[t].new] = content[call[t].addr]]
  /\ blocks' = [blocks EXCEPT ![BlockAt(call[t].addr)].available = TRUE]
  /\ held' = held \cup {[addr |-> call[t].new, size |-> call[t].want,
                         tag |-> call[t].tag]}
  /\ call' = [call EXCEPT ![t] = NoCall]
  /\ pc' = [pc EXCEPT ![t] = "idle"]
  /\ UNCHANGED brk

-----------------------------------------------------------------------------

Next ==
  \E t \in Threads :
    \/ \E size \in Sizes :
         \/ malloc(t, size)
         \/ \E count \in Counts : calloc(t, count, size)
         \/ \E h \in held : ReallocKeeps(t, h, size) \/ ReallocLooks(t, h, size)
    \/ \E h \in held : free(t, h)
    \/ ReallocMalloc(t) \/ ReallocFails(t) \/ ReallocCopies(t)

Spec == Init /\ [][Next]_vars

-----------------------------------------------------------------------------
(* Properties *)

TypeOK ==
  /\ brk \in StartBrk..MaxBrk
  /\ \A i \in DOMAIN blocks :
       /\ blocks[i] \in [addr : StartBrk..MaxBrk, size : 1..(Modulus - 1),
                         available : BOOLEAN]
       /\ (blocks[i].addr - StartBrk) % Align = 0
  /\ content \in [StartBrk..MaxBrk -> Threads \cup {None}]
  /\ \A h \in held : h.addr \in StartBrk..MaxBrk /\ h.tag \in Threads
  /\ pc \in [Threads -> {"idle", "malloc", "copy"}]

\* Every block, header and all, lies in memory that sbrk gave, and no two
\* overlap.
BlocksInHeap ==
  \A i \in DOMAIN blocks :
    /\ blocks[i].addr >= StartBrk
    /\ blocks[i].addr + Header + blocks[i].size <= brk
    /\ \A j \in DOMAIN blocks :
         i < j => blocks[j].addr + Header + blocks[j].size <= blocks[i].addr

\* A pointer that the program has is its own, is at a block marked in use, and
\* is as large as the program was told, computed without wrapping.
HeldAreGood ==
  /\ \A h \in held :
       \E i \in DOMAIN blocks : /\ blocks[i].addr = h.addr
                                /\ ~blocks[i].available
                                /\ blocks[i].size >= h.size
  /\ \A h, k \in held : h.addr = k.addr => h = k

\* What was written through a pointer is still there, through any number of
\* calls of realloc and whatever other threads allocate and free meanwhile.
ContentKept == \A h \in held : content[h.addr] = h.tag

\* A block in use belongs to the program or to a realloc on its way, also when
\* that one finds no memory: nothing is lost.
NothingLost ==
  \A i \in DOMAIN blocks :
    ~blocks[i].available =>
      \/ \E h \in held : h.addr = blocks[i].addr
      \/ \E t \in Threads : blocks[i].addr \in {call[t].addr, call[t].new}
=============================================================================
