---------------------------- MODULE Memory_proofs ----------------------------
(***************************************************************************)
(* Theorems about the allocator, for every word size, header, alignment    *)
(* and pattern of calls, as long as no program asks for a block of half    *)
(* the address space: the heap stays in order, whoever has a pointer has a *)
(* block of its own with its data in it, and no block in use is lost.      *)
(*                                                                         *)
(* And about the dynamic loader, for every set of files: symbols that are  *)
(* imported mean one definition, code runs when all is relocated, and what *)
(* a thread was told of its thread-local variables stays so.               *)
(***************************************************************************)
EXTENDS MCMemory, SequenceTheorems, FiniteSetTheorems, WellFoundedInduction,
        TLAPS

-----------------------------------------------------------------------------
\* The allocator

Block == [addr : Nat, size : Nat, available : BOOLEAN]

\* What a realloc on its way wants was asked for.
WantedOK ==
  \A t \in Threads :
    pc[t] = "malloc" => call[t].want \in Nat /\ Asked(call[t].want)

IInv == /\ brk \in Nat /\ brk >= StartBrk
        /\ blocks \in Seq(Block)
        /\ DOMAIN pc = Threads /\ DOMAIN call = Threads
        /\ WantedOK
        /\ BlocksInHeap

-----------------------------------------------------------------------------

\* Marking a block changes neither where the blocks are nor how large.
LEMMA Marked ==
  ASSUME NEW q \in Seq(Block), NEW i, NEW v \in BOOLEAN
  PROVE  LET r == [q EXCEPT ![i].available = v]
         IN  /\ r \in Seq(Block) /\ DOMAIN r = DOMAIN q
             /\ \A j \in DOMAIN q : r[j].addr = q[j].addr /\ r[j].size = q[j].size
<1> DEFINE r == [q EXCEPT ![i].available = v]
<1>1. Len(q) \in Nat /\ q \in [1..Len(q) -> Block] /\ DOMAIN q = 1..Len(q)
  BY LenProperties
<1>2. DOMAIN r = DOMAIN q
  OBVIOUS
<1>3. ASSUME NEW j \in DOMAIN q
      PROVE  r[j] \in Block /\ r[j].addr = q[j].addr /\ r[j].size = q[j].size
  <2>1. q[j] \in Block
    BY <1>1
  <2>2. r[j] = IF j = i THEN [q[j] EXCEPT !.available = v] ELSE q[j]
    OBVIOUS
  <2> HIDE DEF r
  <2> QED
    BY <2>1, <2>2 DEF Block
<1> HIDE DEF r
<1>4. r \in [1..Len(q) -> Block]
  <2>1. r = [j \in DOMAIN r |-> r[j]]
    BY DEF r
  <2> QED
    BY <1>1, <1>2, <1>3, <2>1
<1>5. r \in Seq(Block)
  BY <1>1, <1>4, SeqDef
<1> QED
  BY <1>2, <1>3, <1>5 DEF r

\* Rounding up gives a size.
LEMMA AlignedIsSize ==
  ASSUME NEW s \in Nat PROVE aligned_size(s) \in Nat
<1> DEFINE n == IF s = 0 THEN 1 ELSE s
           q == (n + Align - 1) \div Align
<1>1. n + Align - 1 \in Nat /\ Align \in Nat \ {0}
  BY WordAssumption
<1>2. q \in Nat
  BY <1>1
<1>3. q * Align \in Nat
  <2> HIDE DEF q
  <2> QED BY <1>1, <1>2
<1> QED
  BY <1>3 DEF aligned_size

\* An allocation that was asked for moves the break by the block's size, and
\* puts the block between the old break and the new one.
LEMMA AllocateOrder ==
  ASSUME Huge = FALSE, IInv, NEW s \in Nat, Asked(s), NEW addr,
         Allocate(aligned_size(s), addr)
  PROVE  /\ brk' \in Nat /\ brk' >= StartBrk
         /\ blocks' \in Seq(Block)
         /\ BlocksInHeap'
<1> DEFINE n == aligned_size(s)
<1>1. n \in Nat
  BY AlignedIsSize
<1>2. brk \in Nat /\ brk >= StartBrk /\ blocks \in Seq(Block) /\ BlocksInHeap
  BY DEF IInv
<1>3. Header \in Nat /\ StartBrk \in Nat /\ Half \in Nat /\ Modulus \in Nat
  BY WordAssumption, HeapAssumption DEF Half
<1> HIDE DEF n
<1>4. CASE Reuse(n, addr)
  <2> DEFINE i == First(Fits(n))
  <2>1. blocks' = [blocks EXCEPT ![i].available = FALSE] /\ brk' = brk
    BY <1>4 DEF Reuse
  <2> HIDE DEF i
  <2>2. /\ blocks' \in Seq(Block) /\ DOMAIN blocks' = DOMAIN blocks
        /\ \A j \in DOMAIN blocks : /\ blocks'[j].addr = blocks[j].addr
                                    /\ blocks'[j].size = blocks[j].size
    BY <1>2, <2>1, Marked
  <2> QED
    BY <1>2, <2>1, <2>2 DEF BlocksInHeap
<1>5. CASE Grow(n, addr)
  <2> DEFINE b == [addr |-> brk, size |-> n, available |-> FALSE]
  <2>1. Increment(n) = Header + n
    BY <1>1, <1>3, <1>5 DEF Grow, Asked, Increment, n
  <2>2. brk' = brk + Header + n /\ blocks' = <<b>> \o blocks
    BY <1>1, <1>2, <1>3, <1>5, <2>1 DEF Grow
  <2>3. b \in Block /\ b.addr = brk /\ b.size = n
    BY <1>1, <1>2 DEF Block
  <2> HIDE DEF b
  <2>0. <<b>> \in Seq(Block) /\ Len(<<b>>) = 1 /\ <<b>>[1] = b
    BY <2>3
  <2>4. /\ blocks' \in Seq(Block) /\ Len(blocks') = 1 + Len(blocks)
        /\ \A j \in 1..(1 + Len(blocks)) :
             blocks'[j] = IF j <= 1 THEN <<b>>[j] ELSE blocks[j - 1]
    BY <1>2, <2>0, <2>2, ConcatProperties
  <2>5. /\ DOMAIN blocks = 1..Len(blocks) /\ Len(blocks) \in Nat
        /\ DOMAIN blocks' = 1..(Len(blocks) + 1)
        /\ blocks'[1] = b
        /\ \A j \in 2..(Len(blocks) + 1) :
             j - 1 \in DOMAIN blocks /\ blocks'[j] = blocks[j - 1]
    BY <1>2, <2>0, <2>4, LenProperties
  <2>6. \A j \in DOMAIN blocks : blocks[j].addr \in Nat /\ blocks[j].size \in Nat
    <3>1. \A j \in DOMAIN blocks : blocks[j] \in Block
      BY <1>2, LenProperties
    <3> QED
      BY <3>1 DEF Block
  <2>7. ASSUME NEW j \in DOMAIN blocks'
        PROVE  /\ blocks'[j].addr >= StartBrk
               /\ blocks'[j].addr + Header + blocks'[j].size <= brk'
               /\ \A k \in DOMAIN blocks' :
                    j < k => blocks'[k].addr + Header + blocks'[k].size
                               <= blocks'[j].addr
    <3>1. CASE j = 1
      <4>1. ASSUME NEW k \in DOMAIN blocks', j < k
            PROVE  blocks'[k].addr + Header + blocks'[k].size <= blocks'[j].addr
        <5>1. k - 1 \in DOMAIN blocks /\ blocks'[k] = blocks[k - 1]
          BY <2>5, <3>1, <4>1
        <5> QED
          BY <1>2, <2>3, <2>5, <3>1, <5>1 DEF BlocksInHeap
      <4> QED
        BY <1>1, <1>2, <1>3, <2>2, <2>3, <2>5, <3>1, <4>1
    <3>2. CASE j # 1
      <4>1. j - 1 \in DOMAIN blocks /\ blocks'[j] = blocks[j - 1]
        BY <2>5, <3>2
      <4>2. ASSUME NEW k \in DOMAIN blocks', j < k
            PROVE  blocks'[k].addr + Header + blocks'[k].size <= blocks'[j].addr
        <5>1. k - 1 \in DOMAIN blocks /\ blocks'[k] = blocks[k - 1]
              /\ j - 1 < k - 1
          BY <2>5, <4>2
        <5> QED
          BY <1>2, <4>1, <5>1 DEF BlocksInHeap
      <4>3. /\ blocks[j - 1].addr >= StartBrk
            /\ blocks[j - 1].addr + Header + blocks[j - 1].size <= brk
        BY <1>2, <4>1 DEF BlocksInHeap
      <4>4. blocks[j - 1].addr + Header + blocks[j - 1].size \in Nat
        BY <1>3, <2>6, <4>1
      <4> QED
        BY <1>1, <1>2, <1>3, <2>2, <4>1, <4>2, <4>3, <4>4
    <3> QED
      BY <3>1, <3>2
  <2>8. BlocksInHeap'
    BY <2>7 DEF BlocksInHeap
  <2> QED
    BY <1>1, <1>2, <1>3, <2>2, <2>4, <2>8
<1> QED
  BY <1>4, <1>5 DEF Allocate, n

\* Marking a block leaves the order of the heap alone.
LEMMA MarkOrder ==
  ASSUME IInv, NEW i, blocks' = [blocks EXCEPT ![i].available = TRUE],
         UNCHANGED brk
  PROVE  blocks' \in Seq(Block) /\ BlocksInHeap'
<1>1. blocks \in Seq(Block) /\ BlocksInHeap
  BY DEF IInv
<1>2. /\ blocks' \in Seq(Block) /\ DOMAIN blocks' = DOMAIN blocks
      /\ \A j \in DOMAIN blocks : /\ blocks'[j].addr = blocks[j].addr
                                  /\ blocks'[j].size = blocks[j].size
  BY <1>1, Marked
<1> QED
  BY <1>1, <1>2 DEF BlocksInHeap
-----------------------------------------------------------------------------

LEMMA InitIInv == Init => IInv
<1> SUFFICES ASSUME Init PROVE IInv
  OBVIOUS
<1>1. blocks = <<>> /\ blocks \in Seq(Block) /\ DOMAIN blocks = {}
  BY DEF Init
<1>2. brk \in Nat /\ brk >= StartBrk
  BY HeapAssumption DEF Init
<1> QED
  BY <1>1, <1>2 DEF Init, IInv, WantedOK, BlocksInHeap

\* What the program may ask for is a size.
LEMMA SizesAreNat ==
  /\ \A size \in Sizes : size \in Nat
  /\ \A count \in Counts : \A size \in Sizes : count * size \in Nat
<1>1. Modulus \in Nat
  BY WordAssumption
<1>2. (\A size \in Sizes : size \in Nat) /\ (\A count \in Counts : count \in Nat)
  BY <1>1, RequestAssumption
<1> QED
  BY <1>2

\* Each of the calls of the program keeps the invariant.
LEMMA NextIInv == ASSUME Huge = FALSE PROVE IInv /\ [Next]_vars => IInv'
<1> SUFFICES ASSUME IInv, [Next]_vars PROVE IInv'
  OBVIOUS
<1>0. DOMAIN pc = Threads /\ DOMAIN call = Threads /\ WantedOK
  BY DEF IInv
<1>1. CASE UNCHANGED vars
  BY <1>1 DEF vars, IInv, WantedOK, BlocksInHeap
<1>2. ASSUME NEW t \in Threads, NEW size \in Sizes, malloc(t, size)
      PROVE  IInv'
  <2>1. Asked(size) /\ UNCHANGED <<pc, call>>
    BY <1>2 DEF malloc
  <2>2. PICK addr : Allocate(aligned_size(size), addr)
    BY <1>2 DEF malloc
  <2>3. brk' \in Nat /\ brk' >= StartBrk /\ blocks' \in Seq(Block) /\ BlocksInHeap'
    BY <2>1, <2>2, AllocateOrder, SizesAreNat
  <2> QED
    BY <1>0, <2>1, <2>3 DEF IInv, WantedOK
<1>3. ASSUME NEW t \in Threads, NEW size \in Sizes, NEW count \in Counts,
             calloc(t, count, size)
      PROVE  IInv'
  <2>1. Asked(count * size) /\ UNCHANGED <<pc, call>>
    BY <1>3 DEF calloc
  <2>2. PICK addr : Allocate(aligned_size(count * size), addr)
    BY <1>3 DEF calloc
  <2>3. brk' \in Nat /\ brk' >= StartBrk /\ blocks' \in Seq(Block) /\ BlocksInHeap'
    BY <2>1, <2>2, AllocateOrder, SizesAreNat
  <2> QED
    BY <1>0, <2>1, <2>3 DEF IInv, WantedOK
<1>4. ASSUME NEW t \in Threads, NEW size \in Sizes, NEW h \in held,
             ReallocKeeps(t, h, size)
      PROVE  IInv'
  BY <1>4 DEF ReallocKeeps, IInv, WantedOK, BlocksInHeap
<1>5. ASSUME NEW t \in Threads, NEW size \in Sizes, NEW h \in held,
             ReallocLooks(t, h, size)
      PROVE  IInv'
  <2>1. /\ Asked(size) /\ UNCHANGED <<brk, blocks>>
        /\ pc' = [pc EXCEPT ![t] = "malloc"]
        /\ call' = [call EXCEPT ![t] = [addr |-> h.addr, size |-> h.size,
                                        tag |-> h.tag, want |-> size,
                                        new |-> None]]
    BY <1>5 DEF ReallocLooks, StartRealloc
  <2>2. WantedOK'
    <3> SUFFICES ASSUME NEW u \in Threads, pc'[u] = "malloc"
                 PROVE  call'[u].want \in Nat /\ Asked(call'[u].want)
      BY DEF WantedOK, Asked
    <3>1. CASE u = t
      BY <1>0, <2>1, <3>1, SizesAreNat
    <3>2. CASE u # t
      BY <1>0, <2>1, <3>2 DEF WantedOK
    <3> QED
      BY <3>1, <3>2
  <2> QED
    BY <1>0, <2>1, <2>2 DEF IInv, BlocksInHeap
<1>6. ASSUME NEW t \in Threads, NEW h \in held, free(t, h)
      PROVE  IInv'
  <2>1. /\ UNCHANGED <<brk, pc, call>>
        /\ blocks' = [blocks EXCEPT ![BlockAt(h.addr)].available = TRUE]
    BY <1>6 DEF free
  <2>2. blocks' \in Seq(Block) /\ BlocksInHeap'
    BY <2>1, MarkOrder
  <2> QED
    BY <1>0, <2>1, <2>2 DEF IInv, WantedOK
<1>7. ASSUME NEW t \in Threads, ReallocMalloc(t)
      PROVE  IInv'
  <2>1. PICK addr : /\ Allocate(aligned_size(call[t].want), addr)
                    /\ call' = [call EXCEPT ![t].new = addr]
    BY <1>7 DEF ReallocMalloc
  <2>2. pc[t] = "malloc" /\ pc' = [pc EXCEPT ![t] = "copy"]
    BY <1>7 DEF ReallocMalloc
  <2>3. call[t].want \in Nat /\ Asked(call[t].want)
    BY <1>0, <2>2 DEF WantedOK
  <2>4. brk' \in Nat /\ brk' >= StartBrk /\ blocks' \in Seq(Block) /\ BlocksInHeap'
    BY <2>1, <2>3, AllocateOrder
  <2>5. WantedOK'
    <3> SUFFICES ASSUME NEW u \in Threads, pc'[u] = "malloc"
                 PROVE  call'[u].want \in Nat /\ Asked(call'[u].want)
      BY DEF WantedOK, Asked
    <3> QED
      BY <1>0, <2>1, <2>2 DEF WantedOK
  <2> QED
    BY <1>0, <2>1, <2>2, <2>4, <2>5 DEF IInv
<1>8. ASSUME NEW t \in Threads, ReallocFails(t)
      PROVE  IInv'
  <2>1. /\ UNCHANGED <<brk, blocks>>
        /\ pc' = [pc EXCEPT ![t] = "idle"] /\ call' = [call EXCEPT ![t] = NoCall]
    BY <1>8 DEF ReallocFails
  <2>2. WantedOK'
    BY <1>0, <2>1 DEF WantedOK, Asked
  <2> QED
    BY <1>0, <2>1, <2>2 DEF IInv, BlocksInHeap
<1>9. ASSUME NEW t \in Threads, ReallocCopies(t)
      PROVE  IInv'
  <2>1. /\ UNCHANGED brk
        /\ blocks' = [blocks EXCEPT ![BlockAt(call[t].addr)].available = TRUE]
        /\ pc' = [pc EXCEPT ![t] = "idle"] /\ call' = [call EXCEPT ![t] = NoCall]
    BY <1>9 DEF ReallocCopies
  <2>2. blocks' \in Seq(Block) /\ BlocksInHeap'
    BY <2>1, MarkOrder
  <2>3. WantedOK'
    BY <1>0, <2>1 DEF WantedOK, Asked
  <2> QED
    BY <1>0, <2>1, <2>2, <2>3 DEF IInv
<1> QED
  BY <1>1, <1>2, <1>3, <1>4, <1>5, <1>6, <1>7, <1>8, <1>9 DEF Next

-----------------------------------------------------------------------------

\* malloc.c: as long as no size of half the address space is asked for, every
\* block that malloc made lies in memory that sbrk gave, and none reaches into
\* the next.
THEOREM HeapInOrder == ASSUME Huge = FALSE PROVE Spec => []BlocksInHeap
<1>1. IInv => BlocksInHeap
  BY DEF IInv
<1> QED
  BY <1>1, InitIInv, NextIInv, PTL DEF Spec

-----------------------------------------------------------------------------
(* Who has which block *)

\* The blocks in use
InUse == {blocks[i] : i \in {j \in DOMAIN blocks : ~blocks[j].available}}

\* The threads in realloc, and those of them that have their new block
Busy == {t \in Threads : pc[t] \in {"malloc", "copy"}}
Copying == {t \in Threads : pc[t] = "copy"}

Places == StartBrk..MaxBrk

ValuesOK ==
  /\ content \in [Places -> Threads \cup {None}]
  /\ held \subseteq [addr : Places, size : Nat, tag : Threads]
  /\ pc \in [Threads -> {"idle", "malloc", "copy"}]
  /\ call \in [Threads -> [addr : Places \cup {None}, size : Nat,
                           tag : Threads \cup {None}, want : Nat,
                           new : Places \cup {None}]]
  /\ \A t \in Busy : call[t].addr \in Places /\ call[t].tag \in Threads
  /\ \A t \in Copying : call[t].new \in Places

\* Whoever has a pointer has a block in use that is large enough.
HaveBlocks ==
  /\ \A h \in held : \E b \in InUse : b.addr = h.addr /\ b.size >= h.size
  /\ \A t \in Busy :
       \E b \in InUse : b.addr = call[t].addr /\ b.size >= call[t].size
  /\ \A t \in Copying :
       \E b \in InUse : b.addr = call[t].new /\ b.size >= call[t].want

\* No two have the same.
Apart ==
  /\ \A h, k \in held : h.addr = k.addr => h = k
  /\ \A h \in held : /\ \A t \in Busy : h.addr # call[t].addr
                     /\ \A t \in Copying : h.addr # call[t].new
  /\ \A t, u \in Busy : call[t].addr = call[u].addr => t = u
  /\ \A t \in Copying : \A u \in Busy : call[t].new # call[u].addr
  /\ \A t, u \in Copying : call[t].new = call[u].new => t = u

\* The data are where they were written, also those that realloc is to copy.
DataKept ==
  /\ ContentKept
  /\ \A t \in Busy : content[call[t].addr] = call[t].tag

\* Every block in use is somebody's.
AllOwned ==
  \A b \in InUse :
    \/ \E h \in held : h.addr = b.addr
    \/ \E t \in Busy : call[t].addr = b.addr
    \/ \E t \in Copying : call[t].new = b.addr

OwnInv == IInv /\ ValuesOK /\ HaveBlocks /\ Apart /\ DataKept /\ AllOwned

\* A set of numbers that is not empty has a least one.
LEMMA Least ==
  ASSUME NEW T, T \subseteq Nat, T # {}
  PROVE  \E x \in T : \A y \in T : x <= y
<1>1. \E r : IsWellFoundedOn(r, Nat) /\ \A x, y \in Nat : x < y => <<x, y>> \in r
  <2>1. \A x, y \in Nat : x < y => <<x, y>> \in OpToRel(<, Nat)
    BY DEF OpToRel
  <2> QED
    BY <2>1, NatLessThanWellFounded
<1>2. PICK r : IsWellFoundedOn(r, Nat) /\ \A x, y \in Nat : x < y => <<x, y>> \in r
  BY <1>1
<1>3. \E x \in T : \A y \in T : ~(<<y, x>> \in r)
  <2>1. IsWellFoundedOn(r, Nat)
    BY <1>2
  <2> QED
    BY <2>1, WFMin, ZenonT(60)
<1>4. PICK x \in T : \A y \in T : ~(<<y, x>> \in r)
  BY <1>3
<1>5. \A y \in T : ~(y < x)
  BY <1>2, <1>4
<1> QED
  BY <1>5

\* find_available finds one of the blocks that fit.
LEMMA FirstFits ==
  ASSUME blocks \in Seq(Block), NEW n, Fits(n) # {}
  PROVE  First(Fits(n)) \in Fits(n)
<1>1. Fits(n) \subseteq Nat
  BY LenProperties DEF Fits
<1>2. \E i \in Fits(n) : \A j \in Fits(n) : i <= j
  BY <1>1, Least
<1> QED
  BY <1>2 DEF First

\* Rounding up gives no less than what is asked for, unless it is refused.
LEMMA AlignedIsEnough ==
  ASSUME NEW s \in Nat, ~Refused(aligned_size(s))
  PROVE  aligned_size(s) >= s
<1> DEFINE n == IF s = 0 THEN 1 ELSE s
<1>1. n \in Nat /\ n >= s
  OBVIOUS
<1>2. aligned_size(s) = ((n + Align - 1) \div Align) * Align
  BY DEF Refused, aligned_size
<1>3. Align \in Nat \ {0}
  BY WordAssumption
<1> HIDE DEF n
<1>4. ((n + Align - 1) \div Align) * Align >= n
  BY <1>1, <1>3
<1>5. ((n + Align - 1) \div Align) * Align \in Int
  BY <1>1, <1>3
<1> QED
  BY <1>1, <1>2, <1>4, <1>5

\* Each block has an address of its own, below the break.
LEMMA BlocksDiffer ==
  ASSUME IInv
  PROVE  /\ \A i \in DOMAIN blocks : /\ blocks[i] \in Block
                                     /\ blocks[i].addr < brk
         /\ \A i, j \in DOMAIN blocks : blocks[i].addr = blocks[j].addr => i = j
<1>1. /\ blocks \in Seq(Block) /\ BlocksInHeap
      /\ Header \in Nat \ {0} /\ brk \in Nat
  BY WordAssumption DEF IInv
<1>2. \A i \in DOMAIN blocks : blocks[i] \in Block
  BY <1>1, LenProperties, ElementOfSeq
<1>3. \A i \in DOMAIN blocks : blocks[i].addr \in Nat /\ blocks[i].size \in Nat
  BY <1>2 DEF Block
<1>4. \A i \in DOMAIN blocks : blocks[i].addr < brk
  BY <1>1, <1>3 DEF BlocksInHeap
<1>5. \A i, j \in DOMAIN blocks : i < j => blocks[j].addr < blocks[i].addr
  BY <1>1, <1>3 DEF BlocksInHeap
<1>6. \A i, j \in DOMAIN blocks : blocks[i].addr = blocks[j].addr => i = j
  <2>1. \A i, j \in DOMAIN blocks : i \in Nat /\ j \in Nat
    BY <1>1, LenProperties
  <2> QED
    BY <1>3, <1>5, <2>1
<1> QED
  BY <1>2, <1>4, <1>6

\* An allocation brings a block into use that was nobody's.
LEMMA AllocateUses ==
  ASSUME IInv, NEW s \in Nat, NEW addr, Allocate(aligned_size(s), addr)
  PROVE  \E b : /\ InUse' = InUse \cup {b}
                /\ b.addr = addr /\ b.size \in Nat /\ b.size >= s
                /\ \A c \in InUse : c.addr # addr
<1> DEFINE n == aligned_size(s)
<1>1. /\ blocks \in Seq(Block) /\ n \in Nat /\ n >= s
      /\ \A i \in DOMAIN blocks : blocks[i] \in Block /\ blocks[i].addr < brk
      /\ \A i, j \in DOMAIN blocks : blocks[i].addr = blocks[j].addr => i = j
  BY AlignedIsSize, AlignedIsEnough, BlocksDiffer DEF IInv, Allocate, Reuse, Grow
<1> HIDE DEF n
<1>2. CASE Reuse(n, addr)
  <2> DEFINE i == First(Fits(n))
             b == [blocks[i] EXCEPT !.available = FALSE]
  <2>1. /\ i \in DOMAIN blocks /\ blocks[i].available /\ blocks[i].size >= n
        /\ addr = blocks[i].addr
        /\ blocks' = [blocks EXCEPT ![i] = b]
    BY <1>1, <1>2, FirstFits DEF Reuse, Fits
  <2> HIDE DEF i
  <2>2. /\ b.addr = addr /\ b.size = blocks[i].size /\ b.available = FALSE
        /\ b.size \in Nat /\ b.size >= s
    BY <1>1, <2>1 DEF Block
  <2> HIDE DEF b
  <2>3. InUse' = InUse \cup {b}
    <3>1. DOMAIN blocks' = DOMAIN blocks
          /\ \A j \in DOMAIN blocks : blocks'[j] = IF j = i THEN b ELSE blocks[j]
      BY <2>1
    <3> QED
      BY <2>1, <2>2, <3>1 DEF InUse
  <2>4. \A c \in InUse : c.addr # addr
    BY <1>1, <2>1 DEF InUse
  <2> QED
    BY <2>2, <2>3, <2>4
<1>3. CASE Grow(n, addr)
  <2> DEFINE b == [addr |-> brk, size |-> n, available |-> FALSE]
  <2>1. blocks' = <<b>> \o blocks /\ addr = brk /\ brk \in Nat
    BY <1>3 DEF Grow, IInv
  <2>2. /\ b \in Block /\ b.addr = addr /\ b.size = n /\ b.available = FALSE
        /\ b.size \in Nat /\ b.size >= s
    BY <1>1, <2>1 DEF Block
  <2> HIDE DEF b
  <2>3. /\ DOMAIN blocks = 1..Len(blocks) /\ Len(blocks) \in Nat
        /\ DOMAIN blocks' = 1..(Len(blocks) + 1)
        /\ \A j \in DOMAIN blocks' :
             blocks'[j] = IF j = 1 THEN b ELSE blocks[j - 1]
    <3>1. <<b>> \in Seq(Block) /\ Len(<<b>>) = 1 /\ <<b>>[1] = b
      BY <2>2
    <3>2. /\ blocks' \in Seq(Block) /\ Len(blocks') = 1 + Len(blocks)
          /\ \A j \in 1..(1 + Len(blocks)) :
               blocks'[j] = IF j <= 1 THEN <<b>>[j] ELSE blocks[j - 1]
      BY <1>1, <2>1, <3>1, ConcatProperties
    <3> QED
      BY <1>1, <3>1, <3>2, LenProperties
  <2>4. InUse' = InUse \cup {b}
    <3>1. \A j \in DOMAIN blocks : /\ j + 1 \in DOMAIN blocks' /\ j + 1 # 1
                                   /\ blocks'[j + 1] = blocks[j]
      BY <2>3
    <3>2. \A j \in DOMAIN blocks' : j = 1 \/ j - 1 \in DOMAIN blocks
      BY <2>3
    <3>3. 1 \in DOMAIN blocks' /\ blocks'[1] = b
      BY <2>3
    <3> QED
      BY <2>2, <2>3, <3>1, <3>2, <3>3 DEF InUse
  <2>5. \A c \in InUse : c.addr # addr
    <3>1. \A j \in DOMAIN blocks : blocks[j].addr # addr
      BY <1>1, <2>1 DEF Block
    <3> QED
      BY <3>1 DEF InUse
  <2> QED
    BY <2>2, <2>4, <2>5
<1> QED
  BY <1>2, <1>3 DEF Allocate, n

\* BlockAt finds the block of a pointer.
LEMMA BlockFound ==
  ASSUME IInv, NEW b \in InUse
  PROVE  /\ BlockAt(b.addr) \in DOMAIN blocks
         /\ blocks[BlockAt(b.addr)] = b
  BY BlocksDiffer DEF InUse, BlockAt

\* free takes the block of a pointer out of use, and no other.
LEMMA FreeUses ==
  ASSUME IInv, NEW b \in InUse, NEW addr, b.addr = addr,
         blocks' = [blocks EXCEPT ![BlockAt(addr)].available = TRUE]
  PROVE  InUse' = {c \in InUse : c.addr # addr}
<1> DEFINE i == BlockAt(addr)
           d == [blocks[i] EXCEPT !.available = TRUE]
<1>1. i \in DOMAIN blocks /\ blocks[i] = b /\ b \in Block
  BY BlockFound, BlocksDiffer
<1>2. blocks' = [blocks EXCEPT ![i] = d]
  OBVIOUS
<1>3. d.available
  BY <1>1 DEF Block
<1> HIDE DEF i, d
<1>4. DOMAIN blocks' = DOMAIN blocks
      /\ \A j \in DOMAIN blocks : blocks'[j] = IF j = i THEN d ELSE blocks[j]
  BY <1>1, <1>2
<1>5. \A j \in DOMAIN blocks : j # i => blocks[j].addr # addr
  BY <1>1, BlocksDiffer
<1> QED
  BY <1>1, <1>3, <1>4, <1>5 DEF InUse

\* A block that comes into use serves those who had theirs as before.
LEMMA StillServed ==
  ASSUME NEW b, InUse' = InUse \cup {b}
  PROVE  \A addr, size :
           (\E c \in InUse : c.addr = addr /\ c.size >= size)
             => \E c \in InUse' : c.addr = addr /\ c.size >= size
  OBVIOUS

LEMMA InitOwn == Init => OwnInv
<1> SUFFICES ASSUME Init PROVE OwnInv
  OBVIOUS
<1>1. Busy = {} /\ Copying = {} /\ held = {} /\ InUse = {}
  BY DEF Init, Busy, Copying, InUse
<1>2. ValuesOK
  BY <1>1 DEF Init, ValuesOK, Places, NoCall
<1> QED
  BY <1>1, <1>2, InitIInv
     DEF OwnInv, HaveBlocks, Apart, DataKept, ContentKept, AllOwned

\* malloc and calloc give a block that is nobody else's, and its data.
LEMMA GiveOwn ==
  ASSUME OwnInv, IInv', NEW t \in Threads, NEW s \in Nat, NEW addr \in Places,
         Allocate(aligned_size(s), addr), Give(t, addr, s, t),
         UNCHANGED <<pc, call>>
  PROVE  OwnInv'
<1> DEFINE k == [addr |-> addr, size |-> s, tag |-> t]
<1>1. PICK b : /\ InUse' = InUse \cup {b}
               /\ b.addr = addr /\ b.size \in Nat /\ b.size >= s
               /\ \A c \in InUse : c.addr # addr
  BY AllocateUses DEF OwnInv
<1>2. /\ held' = held \cup {k} /\ content' = [content EXCEPT ![addr] = t]
      /\ Busy' = Busy /\ Copying' = Copying
  BY DEF Give, Busy, Copying
<1>3. k.addr = addr /\ k.size = s /\ k.tag = t
      /\ k \in [addr : Places, size : Nat, tag : Threads]
  OBVIOUS
<1> HIDE DEF k
<1>4. /\ \A h \in held : h.addr # addr
      /\ \A u \in Busy : call[u].addr # addr
      /\ \A u \in Copying : call[u].new # addr
  BY <1>1 DEF OwnInv, HaveBlocks
<1>5. ValuesOK'
  BY <1>2, <1>3 DEF OwnInv, ValuesOK
<1>6. HaveBlocks'
  BY <1>1, <1>2, <1>3, StillServed DEF OwnInv, HaveBlocks
<1>7. Apart'
  BY <1>2, <1>3, <1>4 DEF OwnInv, Apart
<1>8. DataKept'
  BY <1>2, <1>3, <1>4 DEF OwnInv, DataKept, ContentKept, ValuesOK
<1>9. AllOwned'
  BY <1>1, <1>2, <1>3 DEF OwnInv, AllOwned
<1> QED
  BY <1>5, <1>6, <1>7, <1>8, <1>9 DEF OwnInv

\* free takes the pointer with the block.
LEMMA FreeOwn ==
  ASSUME OwnInv, IInv', NEW t \in Threads, NEW h \in held, free(t, h)
  PROVE  OwnInv'
<1>1. /\ blocks' = [blocks EXCEPT ![BlockAt(h.addr)].available = TRUE]
      /\ held' = held \ {h} /\ UNCHANGED <<content, pc, call>>
      /\ Busy' = Busy /\ Copying' = Copying
  BY DEF free, Busy, Copying
<1>2. PICK b \in InUse : b.addr = h.addr
  BY DEF OwnInv, HaveBlocks
<1>3. InUse' = {c \in InUse : c.addr # h.addr}
  BY <1>1, <1>2, FreeUses DEF OwnInv
<1>4. /\ \A k \in held' : k.addr # h.addr
      /\ \A u \in Busy : call[u].addr # h.addr
      /\ \A u \in Copying : call[u].new # h.addr
  BY <1>1 DEF OwnInv, Apart
<1>5. ValuesOK'
  BY <1>1 DEF OwnInv, ValuesOK
<1>6. HaveBlocks'
  BY <1>1, <1>3, <1>4 DEF OwnInv, HaveBlocks
<1>7. Apart'
  BY <1>1 DEF OwnInv, Apart
<1>8. DataKept'
  BY <1>1 DEF OwnInv, DataKept, ContentKept
<1>9. AllOwned'
  BY <1>1, <1>3 DEF OwnInv, AllOwned
<1> QED
  BY <1>5, <1>6, <1>7, <1>8, <1>9 DEF OwnInv

\* A block that is large enough is kept.
LEMMA ReallocKeepsOwn ==
  ASSUME OwnInv, IInv', NEW t \in Threads, NEW h \in held, NEW size \in Sizes,
         ReallocKeeps(t, h, size)
  PROVE  OwnInv'
<1> DEFINE k == [h EXCEPT !.size = size]
<1>1. /\ size <= blocks[BlockAt(h.addr)].size
      /\ held' = (held \ {h}) \cup {k}
      /\ UNCHANGED <<blocks, content, pc, call>>
      /\ Busy' = Busy /\ Copying' = Copying /\ InUse' = InUse
  BY DEF ReallocKeeps, Busy, Copying, InUse
<1>2. /\ k.addr = h.addr /\ k.size = size /\ k.tag = h.tag
      /\ k \in [addr : Places, size : Nat, tag : Threads]
  BY SizesAreNat DEF OwnInv, ValuesOK
<1> HIDE DEF k
<1>3. PICK b \in InUse : b.addr = h.addr
  BY DEF OwnInv, HaveBlocks
<1>4. b.addr = k.addr /\ b.size >= k.size
  <2>1. blocks[BlockAt(h.addr)] = b /\ b \in Block
    BY <1>3, BlockFound, BlocksDiffer DEF OwnInv
  <2> QED
    BY <1>1, <1>2, <1>3, <2>1, SizesAreNat DEF Block
<1>5. ValuesOK'
  BY <1>1, <1>2 DEF OwnInv, ValuesOK
<1>6. HaveBlocks'
  BY <1>1, <1>4 DEF OwnInv, HaveBlocks
<1>7. Apart'
  BY <1>1, <1>2 DEF OwnInv, Apart
<1>8. DataKept'
  BY <1>1, <1>2 DEF OwnInv, DataKept, ContentKept
<1>9. AllOwned'
  BY <1>1, <1>2 DEF OwnInv, AllOwned
<1> QED
  BY <1>5, <1>6, <1>7, <1>8, <1>9 DEF OwnInv

\* The pointer goes from the program to realloc.
LEMMA ReallocLooksOwn ==
  ASSUME OwnInv, IInv', NEW t \in Threads, NEW h \in held, NEW size \in Sizes,
         ReallocLooks(t, h, size)
  PROVE  OwnInv'
<1> DEFINE r == [addr |-> h.addr, size |-> h.size, tag |-> h.tag,
                 want |-> size, new |-> None]
<1>1. /\ pc[t] = "idle" /\ pc' = [pc EXCEPT ![t] = "malloc"]
      /\ held' = held \ {h} /\ call' = [call EXCEPT ![t] = r]
      /\ UNCHANGED <<blocks, content>> /\ InUse' = InUse
  BY DEF ReallocLooks, StartRealloc, InUse
<1>2. /\ r.addr = h.addr /\ r.size = h.size /\ r.tag = h.tag
      /\ r.addr \in Places /\ r.tag \in Threads
      /\ r \in [addr : Places \cup {None}, size : Nat,
                tag : Threads \cup {None}, want : Nat,
                new : Places \cup {None}]
  BY SizesAreNat DEF OwnInv, ValuesOK
<1> HIDE DEF r
<1>3. /\ t \notin Busy /\ Busy' = Busy \cup {t} /\ Copying' = Copying
      /\ t \notin Copying
      /\ call'[t] = r /\ \A u \in Busy \cup Copying : call'[u] = call[u]
  BY <1>1 DEF OwnInv, ValuesOK, Busy, Copying
<1>4. /\ \A k \in held' : k \in held /\ k.addr # h.addr
      /\ \A u \in Busy : call[u].addr # h.addr
      /\ \A u \in Copying : call[u].new # h.addr
  BY <1>1 DEF OwnInv, Apart
<1>5. ValuesOK'
  BY <1>1, <1>2, <1>3 DEF OwnInv, ValuesOK
<1>6. HaveBlocks'
  BY <1>1, <1>2, <1>3, <1>4 DEF OwnInv, HaveBlocks
<1>7. Apart'
  BY <1>2, <1>3, <1>4 DEF OwnInv, Apart
<1>8. DataKept'
  BY <1>1, <1>2, <1>3, <1>4 DEF OwnInv, DataKept, ContentKept
<1>9. AllOwned'
  <2>1. \A k \in held : k \in held' \/ k = h
    BY <1>1
  <2> QED
    BY <1>1, <1>2, <1>3, <2>1 DEF OwnInv, AllOwned
<1> QED
  BY <1>5, <1>6, <1>7, <1>8, <1>9 DEF OwnInv

\* realloc has both blocks, and its data are in the old one.
LEMMA ReallocMallocOwn ==
  ASSUME OwnInv, IInv', NEW t \in Threads, ReallocMalloc(t)
  PROVE  OwnInv'
<1>1. PICK addr \in Places :
        /\ Allocate(aligned_size(call[t].want), addr)
        /\ call' = [call EXCEPT ![t].new = addr]
  BY DEF ReallocMalloc, Places
<1>2. /\ pc[t] = "malloc" /\ pc' = [pc EXCEPT ![t] = "copy"]
      /\ UNCHANGED <<content, held>>
      /\ call[t].want \in Nat
  BY DEF ReallocMalloc, OwnInv, ValuesOK
<1>3. PICK b : /\ InUse' = InUse \cup {b}
               /\ b.addr = addr /\ b.size \in Nat /\ b.size >= call[t].want
               /\ \A c \in InUse : c.addr # addr
  BY <1>1, <1>2, AllocateUses DEF OwnInv
<1>4. /\ t \in Busy /\ Busy' = Busy /\ t \notin Copying
      /\ Copying' = Copying \cup {t}
      /\ call'[t].new = addr
      /\ \A u \in Busy : /\ call'[u].addr = call[u].addr
                         /\ call'[u].size = call[u].size
                         /\ call'[u].tag = call[u].tag
                         /\ call'[u].want = call[u].want
      /\ \A u \in Copying : call'[u] = call[u]
  BY <1>1, <1>2 DEF OwnInv, ValuesOK, Busy, Copying
<1>5. /\ \A h \in held : h.addr # addr
      /\ \A u \in Busy : call[u].addr # addr
      /\ \A u \in Copying : call[u].new # addr
  BY <1>3 DEF OwnInv, HaveBlocks
<1>6. ValuesOK'
  <2>1. call' \in [Threads -> [addr : Places \cup {None}, size : Nat,
                               tag : Threads \cup {None}, want : Nat,
                               new : Places \cup {None}]]
    BY <1>1 DEF OwnInv, ValuesOK
  <2>2. pc' \in [Threads -> {"idle", "malloc", "copy"}]
    BY <1>2 DEF OwnInv, ValuesOK
  <2>3. /\ \A u \in Busy' : call'[u].addr \in Places /\ call'[u].tag \in Threads
        /\ \A u \in Copying' : call'[u].new \in Places
    BY <1>4 DEF OwnInv, ValuesOK
  <2> QED
    BY <1>2, <2>1, <2>2, <2>3 DEF OwnInv, ValuesOK
<1>7. HaveBlocks'
  <2>1. \A h \in held' : \E c \in InUse' : c.addr = h.addr /\ c.size >= h.size
    BY <1>2, <1>3, StillServed DEF OwnInv, HaveBlocks
  <2>2. \A u \in Busy' :
          \E c \in InUse' : c.addr = call'[u].addr /\ c.size >= call'[u].size
    BY <1>3, <1>4 DEF OwnInv, HaveBlocks
  <2>3. \A u \in Copying' :
          \E c \in InUse' : c.addr = call'[u].new /\ c.size >= call'[u].want
    BY <1>3, <1>4 DEF OwnInv, HaveBlocks
  <2> QED
    BY <2>1, <2>2, <2>3 DEF HaveBlocks
<1>8. Apart'
  BY <1>2, <1>4, <1>5 DEF OwnInv, Apart
<1>9. DataKept'
  BY <1>2, <1>4 DEF OwnInv, DataKept, ContentKept
<1>10. AllOwned'
  <2>1. Copying \subseteq Busy
    BY DEF Copying, Busy
  <2> QED
    BY <1>2, <1>3, <1>4, <2>1 DEF OwnInv, AllOwned
<1> QED
  BY <1>6, <1>7, <1>8, <1>9, <1>10 DEF OwnInv

\* Without memory the pointer goes back to the program.
LEMMA ReallocFailsOwn ==
  ASSUME OwnInv, IInv', NEW t \in Threads, ReallocFails(t)
  PROVE  OwnInv'
<1> DEFINE k == [addr |-> call[t].addr, size |-> call[t].size,
                 tag |-> call[t].tag]
<1>1. /\ pc[t] = "malloc" /\ pc' = [pc EXCEPT ![t] = "idle"]
      /\ held' = held \cup {k} /\ call' = [call EXCEPT ![t] = NoCall]
      /\ UNCHANGED <<blocks, content>> /\ InUse' = InUse
  BY DEF ReallocFails, InUse
<1>2. /\ t \in Busy /\ Busy' = Busy \ {t} /\ Copying' = Copying
      /\ t \notin Copying
      /\ \A u \in (Busy \cup Copying) \ {t} : call'[u] = call[u]
  BY <1>1 DEF OwnInv, ValuesOK, Busy, Copying
<1>3. /\ k.addr = call[t].addr /\ k.size = call[t].size /\ k.tag = call[t].tag
      /\ k \in [addr : Places, size : Nat, tag : Threads]
  BY <1>2 DEF OwnInv, ValuesOK
<1> HIDE DEF k
<1>4. ValuesOK'
  <2>1. call' \in [Threads -> [addr : Places \cup {None}, size : Nat,
                               tag : Threads \cup {None}, want : Nat,
                               new : Places \cup {None}]]
    BY <1>1 DEF OwnInv, ValuesOK, NoCall
  <2> QED
    BY <1>1, <1>2, <1>3, <2>1 DEF OwnInv, ValuesOK
<1>5. HaveBlocks'
  BY <1>1, <1>2, <1>3 DEF OwnInv, HaveBlocks
<1>6. Apart'
  BY <1>1, <1>2, <1>3 DEF OwnInv, Apart
<1>7. DataKept'
  BY <1>1, <1>2, <1>3 DEF OwnInv, DataKept, ContentKept
<1>8. AllOwned'
  BY <1>1, <1>2, <1>3 DEF OwnInv, AllOwned
<1> QED
  BY <1>4, <1>5, <1>6, <1>7, <1>8 DEF OwnInv

\* The data go to the new block before the old one is taken out of use.
LEMMA ReallocCopiesOwn ==
  ASSUME OwnInv, IInv', NEW t \in Threads, ReallocCopies(t)
  PROVE  OwnInv'
<1> DEFINE k == [addr |-> call[t].new, size |-> call[t].want,
                 tag |-> call[t].tag]
<1>1. /\ pc[t] = "copy" /\ pc' = [pc EXCEPT ![t] = "idle"]
      /\ held' = held \cup {k} /\ call' = [call EXCEPT ![t] = NoCall]
      /\ content' = [content EXCEPT ![call[t].new] = content[call[t].addr]]
      /\ blocks' = [blocks EXCEPT ![BlockAt(call[t].addr)].available = TRUE]
  BY DEF ReallocCopies
<1>2. /\ t \in Busy /\ t \in Copying /\ Busy' = Busy \ {t}
      /\ Copying' = Copying \ {t}
      /\ \A u \in (Busy \cup Copying) \ {t} : call'[u] = call[u]
      /\ Copying \subseteq Busy
  BY <1>1 DEF OwnInv, ValuesOK, Busy, Copying
<1>3. /\ k.addr = call[t].new /\ k.size = call[t].want /\ k.tag = call[t].tag
      /\ k \in [addr : Places, size : Nat, tag : Threads]
  BY <1>2 DEF OwnInv, ValuesOK
<1> HIDE DEF k
<1>4. PICK b \in InUse : b.addr = call[t].addr
  BY <1>2 DEF OwnInv, HaveBlocks
<1>5. InUse' = {c \in InUse : c.addr # call[t].addr}
  BY <1>1, <1>4, FreeUses DEF OwnInv
<1>6. /\ \A h \in held : h.addr # call[t].addr /\ h.addr # call[t].new
      /\ \A u \in Busy \ {t} : /\ call[u].addr # call[t].addr
                               /\ call[u].addr # call[t].new
      /\ \A u \in Copying \ {t} : /\ call[u].new # call[t].new
      /\ \A u \in Copying : call[u].new # call[t].addr
  BY <1>2 DEF OwnInv, Apart
<1>7. ValuesOK'
  <2>1. call' \in [Threads -> [addr : Places \cup {None}, size : Nat,
                               tag : Threads \cup {None}, want : Nat,
                               new : Places \cup {None}]]
    BY <1>1 DEF OwnInv, ValuesOK, NoCall
  <2>2. content' \in [Places -> Threads \cup {None}]
    BY <1>1, <1>2 DEF OwnInv, ValuesOK
  <2> QED
    BY <1>1, <1>2, <1>3, <2>1, <2>2 DEF OwnInv, ValuesOK
<1>8. HaveBlocks'
  <2>1. \A h \in held : \E c \in InUse' : c.addr = h.addr /\ c.size >= h.size
    BY <1>5, <1>6 DEF OwnInv, HaveBlocks
  <2>2. \E c \in InUse' : c.addr = k.addr /\ c.size >= k.size
    BY <1>2, <1>3, <1>5, <1>6 DEF OwnInv, HaveBlocks
  <2>3. \A u \in Busy \ {t} :
          \E c \in InUse' : c.addr = call[u].addr /\ c.size >= call[u].size
    BY <1>5, <1>6 DEF OwnInv, HaveBlocks
  <2>4. \A u \in Copying \ {t} :
          \E c \in InUse' : c.addr = call[u].new /\ c.size >= call[u].want
    BY <1>5, <1>6 DEF OwnInv, HaveBlocks
  <2> QED
    BY <1>1, <1>2, <2>1, <2>2, <2>3, <2>4 DEF HaveBlocks
<1>9. Apart'
  BY <1>1, <1>2, <1>3, <1>6 DEF OwnInv, Apart
<1>10. DataKept'
  <2>1. content'[call[t].new] = call[t].tag
    BY <1>1, <1>2 DEF OwnInv, DataKept, ValuesOK
  <2>2. \A a \in Places : a # call[t].new => content'[a] = content[a]
    BY <1>1 DEF OwnInv, ValuesOK
  <2>3. \A h \in held : h.addr \in Places
    BY DEF OwnInv, ValuesOK
  <2> QED
    BY <1>1, <1>2, <1>3, <1>6, <2>1, <2>2, <2>3
       DEF OwnInv, DataKept, ContentKept, ValuesOK
<1>11. AllOwned'
  BY <1>1, <1>2, <1>3, <1>5 DEF OwnInv, AllOwned
<1> QED
  BY <1>7, <1>8, <1>9, <1>10, <1>11 DEF OwnInv

\* Blocks only change hands.
LEMMA NextOwn == ASSUME Huge = FALSE PROVE OwnInv /\ [Next]_vars => OwnInv'
<1> SUFFICES ASSUME OwnInv, [Next]_vars PROVE OwnInv'
  OBVIOUS
<1>0. IInv'
  BY NextIInv DEF OwnInv
<1>1. CASE UNCHANGED vars
  <2>1. Busy' = Busy /\ Copying' = Copying /\ InUse' = InUse
    BY <1>1 DEF vars, Busy, Copying, InUse
  <2> QED
    BY <1>0, <1>1, <2>1
       DEF vars, OwnInv, ValuesOK, HaveBlocks, Apart, DataKept, ContentKept,
           AllOwned
<1>2. ASSUME NEW t \in Threads, NEW size \in Sizes, malloc(t, size)
      PROVE  OwnInv'
  <2>1. PICK addr \in Places :
          Allocate(aligned_size(size), addr) /\ Give(t, addr, size, t)
    BY <1>2 DEF malloc, Places
  <2> QED
    BY <1>0, <1>2, <2>1, GiveOwn, SizesAreNat DEF malloc
<1>3. ASSUME NEW t \in Threads, NEW size \in Sizes, NEW count \in Counts,
             calloc(t, count, size)
      PROVE  OwnInv'
  <2>1. PICK addr \in Places :
          /\ Allocate(aligned_size(count * size), addr)
          /\ Give(t, addr, count * size, t)
    BY <1>3 DEF calloc, Places
  <2>2. count * size \in Nat
    BY SizesAreNat
  <2> QED
    BY <1>0, <1>3, <2>1, <2>2, GiveOwn DEF calloc
<1>4. ASSUME NEW t \in Threads, NEW size \in Sizes, NEW h \in held,
             ReallocKeeps(t, h, size) \/ ReallocLooks(t, h, size)
      PROVE  OwnInv'
  BY <1>0, <1>4, ReallocKeepsOwn, ReallocLooksOwn
<1>5. ASSUME NEW t \in Threads, NEW h \in held, free(t, h) PROVE OwnInv'
  BY <1>0, <1>5, FreeOwn
<1>6. ASSUME NEW t \in Threads,
             ReallocMalloc(t) \/ ReallocFails(t) \/ ReallocCopies(t)
      PROVE  OwnInv'
  BY <1>0, <1>6, ReallocMallocOwn, ReallocFailsOwn, ReallocCopiesOwn
<1> QED
  BY <1>1, <1>2, <1>3, <1>4, <1>5, <1>6 DEF Next

\* malloc, calloc, realloc: a pointer that the program has is its own, is at a
\* block in use, and that block is as large as the program was told, for every
\* size whose block is less than half the address space.
THEOREM PointersGood == ASSUME Huge = FALSE PROVE Spec => []HeldAreGood
<1>1. OwnInv => HeldAreGood
  BY DEF OwnInv, HaveBlocks, Apart, InUse, HeldAreGood
<1> QED
  BY <1>1, InitOwn, NextOwn, PTL DEF Spec

\* realloc: what was written through a pointer stays, also while the allocation
\* lock is given up between realloc's looks at the heap.
THEOREM DataStay == ASSUME Huge = FALSE PROVE Spec => []ContentKept
<1>1. OwnInv => ContentKept
  BY DEF OwnInv, DataKept
<1> QED
  BY <1>1, InitOwn, NextOwn, PTL DEF Spec

\* realloc: no block in use is forgotten, also when there is no memory.
THEOREM BlocksOwned == ASSUME Huge = FALSE PROVE Spec => []NothingLost
<1>1. OwnInv => NothingLost
  BY DEF OwnInv, AllOwned, InUse, Busy, Copying, NothingLost
<1> QED
  BY <1>1, InitOwn, NextOwn, PTL DEF Spec

-----------------------------------------------------------------------------
(* Types, and the alignment of what malloc returns *)

Multiple(n) == \E k \in Nat : n = k * Align

\* The break is never put where it is not aligned, so no block is either.
AlignInv ==
  /\ brk <= MaxBrk /\ Multiple(brk - StartBrk)
  /\ \A i \in DOMAIN blocks : /\ Multiple(blocks[i].addr - StartBrk)
                              /\ blocks[i].size \in 1..(Modulus - 1)

LEMMA RemainderIsMultiple ==
  ASSUME NEW n \in Nat
  PROVE  n % Align = 0 <=> Multiple(n)
<1>1. Align \in Nat \ {0}
  BY WordAssumption
<1>2. ASSUME n % Align = 0 PROVE Multiple(n)
  <2>1. n = (n \div Align) * Align + (n % Align) /\ n \div Align \in Nat
    BY <1>1
  <2>2. n = (n \div Align) * Align
    BY <1>1, <1>2, <2>1
  <2> QED
    BY <2>1, <2>2 DEF Multiple
<1>3. ASSUME NEW k \in Nat, n = k * Align PROVE n % Align = 0
  <2>1. n \div Align = k
    BY <1>1, <1>3
  <2>2. n = (n \div Align) * Align + (n % Align) /\ n % Align \in Nat
    BY <1>1
  <2> QED
    BY <1>1, <1>3, <2>1, <2>2
<1> QED
  BY <1>2, <1>3 DEF Multiple

LEMMA MultiplesAdd ==
  ASSUME NEW m, NEW n, Multiple(m), Multiple(n)
  PROVE  Multiple(m + n)
<1>1. PICK j \in Nat : m = j * Align
  BY DEF Multiple
<1>2. PICK k \in Nat : n = k * Align
  BY DEF Multiple
<1>3. m + n = (j + k) * Align
  BY <1>1, <1>2, WordAssumption
<1> QED
  BY <1>3 DEF Multiple

\* aligned_size rounds up, and a size that malloc does not refuse is one that
\* fits a word.
LEMMA AlignedIsMultiple ==
  ASSUME NEW s \in Nat, ~Refused(aligned_size(s))
  PROVE  Multiple(aligned_size(s)) /\ aligned_size(s) \in 1..(Modulus - 1)
<1> DEFINE n == IF s = 0 THEN 1 ELSE s
           q == (n + Align - 1) \div Align
<1>1. aligned_size(s) \in Nat /\ aligned_size(s) # 0
      /\ aligned_size(s) <= Modulus - 1 - Header
  BY AlignedIsSize, WordAssumption DEF Refused
<1>2. aligned_size(s) \in 1..(Modulus - 1)
  BY <1>1, WordAssumption
<1>3. aligned_size(s) = q * Align
  BY <1>1 DEF aligned_size
<1>4. n + Align - 1 \in Nat /\ Align \in Nat \ {0}
  BY WordAssumption
<1>5. q \in Nat
  BY <1>4
<1> QED
  BY <1>2, <1>3, <1>5 DEF Multiple

\* malloc: the header and the size are both multiples, so the break moves by one.
LEMMA AllocateAligned ==
  ASSUME Huge = FALSE, IInv, AlignInv, NEW s \in Nat, Asked(s), NEW addr,
         Allocate(aligned_size(s), addr)
  PROVE  AlignInv'
<1> DEFINE n == aligned_size(s)
<1>1. n \in Nat /\ n \in 1..(Modulus - 1) /\ Multiple(n)
  BY AlignedIsSize, AlignedIsMultiple DEF Allocate, Reuse, Grow
<1>2. /\ brk \in Nat /\ blocks \in Seq(Block)
      /\ brk <= MaxBrk /\ Multiple(brk - StartBrk)
      /\ \A i \in DOMAIN blocks : /\ Multiple(blocks[i].addr - StartBrk)
                                  /\ blocks[i].size \in 1..(Modulus - 1)
  BY DEF IInv, AlignInv
<1>3. Header \in Nat /\ Header % Align = 0 /\ StartBrk \in Nat
      /\ MaxBrk \in Nat /\ Half \in Nat
  BY WordAssumption, HeapAssumption DEF Half
<1> HIDE DEF n
<1>4. CASE Reuse(n, addr)
  <2>1. /\ blocks' = [blocks EXCEPT ![First(Fits(n))].available = FALSE]
        /\ brk' = brk
    BY <1>4 DEF Reuse
  <2>2. /\ DOMAIN blocks' = DOMAIN blocks
        /\ \A j \in DOMAIN blocks : /\ blocks'[j].addr = blocks[j].addr
                                    /\ blocks'[j].size = blocks[j].size
    BY <1>2, <2>1, Marked
  <2> QED
    BY <1>2, <2>1, <2>2 DEF AlignInv
<1>5. CASE Grow(n, addr)
  <2> DEFINE b == [addr |-> brk, size |-> n, available |-> FALSE]
  <2>1. Increment(n) = Header + n
    BY <1>1, <1>3, <1>5 DEF Grow, Asked, Increment, n
  <2>2. /\ brk' = brk + Header + n /\ blocks' = <<b>> \o blocks
        /\ brk' <= MaxBrk
    BY <1>1, <1>2, <1>3, <1>5, <2>1 DEF Grow, BreakAllowed
  <2>3. Multiple(brk' - StartBrk)
    <3>1. Multiple(Header + n)
      BY <1>1, <1>3, RemainderIsMultiple, MultiplesAdd
    <3>2. Multiple((brk - StartBrk) + (Header + n))
      BY <1>2, <3>1, MultiplesAdd
    <3>3. (brk - StartBrk) + (Header + n) = brk' - StartBrk
      BY <1>1, <1>2, <1>3, <2>2
    <3> QED
      BY <3>2, <3>3
  <2>4. b \in Block /\ b.addr = brk /\ b.size = n
    BY <1>1, <1>2 DEF Block
  <2> HIDE DEF b
  <2>5. <<b>> \in Seq(Block) /\ Len(<<b>>) = 1 /\ <<b>>[1] = b
    BY <2>4
  <2>6. /\ blocks' \in Seq(Block) /\ Len(blocks') = 1 + Len(blocks)
        /\ \A j \in 1..(1 + Len(blocks)) :
             blocks'[j] = IF j <= 1 THEN <<b>>[j] ELSE blocks[j - 1]
    BY <1>2, <2>2, <2>5, ConcatProperties
  <2>7. \A j \in DOMAIN blocks' :
          blocks'[j] = b \/ \E i \in DOMAIN blocks : blocks'[j] = blocks[i]
    <3>1. DOMAIN blocks' = 1..(1 + Len(blocks)) /\ DOMAIN blocks = 1..Len(blocks)
          /\ Len(blocks) \in Nat
      BY <1>2, <2>6, LenProperties
    <3>2. ASSUME NEW j \in 1..(1 + Len(blocks)), j # 1
          PROVE  j - 1 \in DOMAIN blocks /\ blocks'[j] = blocks[j - 1]
      BY <2>6, <3>1, <3>2
    <3> QED
      BY <2>5, <2>6, <3>1, <3>2
  <2>8. ASSUME NEW j \in DOMAIN blocks'
        PROVE  /\ Multiple(blocks'[j].addr - StartBrk)
               /\ blocks'[j].size \in 1..(Modulus - 1)
    BY <1>1, <1>2, <2>4, <2>7
  <2> QED
    BY <2>2, <2>3, <2>8 DEF AlignInv
<1> QED
  BY <1>4, <1>5 DEF Allocate, n

\* Marking a block does not move it.
LEMMA MarkAligned ==
  ASSUME IInv, AlignInv, NEW i, blocks' = [blocks EXCEPT ![i].available = TRUE],
         UNCHANGED brk
  PROVE  AlignInv'
<1>1. blocks \in Seq(Block)
  BY DEF IInv
<1>2. /\ DOMAIN blocks' = DOMAIN blocks
      /\ \A j \in DOMAIN blocks : /\ blocks'[j].addr = blocks[j].addr
                                  /\ blocks'[j].size = blocks[j].size
  BY <1>1, Marked
<1> QED
  BY <1>2 DEF AlignInv

LEMMA InitAligned == Init => AlignInv
<1> SUFFICES ASSUME Init PROVE AlignInv
  OBVIOUS
<1>1. brk = StartBrk /\ DOMAIN blocks = {}
  BY DEF Init
<1>2. Align \in Nat
  BY WordAssumption
<1>3. brk - StartBrk = 0 * Align /\ brk <= MaxBrk
  BY <1>1, <1>2, HeapAssumption
<1> QED
  BY <1>1, <1>3 DEF AlignInv, Multiple

LEMMA NextAligned ==
  ASSUME Huge = FALSE PROVE IInv /\ AlignInv /\ [Next]_vars => AlignInv'
<1> SUFFICES ASSUME IInv, AlignInv, [Next]_vars PROVE AlignInv'
  OBVIOUS
<1>1. CASE UNCHANGED <<brk, blocks>>
  BY <1>1 DEF AlignInv
<1>2. ASSUME NEW s \in Nat, Asked(s), NEW addr, Allocate(aligned_size(s), addr)
      PROVE  AlignInv'
  BY <1>2, AllocateAligned
<1>3. ASSUME NEW t \in Threads, NEW size \in Sizes, malloc(t, size)
      PROVE  AlignInv'
  BY <1>2, <1>3, SizesAreNat DEF malloc
<1>4. ASSUME NEW t \in Threads, NEW size \in Sizes, NEW count \in Counts,
             calloc(t, count, size)
      PROVE  AlignInv'
  BY <1>2, <1>4, SizesAreNat DEF calloc
<1>5. ASSUME NEW t \in Threads, ReallocMalloc(t)
      PROVE  AlignInv'
  <2>1. call[t].want \in Nat /\ Asked(call[t].want)
    BY <1>5 DEF ReallocMalloc, IInv, WantedOK
  <2> QED
    BY <1>2, <1>5, <2>1 DEF ReallocMalloc
<1>6. ASSUME NEW t \in Threads, NEW h \in held, free(t, h)
      PROVE  AlignInv'
  BY <1>6, MarkAligned DEF free
<1>7. ASSUME NEW t \in Threads, ReallocCopies(t)
      PROVE  AlignInv'
  BY <1>7, MarkAligned DEF ReallocCopies
<1>8. ASSUME NEW t \in Threads, NEW size \in Sizes, NEW h \in held,
             ReallocKeeps(t, h, size) \/ ReallocLooks(t, h, size)
      PROVE  AlignInv'
  BY <1>1, <1>8 DEF ReallocKeeps, ReallocLooks, StartRealloc
<1>9. ASSUME NEW t \in Threads, ReallocFails(t)
      PROVE  AlignInv'
  BY <1>1, <1>9 DEF ReallocFails
<1>10. CASE UNCHANGED vars
  BY <1>1, <1>10 DEF vars
<1> QED
  BY <1>3, <1>4, <1>5, <1>6, <1>7, <1>8, <1>9, <1>10 DEF Next

\* malloc.c: the break, the blocks and the program's pointers stay in the heap,
\* sizes in the word, and every block is aligned.
THEOREM HeapTypes == ASSUME Huge = FALSE PROVE Spec => []TypeOK
<1>1. OwnInv /\ AlignInv => TypeOK
  <2> SUFFICES ASSUME OwnInv, AlignInv PROVE TypeOK
    OBVIOUS
  <2>1. /\ brk \in StartBrk..MaxBrk /\ blocks \in Seq(Block) /\ BlocksInHeap
        /\ StartBrk \in Nat /\ MaxBrk \in Nat /\ Header \in Nat /\ brk \in Nat
    BY HeapAssumption, WordAssumption DEF OwnInv, IInv, AlignInv
  <2>2. ASSUME NEW i \in DOMAIN blocks
        PROVE  /\ blocks[i] \in [addr : StartBrk..MaxBrk, size : 1..(Modulus - 1),
                                 available : BOOLEAN]
               /\ (blocks[i].addr - StartBrk) % Align = 0
    <3>1. blocks[i] \in Block
      BY <2>1, LenProperties
    <3>2. blocks[i].addr >= StartBrk /\ blocks[i].addr + Header + blocks[i].size <= brk
      BY <2>1 DEF BlocksInHeap
    <3>3. /\ Multiple(blocks[i].addr - StartBrk)
          /\ blocks[i].size \in 1..(Modulus - 1)
      BY DEF AlignInv
    <3>4. blocks[i].addr \in Nat /\ blocks[i].size \in Nat
      BY <3>1 DEF Block
    <3>5. blocks[i].addr \in StartBrk..MaxBrk /\ blocks[i].addr - StartBrk \in Nat
      BY <2>1, <3>2, <3>4
    <3>6. (blocks[i].addr - StartBrk) % Align = 0
      BY <3>3, <3>5, RemainderIsMultiple
    <3> QED
      BY <3>1, <3>3, <3>5, <3>6 DEF Block
  <2>3. /\ content \in [StartBrk..MaxBrk -> Threads \cup {None}]
        /\ \A h \in held : h.addr \in StartBrk..MaxBrk /\ h.tag \in Threads
        /\ pc \in [Threads -> {"idle", "malloc", "copy"}]
    BY DEF OwnInv, ValuesOK, Places
  <2> QED
    BY <2>1, <2>2, <2>3 DEF TypeOK
<1>2. OwnInv => IInv
  BY DEF OwnInv
<1> QED
  BY <1>1, <1>2, InitOwn, NextOwn, InitAligned, NextAligned, PTL DEF Spec

-----------------------------------------------------------------------------
\* The dynamic loader

Bounds == UNION {[S -> Nat] : S \in SUBSET Symbols}

Lib == [file : Files, name : {"main", "soname", "path"}, modid : Nat,
        bound : Bounds, relocated : BOOLEAN, inits : Nat]

\* A call of rtld_load_needed
LoadCall == [lib : Nat \ {0}, next : Nat \ {0}]

LoaderTypes ==
  /\ system \in Systems
  /\ libs \in Seq(Lib) /\ Len(libs) >= 1
  /\ loaderPc \in {"load", "relocate", "init", "run"}
  /\ stack \in Seq(LoadCall)
  /\ \A n \in DOMAIN stack : stack[n].lib <= Len(libs)
  /\ first \in 1 .. Len(libs)
  /\ at \in Nat \ {0}
  /\ \E S : modules \in Seq(S)
  /\ dtv \in Seq(Nat)
  /\ tlsBlocks \in Nat
  /\ told \in [Users -> [1 .. MaxLibs -> Nat]]

\* The last library whose initialisers are called
LastInit == IF first = 1 THEN Len(libs) ELSE first

\* What was there before is relocated, and of what is new, as much as the loop
\* has been over; the initialisers come when that is all.
RelocationOK ==
  /\ loaderPc = "load" =>
       \A i \in Loader!Libs : i < first => libs[i].relocated
  /\ loaderPc = "relocate" => \A i \in Loader!Libs : i < at => libs[i].relocated
  /\ loaderPc \in {"init", "run"} => \A i \in Loader!Libs : libs[i].relocated
  /\ loaderPc = "init" => at \in first .. LastInit

InitsOK ==
  /\ \A i \in Loader!Libs : libs[i].inits <= 1
  /\ loaderPc \in {"load", "relocate"} =>
       \A i \in Loader!Libs : i >= first => libs[i].inits = 0
  /\ loaderPc = "init" => \A i \in Loader!Libs : i >= at => libs[i].inits = 0

\* What a library imports, it is given from the first library that defines it.
BoundOK ==
  \A i \in Loader!Libs : \A s \in DOMAIN libs[i].bound :
    s \notin Loader!FileOf(i).defs /\ libs[i].bound[s] # 0 =>
      libs[i].bound[s] = Loader!Find(s)

\* What a thread was told is in the vector, which has a slot for each module.
ToldOK ==
  /\ Len(modules) <= Len(dtv)
  /\ \A t \in Users, m \in 1 .. MaxLibs :
       told[t][m] # 0 => m \in DOMAIN dtv /\ dtv[m] = told[t][m]
  /\ loaderPc = "load" /\ first = 1 =>
       \A t \in Users, m \in 1 .. MaxLibs : told[t][m] = 0

LoaderInv == LoaderTypes /\ RelocationOK /\ InitsOK /\ BoundOK /\ ToldOK

LEMMA FilesTyped ==
  ASSUME LoaderTypes
  PROVE  system \in Loader!SystemType(Symbols)
BY LoaderAssumption DEF LoaderTypes

\* Nothing is bound in a library that has just been loaded.
LEMMA NewLibTyped ==
  ASSUME NEW f \in Files
  PROVE  LET new == Loader!NewLib(f)
         IN  /\ new \in Lib /\ new.file = f /\ new.bound = <<>>
             /\ new.inits = 0 /\ new.relocated = FALSE
<1>1. <<>> \in [{} -> Nat]
  OBVIOUS
<1>2. <<>> \in Bounds
  BY <1>1 DEF Bounds
<1>3. (IF system[f].soname THEN "soname" ELSE "path") \in {"main", "soname", "path"}
  OBVIOUS
<1> QED
  BY <1>2, <1>3 DEF Loader!NewLib, Lib

LEMMA InitLoader == Loader!Init => LoaderInv
<1> SUFFICES ASSUME Loader!Init PROVE LoaderInv
  OBVIOUS
<1> USE LoaderAssumption DEF Loader!RtldAssumption
<1> DEFINE new == Loader!NewLib(Main)
           main == [new EXCEPT !.name = "main"]
<1>1. /\ new \in Lib /\ new.bound = <<>> /\ new.inits = 0
      /\ new.relocated = FALSE
  BY NewLibTyped
<1>2. libs = <<main>>
  BY DEF Loader!Init
<1> HIDE DEF new
<1>3. main \in Lib /\ main.bound = <<>> /\ main.inits = 0
  BY <1>1 DEF Lib
<1> HIDE DEF main
<1>4. libs \in Seq(Lib) /\ Len(libs) = 1 /\ libs[1].bound = <<>> /\ libs[1].inits = 0
  BY <1>2, <1>3
<1>5. LoaderTypes
  <2>1. \E S : modules \in Seq(S)
    <3>1. modules \in Seq({})
      BY DEF Loader!Init
    <3> QED
      BY <3>1
  <2>2. stack \in Seq(LoadCall)
        /\ \A n \in DOMAIN stack : stack[n].lib <= Len(libs)
    BY <1>4 DEF Loader!Init, LoadCall
  <2> QED
    BY <1>4, <2>1, <2>2 DEF LoaderTypes, Loader!Init
<1>6. RelocationOK /\ InitsOK /\ BoundOK
  BY <1>4
     DEF Loader!Init, RelocationOK, InitsOK, BoundOK, Loader!Libs
<1>7. ToldOK
  BY DEF Loader!Init, ToldOK
<1> QED
  BY <1>5, <1>6, <1>7 DEF LoaderInv

\* rtld_find_sym gives the first library with a definition, or none.
LEMMA FindFirst ==
  ASSUME NEW s
  PROVE  /\ Loader!Definers(s) = {} => Loader!Find(s) = 0
         /\ Loader!Definers(s) # {} =>
              /\ Loader!Find(s) \in Loader!Definers(s)
              /\ \A i \in Loader!Definers(s) : Loader!Find(s) <= i
         /\ Loader!Find(s) \in Nat
<1>1. Loader!Definers(s) \subseteq Nat
  BY DEF Loader!Definers, Loader!Libs
<1>2. CASE Loader!Definers(s) = {}
  BY <1>2 DEF Loader!Find
<1>3. CASE Loader!Definers(s) # {}
  <2>1. \E i \in Loader!Definers(s) : \A j \in Loader!Definers(s) : i <= j
    BY <1>1, <1>3, Least
  <2> QED
    BY <1>1, <1>3, <2>1 DEF Loader!Find
<1> QED
  BY <1>2, <1>3

\* A library that is put at the end of the list comes too late to define what
\* has been found.
LEMMA FindStays ==
  ASSUME LoaderTypes, NEW s, Loader!Find(s) # 0, system' = system,
         Len(libs') \in Nat, Len(libs') >= Len(libs),
         \A i \in Loader!Libs : libs'[i].file = libs[i].file
  PROVE  Loader!Find(s)' = Loader!Find(s)
<1>1. Len(libs) \in Nat
  BY DEF LoaderTypes
<1> DEFINE D == Loader!Definers(s)
           E == Loader!Definers(s)'
<1>2. /\ Loader!Find(s) \in D
      /\ \A i \in D : Loader!Find(s) <= i
  BY FindFirst
<1>3. D \subseteq E /\ \A i \in E : i \in D \/ i > Len(libs)
  BY <1>1 DEF Loader!Definers, Loader!Libs, Loader!FileOf
<1>4. D \subseteq 1 .. Len(libs)
  BY DEF Loader!Definers, Loader!Libs
<1>5. E \subseteq Nat /\ Loader!Find(s) \in Nat
  BY FindFirst DEF Loader!Definers, Loader!Libs
<1>6. Loader!Find(s) \in E
  BY <1>2, <1>3
<1>7. \A i \in E : Loader!Find(s) <= i
  <2> SUFFICES ASSUME NEW i \in E PROVE Loader!Find(s) <= i
    OBVIOUS
  <2>1. CASE i \in D
    BY <1>2, <2>1
  <2>2. CASE i > Len(libs)
    <3>1. Loader!Find(s) <= Len(libs)
      BY <1>1, <1>2, <1>4
    <3> QED
      BY <1>1, <1>5, <2>2, <3>1
  <2> QED
    BY <1>3, <2>1, <2>2
<1>8. \A i \in E : (\A j \in E : i <= j) => i = Loader!Find(s)
  <2> SUFFICES ASSUME NEW i \in E, \A j \in E : i <= j
               PROVE  i = Loader!Find(s)
    OBVIOUS
  <2>1. i <= Loader!Find(s) /\ Loader!Find(s) <= i /\ i \in Nat
    BY <1>5, <1>6, <1>7
  <2> QED
    BY <1>5, <2>1
<1>9. Loader!Find(s)' = IF E = {} THEN 0 ELSE CHOOSE i \in E : \A j \in E : i <= j
  BY DEF Loader!Find
<1> HIDE DEF D, E
<1> QED
  BY <1>6, <1>7, <1>8, <1>9

\* So what has been bound stays right.
LEMMA BoundStays ==
  ASSUME LoaderTypes, BoundOK, system' = system,
         Len(libs') \in Nat, Len(libs') >= Len(libs),
         \A i \in Loader!Libs : /\ libs'[i].file = libs[i].file
                                /\ libs'[i].bound = libs[i].bound,
         \A i \in Loader!Libs' \ Loader!Libs : libs'[i].bound = <<>>
  PROVE  BoundOK'
<1> SUFFICES ASSUME NEW i \in Loader!Libs', NEW s \in DOMAIN libs'[i].bound,
                    s \notin Loader!FileOf(i)'.defs, libs'[i].bound[s] # 0
             PROVE  libs'[i].bound[s] = Loader!Find(s)'
  BY DEF BoundOK
<1>1. i \in Loader!Libs
  <2>1. DOMAIN <<>> = {}
    OBVIOUS
  <2> QED
    BY <2>1
<1>2. Loader!FileOf(i)' = Loader!FileOf(i)
  BY <1>1 DEF Loader!FileOf
<1>3. libs[i].bound[s] = Loader!Find(s) /\ Loader!Find(s) # 0
  BY <1>1, <1>2 DEF BoundOK
<1> QED
  BY <1>1, <1>3, FindStays

LEMMA StackTyped ==
  ASSUME LoaderInv
  PROVE  /\ stack \in Seq(LoadCall)
         /\ \A n \in DOMAIN stack : stack[n].lib <= Len(libs)
         /\ libs \in Seq(Lib)
BY DEF LoaderInv, LoaderTypes

LEMMA AppendLib ==
  ASSUME LoaderInv, NEW f \in Files, system' = system,
         libs' = Append(libs, Loader!NewLib(f))
  PROVE  /\ libs' \in Seq(Lib) /\ Len(libs') = Len(libs) + 1
         /\ \A i \in Loader!Libs : libs'[i] = libs[i]
         /\ libs'[Len(libs) + 1].inits = 0
         /\ BoundOK'
<1> DEFINE new == Loader!NewLib(f)
<1>1. new \in Lib /\ new.bound = <<>> /\ new.inits = 0
  BY NewLibTyped
<1>2. libs' = Append(libs, new)
  OBVIOUS
<1> HIDE DEF new
<1>3. /\ libs' \in Seq(Lib) /\ Len(libs') = Len(libs) + 1
      /\ \A i \in Loader!Libs : libs'[i] = libs[i]
      /\ libs'[Len(libs) + 1] = new
      /\ Loader!Libs' \ Loader!Libs = {Len(libs) + 1}
  BY <1>1, <1>2 DEF LoaderInv, LoaderTypes, Loader!Libs
<1>4. Len(libs') \in Nat /\ Len(libs') >= Len(libs)
  BY <1>3 DEF LoaderInv, LoaderTypes
<1>5. BoundOK'
  BY <1>1, <1>3, <1>4, BoundStays DEF LoaderInv
<1> QED
  BY <1>1, <1>3, <1>5

\* A file that is needed is one of the files, unless it is missing.
LEMMA NeededFile ==
  ASSUME LoaderInv, stack # <<>>,
         Loader!Top.next <= Len(Loader!Needs)
  PROVE  /\ Loader!Needs[Loader!Top.next] \in Files \cup {"missing"}
         /\ Loader!Advanced \in Seq(LoadCall)
         /\ Len(Loader!Advanced) = Len(stack)
         /\ \A n \in DOMAIN stack : Loader!Advanced[n].lib = stack[n].lib
<1>1. Len(stack) \in DOMAIN stack
  BY StackTyped
<1>2. /\ Loader!Top.lib \in Loader!Libs /\ Loader!Top.next \in Nat \ {0}
      /\ Loader!Top \in LoadCall
  <2>1. /\ stack[Len(stack)] \in LoadCall
        /\ stack[Len(stack)].lib <= Len(libs)
    BY <1>1, StackTyped
  <2> QED
    BY <2>1, StackTyped DEF Loader!Top, Loader!Libs, LoadCall
<1>3. libs[Loader!Top.lib].file \in Files
  <2>1. libs[Loader!Top.lib] \in Lib
    BY <1>2, StackTyped DEF Loader!Libs
  <2> QED
    BY <2>1 DEF Lib
<1>4. Loader!Needs \in Seq(Files \cup {"missing"})
  BY <1>3, FilesTyped DEF LoaderInv, Loader!Needs, Loader!FileOf, Loader!SystemType
<1>5. Loader!Needs[Loader!Top.next] \in Files \cup {"missing"}
  BY <1>2, <1>4
<1>6. /\ Loader!Advanced \in Seq(LoadCall)
      /\ Len(Loader!Advanced) = Len(stack)
      /\ \A n \in DOMAIN stack : Loader!Advanced[n].lib = stack[n].lib
  <2> DEFINE top == [Loader!Top EXCEPT !.next = @ + 1]
  <2>1. top \in LoadCall /\ top.lib = Loader!Top.lib
    BY <1>2 DEF LoadCall
  <2>2. Loader!Advanced = [stack EXCEPT ![Len(stack)] = top]
    BY <1>1, <1>2, StackTyped DEF Loader!Advanced, Loader!Top, LoadCall
  <2> HIDE DEF top
  <2> QED
    BY <1>1, <2>1, <2>2, StackTyped DEF Loader!Top
<1> QED
  BY <1>5, <1>6

LEMMA StackOnly ==
  ASSUME LoaderInv,
         UNCHANGED <<system, libs, loaderPc, first, at, modules, dtv,
                     tlsBlocks, told>>,
         stack' \in Seq(LoadCall),
         \A n \in DOMAIN stack' : stack'[n].lib <= Len(libs)
  PROVE  LoaderInv'
<1>1. (\E S : modules \in Seq(S))'
  BY DEF LoaderInv, LoaderTypes
<1>2. LoaderTypes'
  BY <1>1 DEF LoaderInv, LoaderTypes
<1>3. BoundOK'
  <2>1. Len(libs') \in Nat /\ Len(libs') >= Len(libs) /\ Loader!Libs' = Loader!Libs
    BY StackTyped DEF Loader!Libs
  <2> QED
    BY <2>1, BoundStays DEF LoaderInv
<1>4. RelocationOK' /\ InitsOK' /\ ToldOK'
  BY DEF LoaderInv, RelocationOK, InitsOK, ToldOK, LastInit, Loader!Libs
<1> QED
  BY <1>2, <1>3, <1>4 DEF LoaderInv

\* rtld_load_needed: a library is put at the end of the list.
LEMMA LoadNeededInv ==
  ASSUME LoaderInv, Loader!LoadNeeded PROVE LoaderInv'
<1> DEFINE f == Loader!Needs[Loader!Top.next]
<1>1. /\ loaderPc = "load" /\ stack # <<>> /\ Loader!Top.next <= Len(Loader!Needs)
      /\ UNCHANGED <<system, loaderPc, first, at, modules, dtv, tlsBlocks, told>>
  BY DEF Loader!LoadNeeded
<1>2. /\ f \in Files \cup {"missing"}
      /\ Loader!Advanced \in Seq(LoadCall)
      /\ Len(Loader!Advanced) = Len(stack)
      /\ \A n \in DOMAIN stack : Loader!Advanced[n].lib = stack[n].lib
  BY <1>1, NeededFile
<1>3. CASE stack' = Loader!Advanced /\ UNCHANGED libs
  <2>1. stack' \in Seq(LoadCall)
        /\ \A n \in DOMAIN stack' : stack'[n].lib <= Len(libs)
    BY <1>2, <1>3, StackTyped
  <2> QED
    BY <1>1, <1>3, <2>1, StackOnly
<1>4. CASE /\ f # "missing" /\ libs' = Append(libs, Loader!NewLib(f))
           /\ stack' = Append(Loader!Advanced, [lib |-> Len(libs'), next |-> 1])
  <2>1. /\ libs' \in Seq(Lib) /\ Len(libs') = Len(libs) + 1
        /\ \A i \in Loader!Libs : libs'[i] = libs[i]
        /\ libs'[Len(libs) + 1].inits = 0
        /\ BoundOK'
    BY <1>1, <1>2, <1>4, AppendLib
  <2>2. Len(libs) \in Nat /\ first \in 1 .. Len(libs)
    BY DEF LoaderInv, LoaderTypes
  <2>3. LoaderTypes'
    <3>1. /\ stack' \in Seq(LoadCall)
          /\ \A n \in DOMAIN stack' : stack'[n].lib <= Len(libs')
      <4> DEFINE top == [lib |-> Len(libs'), next |-> 1]
      <4>1. top \in LoadCall /\ top.lib = Len(libs')
        BY <2>1, <2>2 DEF LoadCall
      <4> HIDE DEF top
      <4>2. stack' = Append(Loader!Advanced, top)
        BY <1>4 DEF top
      <4>3. \A n \in DOMAIN stack : Loader!Advanced[n].lib <= Len(libs)
                                     /\ Loader!Advanced[n].lib \in Nat
        <5>1. \A n \in DOMAIN stack : stack[n] \in LoadCall
          BY StackTyped
        <5> QED
          BY <1>2, <5>1, StackTyped DEF LoadCall
      <4>4. DOMAIN Loader!Advanced = DOMAIN stack
        BY <1>2, StackTyped
      <4> QED
        BY <1>2, <2>1, <2>2, <4>1, <4>2, <4>3, <4>4
    <3> QED
      BY <1>1, <2>1, <2>2, <3>1 DEF LoaderInv, LoaderTypes
  <2>4. RelocationOK' /\ InitsOK' /\ ToldOK'
    <3>1. Loader!Libs' = Loader!Libs \cup {Len(libs) + 1}
      BY <2>1, <2>2 DEF Loader!Libs
    <3>2. RelocationOK'
      BY <1>1, <2>1, <2>2, <3>1 DEF LoaderInv, RelocationOK
    <3>3. InitsOK'
      BY <1>1, <2>1, <3>1 DEF LoaderInv, InitsOK
    <3>4. ToldOK'
      BY <1>1 DEF LoaderInv, ToldOK
    <3> QED
      BY <3>2, <3>3, <3>4
  <2> QED
    BY <2>1, <2>3, <2>4 DEF LoaderInv
<1> QED
  BY <1>2, <1>3, <1>4 DEF Loader!LoadNeeded

LEMMA LoadedNeededInv ==
  ASSUME LoaderInv, Loader!LoadedNeeded PROVE LoaderInv'
<1>1. /\ stack # <<>> /\ stack' = SubSeq(stack, 1, Len(stack) - 1)
      /\ UNCHANGED <<system, libs, loaderPc, first, at, modules, dtv,
                     tlsBlocks, told>>
  BY DEF Loader!LoadedNeeded
<1>2. /\ Len(stack) - 1 \in Nat /\ Len(stack) - 1 <= Len(stack)
      /\ stack \in Seq(LoadCall)
      /\ \A n \in DOMAIN stack : stack[n].lib <= Len(libs)
  BY <1>1, StackTyped
<1>3. /\ stack' \in Seq(LoadCall)
      /\ \A n \in DOMAIN stack' : n \in DOMAIN stack /\ stack'[n] = stack[n]
  BY <1>1, <1>2, SubSeqProperties
<1> QED
  BY <1>1, <1>2, <1>3, StackOnly

\* rtld_dlopen: all that was there is relocated.
LEMMA DlopenInv ==
  ASSUME LoaderInv, NEW f \in Files, Loader!Dlopen(f) PROVE LoaderInv'
<1>1. /\ loaderPc = "run" /\ loaderPc' = "load"
      /\ libs' = Append(libs, Loader!NewLib(f)) /\ first' = Len(libs')
      /\ stack' = <<[lib |-> Len(libs'), next |-> 1]>>
      /\ UNCHANGED <<system, at, modules, dtv, tlsBlocks, told>>
  BY DEF Loader!Dlopen
<1>2. /\ libs' \in Seq(Lib) /\ Len(libs') = Len(libs) + 1
      /\ \A i \in Loader!Libs : libs'[i] = libs[i]
      /\ libs'[Len(libs) + 1].inits = 0
      /\ BoundOK'
  BY <1>1, AppendLib
<1>3. Len(libs) \in Nat \ {0}
  BY DEF LoaderInv, LoaderTypes
<1>4. LoaderTypes'
  <2>1. /\ stack' \in Seq(LoadCall)
        /\ \A n \in DOMAIN stack' : stack'[n].lib <= Len(libs')
    BY <1>1, <1>2, <1>3 DEF LoadCall
  <2> QED
    BY <1>1, <1>2, <1>3, <2>1 DEF LoaderInv, LoaderTypes
<1>5. RelocationOK' /\ InitsOK' /\ ToldOK'
  BY <1>1, <1>2, <1>3
     DEF LoaderInv, RelocationOK, InitsOK, ToldOK, Loader!Libs
<1> QED
  BY <1>2, <1>4, <1>5 DEF LoaderInv

\* Libraries that only get their modules' numbers
LEMMA NumberedLibs ==
  ASSUME LoaderInv, system' = system, libs' \in Seq(Lib), Len(libs') = Len(libs),
         \A i \in Loader!Libs :
           /\ libs'[i].file = libs[i].file /\ libs'[i].bound = libs[i].bound
           /\ libs'[i].relocated = libs[i].relocated
           /\ libs'[i].inits = libs[i].inits,
         loaderPc = "load", loaderPc' = "relocate", at' = first,
         first' = first
  PROVE  RelocationOK' /\ InitsOK' /\ BoundOK'
<1>1. Loader!Libs' = Loader!Libs /\ Len(libs') \in Nat /\ Len(libs') >= Len(libs)
  BY DEF Loader!Libs, LoaderInv, LoaderTypes
<1>2. BoundOK'
  BY <1>1, BoundStays DEF LoaderInv
<1> QED
  BY <1>1, <1>2 DEF LoaderInv, RelocationOK, InitsOK

\* rtld_tls_setup: nobody has been told of a block yet.
LEMMA SetupTlsInv ==
  ASSUME LoaderInv, Loader!SetupTls PROVE LoaderInv'
<1> DEFINE count == Loader!Cardinality(Loader!TlsLibs)
<1>0. Len(libs) \in Nat /\ libs \in Seq(Lib) /\ DOMAIN libs = Loader!Libs
  BY StackTyped DEF Loader!Libs
<1>1. /\ loaderPc = "load" /\ first = 1 /\ loaderPc' = "relocate" /\ at' = 1
      /\ modules' = [m \in 1 .. count |->
                       CHOOSE i \in Loader!TlsLibs : Loader!ModuleOf(i) = m]
      /\ libs' = [i \in Loader!Libs |->
                    IF Loader!HasTls(i)
                      THEN [libs[i] EXCEPT !.modid = Loader!ModuleOf(i)]
                      ELSE libs[i]]
      /\ dtv' = [m \in 1 .. count |-> m] /\ tlsBlocks' = count
      /\ UNCHANGED <<system, stack, first, told>>
  BY Zenon DEF Loader!SetupTls
<1>2. \A T \in SUBSET Loader!Libs : Loader!Cardinality(T) \in Nat
  <2>1. IsFiniteSet(Loader!Libs)
    BY <1>0, FS_Interval DEF Loader!Libs
  <2>2. \A T \in SUBSET Loader!Libs : Cardinality(T) \in Nat
    BY <2>1, FS_Subset, FS_CardinalityType
  <2>3. \A T : Loader!Cardinality(T) = Cardinality(T)
    BY DEF Loader!Cardinality, Cardinality
  <2> QED
    BY <2>2, <2>3
<1>3. count \in Nat
  BY <1>2 DEF Loader!TlsLibs
<1>4. \A i : Loader!ModuleOf(i) \in Nat
  <2> SUFFICES ASSUME NEW i PROVE Loader!ModuleOf(i) \in Nat
    OBVIOUS
  <2>1. {j \in Loader!TlsLibs : j <= i} \in SUBSET Loader!Libs
    BY DEF Loader!TlsLibs
  <2> QED
    BY <1>2, <2>1 DEF Loader!ModuleOf
<1> HIDE DEF count
<1>5. /\ libs' \in Seq(Lib) /\ Len(libs') = Len(libs)
      /\ \A i \in Loader!Libs :
           /\ libs'[i].file = libs[i].file /\ libs'[i].bound = libs[i].bound
           /\ libs'[i].relocated = libs[i].relocated
           /\ libs'[i].inits = libs[i].inits
  <2>1. \A lib \in Lib, m \in Nat :
          LET new == [lib EXCEPT !.modid = m]
          IN  /\ new \in Lib /\ new.file = lib.file /\ new.bound = lib.bound
              /\ new.relocated = lib.relocated /\ new.inits = lib.inits
    BY DEF Lib
  <2>2. \A i \in Loader!Libs : libs[i] \in Lib
    BY <1>0 DEF Loader!Libs
  <2>3. \A i \in Loader!Libs :
          /\ libs'[i] \in Lib
          /\ libs'[i].file = libs[i].file /\ libs'[i].bound = libs[i].bound
          /\ libs'[i].relocated = libs[i].relocated
          /\ libs'[i].inits = libs[i].inits
    BY <1>1, <1>4, <2>1, <2>2
  <2>4. libs' \in Seq(Lib) /\ Len(libs') = Len(libs)
    BY <1>0, <1>1, <2>3 DEF Loader!Libs
  <2> QED
    BY <2>3, <2>4
<1>6. RelocationOK' /\ InitsOK' /\ BoundOK'
  BY <1>1, <1>5, NumberedLibs
<1>7. /\ dtv' \in Seq(Nat) /\ Len(dtv') = count /\ Len(modules') = count
      /\ \E S : modules' \in Seq(S)
  <2> DEFINE S == {modules'[m] : m \in 1 .. count}
  <2>1. modules' \in Seq(S) /\ Len(modules') = count
    BY <1>1, <1>3
  <2>2. dtv' \in Seq(Nat) /\ Len(dtv') = count
    BY <1>1, <1>3
  <2> QED
    BY <2>1, <2>2
<1>8. ToldOK'
  BY <1>1, <1>3, <1>7 DEF LoaderInv, ToldOK
<1>9. LoaderTypes'
  <2>1. /\ loaderPc' = "relocate" /\ at' = 1 /\ tlsBlocks' = count
        /\ UNCHANGED <<system, stack, first, told>>
    BY <1>1
  <2> QED
    BY <1>3, <1>5, <1>7, <2>1 DEF LoaderInv, LoaderTypes
<1> QED
  BY <1>6, <1>8, <1>9 DEF LoaderInv

\* rtld_dlopen, for a library with thread-local variables: a vector that has
\* to grow keeps its blocks.
LEMMA RegisterTlsInv ==
  ASSUME LoaderInv, Loader!RegisterTls PROVE LoaderInv'
<1> DEFINE m == Len(modules) + 1
<1>0. PICK S : modules \in Seq(S)
  BY DEF LoaderInv, LoaderTypes
<1>1. /\ Len(modules) \in Nat /\ dtv \in Seq(Nat) /\ Len(dtv) \in Nat
      /\ libs \in Seq(Lib) /\ first \in 1 .. Len(libs) /\ Len(modules) <= Len(dtv)
  BY <1>0 DEF LoaderInv, LoaderTypes, ToldOK
<1>2. /\ loaderPc = "load" /\ first > 1 /\ loaderPc' = "relocate" /\ at' = first
      /\ UNCHANGED <<system, stack, first, tlsBlocks, told>>
  BY DEF Loader!RegisterTls
<1>3. \/ /\ modules' = Append(modules, first)
         /\ libs' = [libs EXCEPT ![first].modid = m]
         /\ dtv' = Loader!Grown(m)
      \/ UNCHANGED <<modules, libs, dtv>>
  BY DEF Loader!RegisterTls
<1>4. /\ libs' \in Seq(Lib) /\ Len(libs') = Len(libs)
      /\ \A i \in Loader!Libs :
           /\ libs'[i].file = libs[i].file /\ libs'[i].bound = libs[i].bound
           /\ libs'[i].relocated = libs[i].relocated
           /\ libs'[i].inits = libs[i].inits
  <2>1. CASE libs' = [libs EXCEPT ![first].modid = m]
    <3> DEFINE new == [libs[first] EXCEPT !.modid = m]
    <3>0. libs[first] \in Lib /\ m \in Nat
      BY <1>1
    <3>1. /\ new \in Lib /\ new.file = libs[first].file
          /\ new.bound = libs[first].bound
          /\ new.relocated = libs[first].relocated
          /\ new.inits = libs[first].inits
      BY <3>0 DEF Lib
    <3>2. libs' = [libs EXCEPT ![first] = new]
      BY <2>1
    <3> HIDE DEF new
    <3> QED
      BY <1>1, <3>1, <3>2 DEF Loader!Libs
  <2>2. CASE UNCHANGED libs
    BY <1>1, <2>2 DEF Loader!Libs
  <2> QED
    BY <1>3, <2>1, <2>2
<1>5. RelocationOK' /\ InitsOK' /\ BoundOK'
  BY <1>2, <1>4, NumberedLibs
<1>6. /\ dtv' \in Seq(Nat) /\ Len(modules') <= Len(dtv')
      /\ \E R : modules' \in Seq(R)
      /\ \A i \in DOMAIN dtv : i \in DOMAIN dtv' /\ dtv'[i] = dtv[i]
  <2>1. CASE modules' = Append(modules, first) /\ dtv' = Loader!Grown(m)
    <3>1. modules' \in Seq(S \cup {first}) /\ Len(modules') = m
      BY <1>0, <2>1
    <3>2. CASE m <= Len(dtv)
      <4>1. dtv' = dtv
        BY <2>1, <3>2 DEF Loader!Grown
      <4> QED
        BY <1>1, <3>1, <3>2, <4>1
    <3>3. CASE m > Len(dtv)
      <4>1. dtv' = [i \in 1 .. m + 1 |-> IF i <= Len(dtv) THEN dtv[i] ELSE 0]
        BY <1>1, <2>1, <3>3 DEF Loader!Grown
      <4>2. m + 1 \in Nat /\ \A i \in 1 .. m + 1 :
              (IF i <= Len(dtv) THEN dtv[i] ELSE 0) \in Nat
        BY <1>1
      <4> HIDE DEF m
      <4>3. dtv' \in Seq(Nat) /\ Len(dtv') = m + 1
        BY <4>1, <4>2
      <4>4. \A i \in DOMAIN dtv : i \in DOMAIN dtv' /\ dtv'[i] = dtv[i]
        BY <1>1, <3>3, <4>1 DEF m
      <4> QED
        BY <1>1, <3>1, <4>3, <4>4 DEF m
    <3> QED
      BY <1>1, <3>2, <3>3
  <2>2. CASE UNCHANGED <<modules, dtv>>
    BY <1>0, <1>1, <2>2
  <2> QED
    BY <1>3, <2>1, <2>2
<1>7. ToldOK'
  BY <1>2, <1>6 DEF LoaderInv, ToldOK
<1>8. LoaderTypes'
  BY <1>1, <1>2, <1>4, <1>6 DEF LoaderInv, LoaderTypes
<1> QED
  BY <1>5, <1>7, <1>8 DEF LoaderInv

\* rtld_tls_get_addr: a slot that has a block keeps it.
LEMMA GetAddrInv ==
  ASSUME LoaderInv, NEW t \in Users, NEW m \in 1 .. MaxLibs,
         Loader!GetAddr(t, m)
  PROVE  /\ LoaderInv'
         /\ \A u \in Users, n \in 1 .. MaxLibs :
              told[u][n] # 0 => told'[u][n] = told[u][n]
<1>0. PICK S : modules \in Seq(S)
  BY DEF LoaderInv, LoaderTypes
<1>1. /\ dtv \in Seq(Nat) /\ tlsBlocks \in Nat
      /\ told \in [Users -> [1 .. MaxLibs -> Nat]] /\ Len(modules) <= Len(dtv)
      /\ \A u \in Users, n \in 1 .. MaxLibs :
           told[u][n] # 0 => n \in DOMAIN dtv /\ dtv[n] = told[u][n]
  BY DEF LoaderInv, LoaderTypes, ToldOK
<1>2. m \in DOMAIN modules /\ m \in DOMAIN dtv
  BY <1>0, <1>1 DEF Loader!GetAddr
<1>3. /\ UNCHANGED <<system, libs, loaderPc, stack, first, at, modules>>
      /\ loaderPc # "load"
      /\ told' = [told EXCEPT ![t][m] = dtv'[m]]
      /\ \/ dtv[m] # 0 /\ dtv' = dtv /\ tlsBlocks' = tlsBlocks
         \/ /\ dtv[m] = 0 /\ tlsBlocks' = tlsBlocks + 1
            /\ dtv' = [dtv EXCEPT ![m] = tlsBlocks']
  BY DEF Loader!GetAddr, Loader!Running
<1>4. /\ dtv' \in Seq(Nat) /\ tlsBlocks' \in Nat /\ Len(dtv') = Len(dtv)
      /\ \A n \in DOMAIN dtv : dtv[n] # 0 => dtv'[n] = dtv[n]
  <2>1. CASE dtv' = dtv /\ tlsBlocks' = tlsBlocks
    BY <1>1, <2>1
  <2>2. CASE /\ dtv[m] = 0 /\ tlsBlocks' = tlsBlocks + 1
             /\ dtv' = [dtv EXCEPT ![m] = tlsBlocks']
    <3>1. tlsBlocks' \in Nat
      BY <1>1, <2>2
    <3> QED
      BY <1>1, <1>2, <2>2, <3>1
  <2> QED
    BY <1>3, <2>1, <2>2
<1>5. /\ dtv'[m] \in Nat /\ m \in DOMAIN dtv' /\ DOMAIN dtv' = DOMAIN dtv
  BY <1>1, <1>2, <1>4
<1>6. /\ told' \in [Users -> [1 .. MaxLibs -> Nat]]
      /\ told'[t][m] = dtv'[m]
      /\ \A u \in Users, n \in 1 .. MaxLibs :
           ~(u = t /\ n = m) => told'[u][n] = told[u][n]
  BY <1>1, <1>3, <1>5
<1>7. \A u \in Users, n \in 1 .. MaxLibs :
        told[u][n] # 0 => told'[u][n] = told[u][n]
  BY <1>1, <1>4, <1>6
<1>8. ToldOK'
  <2>1. \A u \in Users, n \in 1 .. MaxLibs :
          told'[u][n] # 0 => n \in DOMAIN dtv' /\ dtv'[n] = told'[u][n]
    BY <1>1, <1>4, <1>5, <1>6
  <2> QED
    BY <1>1, <1>3, <1>4, <2>1 DEF ToldOK
<1>9. LoaderTypes'
  <2>1. (\E R : modules \in Seq(R))'
    BY <1>0, <1>3
  <2> QED
    BY <1>3, <1>4, <1>6, <2>1 DEF LoaderInv, LoaderTypes
<1>10. BoundOK'
  <2>1. Len(libs') \in Nat /\ Len(libs') >= Len(libs) /\ Loader!Libs' = Loader!Libs
    BY <1>3, StackTyped DEF Loader!Libs
  <2> QED
    BY <1>3, <2>1, BoundStays DEF LoaderInv
<1>11. RelocationOK' /\ InitsOK'
  BY <1>3 DEF LoaderInv, RelocationOK, InitsOK, LastInit, Loader!Libs
<1> QED
  BY <1>7, <1>8, <1>9, <1>10, <1>11 DEF LoaderInv

\* A library is bound to the first definitions there are, but for its own.
LEMMA RelocateInv ==
  ASSUME LoaderInv, Loader!Relocate PROVE LoaderInv'
<1> DEFINE bound == [s \in Loader!FileOf(at).uses |-> Loader!Resolve(at, s)]
           new == [libs[at] EXCEPT !.relocated = TRUE, !.bound = bound]
<1>1. /\ loaderPc = "relocate" /\ at \in Loader!Libs /\ at' = at + 1
      /\ libs' = [libs EXCEPT ![at].relocated = TRUE, ![at].bound = bound]
      /\ UNCHANGED <<system, loaderPc, stack, first, modules, dtv, tlsBlocks,
                     told>>
  BY DEF Loader!Relocate
<1>2. libs[at] \in Lib /\ Len(libs) \in Nat /\ at \in Nat /\ at \in DOMAIN libs
  BY <1>1, StackTyped DEF Loader!Libs
<1>3. bound \in Bounds
  <2>1. libs[at].file \in Files
    BY <1>2 DEF Lib
  <2>2. Loader!FileOf(at).uses \in SUBSET Symbols
    BY <2>1, FilesTyped DEF LoaderInv, Loader!FileOf, Loader!SystemType
  <2>3. \A s \in Loader!FileOf(at).uses : Loader!Resolve(at, s) \in Nat
    BY <1>2, FindFirst DEF Loader!Resolve
  <2>4. bound \in [Loader!FileOf(at).uses -> Nat]
    BY <2>3
  <2> QED
    BY <2>2, <2>4 DEF Bounds
<1> HIDE DEF bound
<1>4. /\ new \in Lib /\ new.file = libs[at].file /\ new.inits = libs[at].inits
      /\ new.bound = bound /\ new.relocated = TRUE
  BY <1>2, <1>3 DEF Lib
<1>5. libs' = [libs EXCEPT ![at] = new]
  BY <1>1, <1>2, <1>3, StackTyped DEF Lib
<1> HIDE DEF new
<1>6. /\ libs' \in Seq(Lib) /\ Len(libs') = Len(libs) /\ libs'[at] = new
      /\ \A i \in Loader!Libs \ {at} : libs'[i] = libs[i]
      /\ Loader!Libs' = Loader!Libs
  BY <1>2, <1>4, <1>5, StackTyped DEF Loader!Libs
<1>7. \A i \in Loader!Libs : libs'[i].file = libs[i].file
                             /\ libs'[i].inits = libs[i].inits
  BY <1>4, <1>6
<1>8. \A s : Loader!Find(s)' = Loader!Find(s)
  <2>1. \A i \in Loader!Libs : Loader!FileOf(i)' = Loader!FileOf(i)
    BY <1>1, <1>7 DEF Loader!FileOf
  <2> SUFFICES ASSUME NEW s PROVE Loader!Find(s)' = Loader!Find(s)
    OBVIOUS
  <2>2. Loader!Definers(s)' = Loader!Definers(s)
    BY <1>6, <2>1 DEF Loader!Definers
  <2> QED
    BY <2>2 DEF Loader!Find
<1>9. BoundOK'
  <2> SUFFICES ASSUME NEW i \in Loader!Libs, NEW s \in DOMAIN libs'[i].bound,
                      s \notin Loader!FileOf(i)'.defs, libs'[i].bound[s] # 0
               PROVE  libs'[i].bound[s] = Loader!Find(s)
    BY <1>6, <1>8 DEF BoundOK
  <2>1. s \notin Loader!FileOf(i).defs
    BY <1>1, <1>7 DEF Loader!FileOf
  <2>2. CASE i = at
    BY <1>4, <1>6, <2>1, <2>2 DEF bound, Loader!Resolve
  <2>3. CASE i # at
    BY <1>6, <2>1, <2>3 DEF LoaderInv, BoundOK
  <2> QED
    BY <2>2, <2>3
<1>10. RelocationOK' /\ InitsOK'
  BY <1>1, <1>2, <1>4, <1>6, <1>7
     DEF LoaderInv, RelocationOK, InitsOK, Loader!Libs
<1>11. ToldOK'
  BY <1>1 DEF LoaderInv, ToldOK
<1>12. LoaderTypes'
  <2>1. (\E R : modules \in Seq(R))'
    BY <1>1 DEF LoaderInv, LoaderTypes
  <2> QED
    BY <1>1, <1>2, <1>6, <2>1 DEF LoaderInv, LoaderTypes
<1> QED
  BY <1>9, <1>10, <1>11, <1>12 DEF LoaderInv

LEMMA RelocatedInv ==
  ASSUME LoaderInv, Loader!Relocated PROVE LoaderInv'
<1>1. /\ loaderPc = "relocate" /\ at > Len(libs) /\ loaderPc' = "init"
      /\ at' = first
      /\ UNCHANGED <<system, libs, stack, first, modules, dtv, tlsBlocks, told>>
  BY DEF Loader!Relocated
<1>2. first \in 1 .. Len(libs) /\ Len(libs) \in Nat /\ at \in Nat
  BY DEF LoaderInv, LoaderTypes
<1>3. LoaderTypes'
  <2>1. (\E R : modules \in Seq(R))'
    BY <1>1 DEF LoaderInv, LoaderTypes
  <2> QED
    BY <1>1, <1>2, <2>1 DEF LoaderInv, LoaderTypes
<1>4. BoundOK'
  <2>1. Len(libs') >= Len(libs) /\ Loader!Libs' = Loader!Libs
    BY <1>1, <1>2 DEF Loader!Libs
  <2> QED
    BY <1>1, <1>2, <2>1, BoundStays DEF LoaderInv
<1>5. RelocationOK' /\ InitsOK' /\ ToldOK'
  BY <1>1, <1>2
     DEF LoaderInv, RelocationOK, InitsOK, ToldOK, LastInit, Loader!Libs
<1> QED
  BY <1>3, <1>4, <1>5 DEF LoaderInv

\* Initialisers are called once: of each library at the start, later of the
\* one that is opened.
LEMMA InitLibInv ==
  ASSUME LoaderInv, Loader!InitLib PROVE LoaderInv'
<1> DEFINE new == [libs[at] EXCEPT !.inits = @ + 1]
<1>1. /\ loaderPc = "init" /\ at' = at + 1
      /\ libs' = [libs EXCEPT ![at].inits = @ + 1]
      /\ loaderPc' = IF at = LastInit THEN "run" ELSE "init"
      /\ UNCHANGED <<system, stack, first, modules, dtv, tlsBlocks, told>>
  BY DEF Loader!InitLib, LastInit
<1>2. /\ first \in 1 .. Len(libs) /\ Len(libs) \in Nat
      /\ at \in first .. LastInit /\ LastInit \in Nat /\ LastInit <= Len(libs)
  BY <1>1 DEF LoaderInv, LoaderTypes, RelocationOK, LastInit
<1>3. at \in Loader!Libs /\ libs[at] \in Lib /\ libs[at].inits = 0
  BY <1>1, <1>2, StackTyped DEF Loader!Libs, LoaderInv, InitsOK
<1>4. /\ new \in Lib /\ new.file = libs[at].file /\ new.inits = 1
      /\ new.bound = libs[at].bound /\ new.relocated = libs[at].relocated
  BY <1>3 DEF Lib
<1>5. libs' = [libs EXCEPT ![at] = new]
  BY <1>1
<1> HIDE DEF new
<1>6. /\ libs' \in Seq(Lib) /\ Len(libs') = Len(libs) /\ libs'[at] = new
      /\ \A i \in Loader!Libs \ {at} : libs'[i] = libs[i]
      /\ Loader!Libs' = Loader!Libs
  BY <1>2, <1>3, <1>4, <1>5, StackTyped DEF Loader!Libs
<1>7. BoundOK'
  <2>1. Len(libs') \in Nat /\ Len(libs') >= Len(libs)
    BY <1>2, <1>6
  <2> QED
    BY <1>1, <1>4, <1>6, <2>1, BoundStays DEF LoaderInv
<1>8. RelocationOK'
  <2>1. \A i \in Loader!Libs : libs'[i].relocated
    BY <1>1, <1>4, <1>6 DEF LoaderInv, RelocationOK
  <2>2. loaderPc' = "init" => at' \in first .. LastInit
    BY <1>1, <1>2
  <2> QED
    BY <1>1, <1>6, <2>1, <2>2 DEF RelocationOK, LastInit
<1>9. InitsOK'
  BY <1>1, <1>2, <1>4, <1>6 DEF LoaderInv, InitsOK, Loader!Libs
<1>10. ToldOK'
  BY <1>1 DEF LoaderInv, ToldOK
<1>11. LoaderTypes'
  <2>1. (\E R : modules \in Seq(R))'
    BY <1>1 DEF LoaderInv, LoaderTypes
  <2> QED
    BY <1>1, <1>2, <1>6, <2>1 DEF LoaderInv, LoaderTypes
<1> QED
  BY <1>7, <1>8, <1>9, <1>10, <1>11 DEF LoaderInv

LEMMA NextLoader ==
  LoaderInv /\ [Loader!Next]_(Loader!vars) => LoaderInv'
<1> SUFFICES ASSUME LoaderInv, [Loader!Next]_(Loader!vars) PROVE LoaderInv'
  OBVIOUS
<1>1. CASE UNCHANGED Loader!vars
  BY <1>1, StackOnly, StackTyped DEF Loader!vars
<1> QED
  BY <1>1, LoadNeededInv, LoadedNeededInv, SetupTlsInv, RegisterTlsInv,
     RelocateInv, RelocatedInv, InitLibInv, DlopenInv, GetAddrInv
     DEF Loader!Next

\* rtld.c: the list of libraries, its relocation and the vector of blocks are
\* in order in every reachable state.
THEOREM LoaderInvariance == Loader!Spec => []LoaderInv
  BY InitLoader, NextLoader, PTL DEF Loader!Spec

\* rtld_find_sym and resolve_sym_value: whenever they were loaded, libraries
\* that import a symbol share one definition of it.
THEOREM SharedDefinitions == Loader!Spec => []OneDefinition
<1>1. LoaderInv => OneDefinition
  <2> SUFFICES ASSUME BoundOK PROVE Loader!OneDefinition
    BY DEF LoaderInv, OneDefinition
  <2> QED
    BY DEF BoundOK, Loader!OneDefinition
<1> QED
  BY <1>1, LoaderInvariance, PTL

\* rtld_main and rtld_dlopen: code runs when everything is relocated, and
\* initialisers run once.
THEOREM AllRelocated == Loader!Spec => []RelocatedBeforeRun
<1>1. LoaderInv => RelocatedBeforeRun
  BY DEF LoaderInv, RelocationOK, InitsOK, RelocatedBeforeRun,
         Loader!RelocatedBeforeRun
<1> QED
  BY <1>1, LoaderInvariance, PTL

\* rtld_tls_get_addr and the growth of the vector in rtld_dlopen: what a thread
\* was told stays.
THEOREM ToldStays == Loader!Spec => BlocksStay
<1>1. LoaderInv /\ [Loader!Next]_(Loader!vars) =>
        [\A t \in Users, m \in 1 .. MaxLibs :
           told[t][m] # 0 => told'[t][m] = told[t][m]]_(Loader!vars)
  <2> SUFFICES ASSUME LoaderInv, Loader!Next
               PROVE  \A t \in Users, m \in 1 .. MaxLibs :
                        told[t][m] # 0 => told'[t][m] = told[t][m]
    OBVIOUS
  <2>1. ASSUME NEW t \in Users, NEW m \in 1 .. MaxLibs, Loader!GetAddr(t, m)
        PROVE  \A u \in Users, n \in 1 .. MaxLibs :
                 told[u][n] # 0 => told'[u][n] = told[u][n]
    BY <2>1, GetAddrInv
  <2>2. CASE told' = told
    BY <2>2
  <2> QED
    BY <2>1, <2>2
       DEF Loader!Next, Loader!LoadNeeded, Loader!LoadedNeeded,
           Loader!SetupTls, Loader!RegisterTls, Loader!Relocate,
           Loader!Relocated, Loader!InitLib, Loader!Dlopen
<1> QED
  BY <1>1, LoaderInvariance, PTL
     DEF Loader!Spec, BlocksStay, Loader!BlocksStay
=============================================================================
