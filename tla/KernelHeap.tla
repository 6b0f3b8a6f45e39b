----------------------------- MODULE KernelHeap -----------------------------
(***************************************************************************)
(* kmem.c: the heap of the kernel's own structures (the nodes of the buddy  *)
(* tree, the records of shared memory).  It serves one caller at a time:    *)
(* kernel code runs with interrupts masked and no handler of an interrupt   *)
(* allocates.                                                               *)
(*                                                                          *)
(* Kernel code that calls kfree names a block it holds, so Kfree ranges     *)
(* over the blocks in live, a history variable of what callers were given.  *)
(***************************************************************************)
EXTENDS Chunks

CONSTANTS Base,     \* MEMORY_START
          Limit,    \* MEMORY_END, the last byte of the heap's 3 MiB
          Sizes,    \* sizes that kmalloc is asked for
          Counts    \* amounts that kcalloc is asked for

ASSUME KernelHeapAssumption ==
  /\ Base \in Nat \ {0}
  /\ Limit \in Nat
  /\ Base + Header <= Limit
  /\ Sizes \subseteq Nat
  /\ Counts \subseteq Nat

VARIABLES chunks,   \* the list headed by `allocated'
          live      \* history: the blocks callers hold

vars == <<chunks, live>>

Requests == Sizes \cup {size * amount : size \in Sizes, amount \in Counts}

Init == \* init_kheap
  /\ chunks = NewHeap(Base)
  /\ live = {}

\* The walk stops at a free chunk that is large enough.
KmallocReuse(n) ==
  /\ Fits(chunks, n) # {}
  /\ chunks' = Reuse(chunks, n)
  /\ live' = live \cup {[ptr |-> chunks[FirstFit(chunks, n)].start, size |-> n]}

\* The walk falls off the list and a chunk is written past its end.
KmallocExtend(n) ==
  /\ Fits(chunks, n) = {}
  /\ CanExtend(chunks, n, Limit)
  /\ chunks' = Extend(chunks, n)
  /\ live' = live \cup {[ptr |-> NextStart(chunks), size |-> n]}

\* NULL: nothing changes.
KmallocFail(n) ==
  /\ Fits(chunks, n) = {}
  /\ ~CanExtend(chunks, n, Limit)
  /\ UNCHANGED vars

Kmalloc(n) == KmallocReuse(n) \/ KmallocExtend(n) \/ KmallocFail(n)

\* memset fills the block with zeros, which no chunk's fields depend on.
Kcalloc(amount, size) == Kmalloc(size * amount)

Kfree(b) ==
  /\ chunks' = FreeAt(chunks, b.ptr)
  /\ live' = live \ {b}

Next ==
  \/ \E n \in Sizes : Kmalloc(n)
  \/ \E amount \in Counts, size \in Sizes : Kcalloc(amount, size)
  \/ \E b \in live : Kfree(b)

Spec == Init /\ [][Next]_vars

-----------------------------------------------------------------------------
(* Properties.                                                             *)

\* The first chunk stays the header that init_kheap wrote, and a list is
\* never empty: kmalloc relies on both when it dereferences prev.
TypeOK ==
  /\ chunks \in Seq(Chunk)
  /\ Len(chunks) >= 1
  /\ chunks[1] = [start |-> Base, size |-> Header, used |-> TRUE]
  /\ live \subseteq [ptr : Nat, size : Requests]

\* Every chunk lies past its own header, and the header past the chunk before.
Layout == Ordered(chunks)

\* kfree's search by distance (|mem - start| <= size) lands on the caller's
\* own chunk and merging never swallows a block in use: the used chunks are
\* exactly the blocks that callers hold.
LiveAreUsed == live = UsedBlocks(chunks)

\* Every order of frees leaves neighbouring free chunks merged, although
\* kfree looks one chunk back and one chunk ahead only.
NoFreeNeighbours == Coalesced(chunks)

\* The limit test forgets the header, so a block may pass MEMORY_END, by the
\* header and no more.
OverrunIsBounded == \A i \in 1..Len(chunks) : End(chunks[i]) <= Limit + Header

\* The list implements a heap that only knows the blocks in use.
Abstract == INSTANCE HeapSpec WITH First <- Base + 2 * Header,
                                   Top <- Limit + Header, Sizes <- Requests

HeapPromise == Abstract!Spec
=============================================================================
