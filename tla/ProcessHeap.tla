---------------------------- MODULE ProcessHeap ----------------------------
(***************************************************************************)
(* pmem.c and its wrappers in memlib.c: the heap of a process, inside the   *)
(* block of memory that the process reserved.  The code of each operation   *)
(* is kmem.c's, with the heap's bounds taken from the process.              *)
(*                                                                          *)
(* Processes take turns between operations, never inside one: a system call *)
(* runs with interrupts masked.  A process passes pfree a block it holds.   *)
(***************************************************************************)
EXTENDS Chunks

CONSTANTS Procs,      \* processes
          HeapStart,  \* process->heap_start
          HeapSize,   \* process->heap_size
          Sizes,      \* sizes that pmalloc is asked for
          Counts,     \* amounts that calloc is asked for
          AmountRange \* what an amount is counted modulo, 2^32

\* The blocks of two processes are disjoint, as get_memblock gives them out.
ASSUME ProcessHeapAssumption ==
  /\ HeapStart \in [Procs -> Nat]
  /\ HeapSize \in [Procs -> Nat]
  /\ \A p \in Procs : HeapSize[p] >= Header
  /\ \A p, q \in Procs : p # q => \/ HeapStart[p] + HeapSize[p] <= HeapStart[q]
                                  \/ HeapStart[q] + HeapSize[q] <= HeapStart[p]
  /\ Sizes \subseteq Nat
  /\ Counts \subseteq Nat
  /\ AmountRange \in Nat \ {0}

VARIABLES heap,   \* heap[p]: the list at p->heap_node, empty before pinit_heap
          live    \* history: the blocks p holds

vars == <<heap, live>>

HeapEnd(p) == HeapStart[p] + HeapSize[p]

\* calloc takes 64 bits, pcalloc the low 32 of them.
Amount(amount) == amount % AmountRange

Requests == Sizes \cup {size * Amount(amount) : size \in Sizes, amount \in Counts}

Init ==
  /\ heap = [p \in Procs |-> <<>>]
  /\ live = [p \in Procs |-> {}]

\* A second call starts the heap afresh: the blocks handed out are forgotten.
PinitHeap(p) ==
  /\ heap' = [heap EXCEPT ![p] = NewHeap(HeapStart[p])]
  /\ live' = [live EXCEPT ![p] = {}]

PmallocReuse(p, n) ==
  /\ Fits(heap[p], n) # {}
  /\ heap' = [heap EXCEPT ![p] = Reuse(@, n)]
  /\ live' = [live EXCEPT ![p] = @ \cup
                {[ptr |-> heap[p][FirstFit(heap[p], n)].start, size |-> n]}]

PmallocExtend(p, n) ==
  /\ Fits(heap[p], n) = {}
  /\ CanExtend(heap[p], n, HeapEnd(p))
  /\ heap' = [heap EXCEPT ![p] = Extend(@, n)]
  /\ live' = [live EXCEPT ![p] = @ \cup {[ptr |-> NextStart(heap[p]), size |-> n]}]

PmallocFail(p, n) ==
  /\ Fits(heap[p], n) = {}
  /\ ~CanExtend(heap[p], n, HeapEnd(p))
  /\ UNCHANGED vars

\* Before pinit_heap the list is empty and prev->chunk is no address: a process
\* has its heap set up before it allocates.
Pmalloc(p, n) ==
  /\ heap[p] # <<>>
  /\ PmallocReuse(p, n) \/ PmallocExtend(p, n) \/ PmallocFail(p, n)

Pcalloc(p, amount, size) == Pmalloc(p, size * Amount(amount))

Pfree(p, b) ==
  /\ heap' = [heap EXCEPT ![p] = FreeAt(@, b.ptr)]
  /\ live' = [live EXCEPT ![p] = @ \ {b}]

Next ==
  \E p \in Procs :
    \/ PinitHeap(p)
    \/ \E n \in Sizes : Pmalloc(p, n)
    \/ \E amount \in Counts, size \in Sizes : Pcalloc(p, amount, size)
    \/ \E b \in live[p] : Pfree(p, b)

Spec == Init /\ [][Next]_vars

-----------------------------------------------------------------------------
(* Properties.                                                             *)

TypeOK ==
  /\ heap \in [Procs -> Seq(Chunk)]
  /\ \A p \in Procs :
       /\ heap[p] # <<>> => heap[p][1] = NewHeap(HeapStart[p])[1]
       /\ \A b \in live[p] : b.ptr \in Nat /\ b.size \in Nat

\* The blocks a process holds are exactly the used chunks of its own heap,
\* whatever the others do to theirs.
LiveAreUsed == \A p \in Procs : live[p] = UsedBlocks(heap[p])

\* No chunk of a process reaches the memory of another, provided the blocks lie
\* a header apart: pmalloc's limit test is short by the new chunk's header.
Spaced ==
  \A p, q \in Procs : HeapStart[p] < HeapStart[q] => HeapEnd(p) + Header <= HeapStart[q]

Isolated ==
  Spaced => \A p, q \in Procs :
              HeapStart[p] < HeapStart[q] =>
                \A i \in 1..Len(heap[p]) : End(heap[p][i]) <= HeapStart[q]

\* To its process each heap is one that only knows the blocks in use, until it is
\* set up again: a pmalloc hands out bytes that no block and no header shares.
Heap(p) == INSTANCE HeapSpec WITH First <- HeapStart[p] + 2 * Header,
                                  Top <- HeapEnd(p) + Header,
                                  Sizes <- Requests, live <- live[p]

KeepsPromises ==
  \A p \in Procs : live'[p] # live[p] => PinitHeap(p) \/ Heap(p)!Next

HeapPromises == [][KeepsPromises]_vars
=============================================================================
