------------------------------ MODULE HeapSpec ------------------------------
(***************************************************************************)
(* What a heap of the kernel promises its callers, whatever list it keeps:  *)
(* a request is answered with a fresh block that shares no byte, its header *)
(* included, with a block still held, or not at all; and a free takes back  *)
(* the block it names and nothing else.  KernelHeap and MemBlocks implement *)
(* this specification, and so does each heap of ProcessHeap between two     *)
(* calls of pinit_heap.                                                     *)
(***************************************************************************)
EXTENDS Integers

CONSTANTS Header,   \* bytes the allocator keeps in front of every block
          First,    \* the lowest address a block may have
          Top,      \* no block reaches past this address
          Sizes     \* the sizes that are asked for

VARIABLE live       \* the blocks held: records of an address and a size

Blocks == [ptr : First..Top, size : Sizes]

\* The bytes of two blocks, and of the headers before them, do not meet.
Apart(a, b) ==
  \/ a.ptr + a.size + Header <= b.ptr
  \/ b.ptr + b.size + Header <= a.ptr

Init == live = {}

Alloc ==
  \E b \in Blocks :
    /\ b.ptr + b.size <= Top
    /\ \A a \in live : Apart(a, b)
    /\ live' = live \cup {b}

Free == \E b \in live : live' = live \ {b}

Next == Alloc \/ Free

Spec == Init /\ [][Next]_live
=============================================================================
