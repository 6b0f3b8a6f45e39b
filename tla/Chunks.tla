------------------------------- MODULE Chunks -------------------------------
(***************************************************************************)
(* The chunk list that both heaps of the kernel are built from: kmem.c (the *)
(* kernel's heap) and pmem.c (the heap of a process) hold the same code     *)
(* twice.  A heap is a linked list of chunks in address order, each written *)
(* in the memory it describes: a mem_chunk_t and a mem_chunk_list_t (Header *)
(* bytes together), then the bytes handed out.                              *)
(*                                                                          *)
(* The list is a sequence of records; a record's position stands for the    *)
(* next pointers, and start, size and used are the fields of mem_chunk_t.   *)
(* Addresses and sizes are natural numbers: a request so large that         *)
(* start + size wraps around 2^64 is not represented.                       *)
(***************************************************************************)
EXTENDS Integers, Sequences

CONSTANT Header     \* sizeof(mem_chunk_t) + sizeof(mem_chunk_list_t), 40 bytes

ASSUME HeaderAssumption == Header \in Nat \ {0}

Chunk == [start : Nat, size : Nat, used : BOOLEAN]

End(c) == c.start + c.size

(***************************************************************************)
(* A new heap: the first chunk describes its own header and is never free.  *)
(***************************************************************************)
\* Slip: the first chunk is left free.
NewHeapFree(base) == << [start |-> base, size |-> Header, used |-> FALSE] >>

NewHeap(base) == << [start |-> base, size |-> Header, used |-> TRUE] >>

(***************************************************************************)
(* kmalloc, pmalloc.                                                        *)
(***************************************************************************)
Fits(list, n) == {i \in 1..Len(list) : ~list[i].used /\ list[i].size >= n}

FirstFit(list, n) == CHOOSE i \in Fits(list, n) : \A j \in Fits(list, n) : i <= j

\* Slip: the reused chunk is not marked used.
ReuseUnmarked(list, n) ==
  LET i == FirstFit(list, n)
  IN  [list EXCEPT ![i] = [start |-> @.start, size |-> n, used |-> FALSE]]

\* The chunk is cut down to n bytes; what it had beyond them is forgotten.
Reuse(list, n) ==
  LET i == FirstFit(list, n)
  IN  [list EXCEPT ![i] = [start |-> @.start, size |-> n, used |-> TRUE]]

\* Slip: the size asked for is not counted either.
CanExtendFromEnd(list, n, limit) == End(list[Len(list)]) <= limit

\* The test of the code: the new chunk's header is not counted.
CanExtend(list, n, limit) == End(list[Len(list)]) + n <= limit

NextStart(list) == End(list[Len(list)]) + Header

Extend(list, n) ==
  Append(list, [start |-> NextStart(list), size |-> n, used |-> TRUE])

(***************************************************************************)
(* kfree, pfree.                                                            *)
(***************************************************************************)
Abs(n) == IF n > 0 THEN n ELSE -n

Matches(list, mem) == {i \in 1..Len(list) : Abs(mem - list[i].start) <= list[i].size}

\* The chunk that a free of the address mem lands on: the first that matches.
ChunkOf(list, mem) ==
  CHOOSE i \in Matches(list, mem) : \A j \in Matches(list, mem) : i <= j

\* prev->size += curr->size; prev->next = curr->next
Absorb(list, i) ==
  [j \in 1..(Len(list) - 1) |->
     IF j < i THEN list[j]
     ELSE IF j = i THEN [list[i] EXCEPT !.size = @ + list[i + 1].size]
     ELSE list[j + 1]]

\* Slip: the next chunk is swallowed without a look at its used flag.
AbsorbNextAlways(list, i) == IF i < Len(list) THEN Absorb(list, i) ELSE list

AbsorbNextIfFree(list, i) ==
  IF i < Len(list) /\ ~list[i + 1].used THEN Absorb(list, i) ELSE list

\* Slip: the chunk before is not looked at.
ReleaseForwardOnly(list, i) ==
  AbsorbNextIfFree([list EXCEPT ![i].used = FALSE], i)

Release(list, i) ==
  LET freed == [list EXCEPT ![i].used = FALSE]
  IN  IF i > 1 /\ ~list[i - 1].used
      THEN AbsorbNextIfFree(Absorb(freed, i - 1), i - 1)
      ELSE AbsorbNextIfFree(freed, i)

FreeAt(list, mem) ==
  IF Matches(list, mem) = {} THEN list ELSE Release(list, ChunkOf(list, mem))

(***************************************************************************)
(* What a list of chunks should look like.                                  *)
(***************************************************************************)
\* A chunk lies past the header that follows the chunk before it.
Ordered(list) ==
  \A i, j \in 1..Len(list) : i < j => End(list[i]) + Header <= list[j].start

\* Two free chunks never stay side by side.
Coalesced(list) ==
  \A i \in 1..(Len(list) - 1) : list[i].used \/ list[i + 1].used

\* The blocks handed out: the used chunks but the first.
UsedBlocks(list) ==
  {[ptr |-> list[i].start, size |-> list[i].size] :
     i \in {j \in 2..Len(list) : list[j].used}}
=============================================================================
