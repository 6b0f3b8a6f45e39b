----------------------------- MODULE MemBlocks -----------------------------
(***************************************************************************)
(* memlib.c: blocks of memory from the buddy allocator, in whole pages, for *)
(* the heaps of processes and for shared memory (sys_memblock,              *)
(* sys_freeblock and shmget).  Callers are kernel code with interrupts      *)
(* masked, and free the blocks they hold.                                   *)
(***************************************************************************)
EXTENDS Buddy

CONSTANTS MemStart,   \* MEM_START
          Page,       \* PAGE_SIZE
          Header,     \* the kernel heap's bytes in front of a block
          Sizes       \* sizes that get_memblock is asked for

\* Sizes are positive: of a request for 0 bytes _buddy_alloc splits without end.
\* The nodes up to Last are enough: where they end, half of one is less than a page.
ASSUME MemBlocksAssumption ==
  /\ MemStart \in Nat
  /\ Page \in Nat \ {0}
  /\ Header \in Nat
  /\ Sizes \subseteq Nat \ {0}
  /\ \A n \in Nodes : 2 * n \notin Nodes => SizeOf[n] \div 2 < Page

VARIABLES tree,   \* the nodes below buddy_head
          live    \* history: the blocks callers hold, with the size asked for

vars == <<tree, live>>

PagedSize(size) ==
  IF size % Page = 0 THEN size ELSE Page * (size \div Page + 1)

Init == \* init_mem
  /\ tree = BuddyInit
  /\ live = {}

GetMemblock(size) ==
  LET start == Found(tree, PagedSize(size))
      node == AllocNode(start, PagedSize(size))
  IN  /\ start # 0
      /\ tree' = Allocated(tree, start, PagedSize(size))
      /\ live' = live \cup {[ptr |-> MemStart + IdxOf[node], size |-> size]}

\* NULL
GetMemblockFails(size) ==
  /\ Found(tree, PagedSize(size)) = 0
  /\ UNCHANGED vars

FreeMemblock(block) ==
  /\ block.ptr >= MemStart
  /\ tree' = Freed(tree, block.ptr - MemStart)
  /\ live' = live \ {block}

Next ==
  \/ \E size \in Sizes : GetMemblock(size) \/ GetMemblockFails(size)
  \/ \E block \in live : FreeMemblock(block)

Spec == Init /\ [][Next]_vars

-----------------------------------------------------------------------------
(* Properties.                                                             *)

Leaves(state) == {n \in Nodes : tree[n] = state}

\* The nodes are a tree: below a split node there are two, below others none.
TypeOK ==
  /\ tree \in [Nodes -> States]
  /\ tree[1] # "none"
  /\ \A n \in Nodes \ {1} : tree[n] # "none" <=> tree[n \div 2] = "SPLIT"
  /\ \A n \in Nodes : tree[n] = "SPLIT" => 2 * n \in Nodes
  /\ \A b \in live : b.ptr \in Nat /\ b.size \in Sizes

\* The allocated nodes are the callers' blocks, one for one, each large enough
\* and less than twice as large as the pages asked for: buddy_free's search by
\* index frees the caller's node, although a node and its left half share theirs.
LiveAreAllocated ==
  /\ \A n \in Leaves("ALLOC") : \E b \in live : b.ptr = MemStart + IdxOf[n]
  /\ \A b \in live : \E n \in Leaves("ALLOC") :
       /\ b.ptr = MemStart + IdxOf[n]
       /\ b.size <= SizeOf[n]
       /\ SizeOf[n] \div 2 < PagedSize(b.size)

\* get_memblock refuses a request only if no part of the pool of its size, at a
\* place where the tree can have a node, is free of the callers' blocks.
Overlaps(n, b) ==
  /\ b.ptr - MemStart < IdxOf[n] + SizeOf[n]
  /\ \E m \in Leaves("ALLOC") : /\ b.ptr - MemStart = IdxOf[m]
                                /\ IdxOf[n] < IdxOf[m] + SizeOf[m]

RefusedOnlyIfFull ==
  \A size \in Sizes :
    Found(tree, PagedSize(size)) = 0 =>
      \A n \in Nodes : SizeOf[n] >= PagedSize(size) => \E b \in live : Overlaps(n, b)

\* The tree implements an allocator without headers of blocks of nodes' sizes.
Abstract ==
  INSTANCE HeapSpec WITH
    Header <- 0, First <- 0, Top <- Pool, Sizes <- {SizeOf[n] : n \in Nodes},
    live <- {[ptr |-> IdxOf[n], size |-> SizeOf[n]] : n \in Leaves("ALLOC")}

BlockPromise == Abstract!Spec

\* buddy.c:24: buddy_init should "allocate space for all the pages": the blocks lie
\* in the memory that kmalloc gave it, past the first chunk and a header of the
\* kernel heap, which starts at the same MEM_START.
PoolStart == MemStart + 2 * Header

BlocksInPool == \A b \in live : PoolStart <= b.ptr /\ b.ptr + b.size <= PoolStart + Pool
=============================================================================
