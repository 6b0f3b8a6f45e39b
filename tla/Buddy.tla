------------------------------- MODULE Buddy -------------------------------
(***************************************************************************)
(* buddy.c: a pool of bytes halved on demand.  The binary tree of node_t is *)
(* numbered as a heap is: 1 is buddy_head, 2 * n and 2 * n + 1 the left and *)
(* right of n.  A tree is a function from these numbers to a node's state,  *)
(* "none" for a node that does not exist; size and idx follow from the      *)
(* node's place.                                                            *)
(*                                                                          *)
(* Operators only: MemBlocks holds the tree.  The nodes come from the       *)
(* kernel heap, whose 3 MiB have room for all of them (63 with the pool and *)
(* the page size of the kernel), so their kmalloc does not fail here.       *)
(***************************************************************************)
EXTENDS Integers

CONSTANTS Pool,    \* size given to buddy_init
          Last     \* the last node that requests can reach

\* A node has two halves or none.
ASSUME BuddyAssumption ==
  /\ Pool \in Nat \ {0}
  /\ Last \in Nat /\ Last % 2 = 1

States == {"none", "FREE", "SPLIT", "ALLOC"}

Nodes == 1..Last

SizeOf[n \in Nodes] == IF n = 1 THEN Pool ELSE SizeOf[n \div 2] \div 2

IdxOf[n \in Nodes] ==
  IF n = 1 THEN 0
  ELSE IF n % 2 = 0 THEN IdxOf[n \div 2] ELSE IdxOf[n \div 2] + SizeOf[n]

BuddyInit == [n \in Nodes |-> IF n = 1 THEN "FREE" ELSE "none"]

(***************************************************************************)
(* _buddy_alloc.  The walk goes left before right, and stops at the first   *)
(* free node that is large enough (0: there is none, the code's -1).        *)
(***************************************************************************)
\* Slip: an error on the left is taken for the answer.
FoundLeft(tree, size) ==
  LET find[n \in Nodes] ==
        IF tree[n] = "SPLIT" THEN find[2 * n]
        ELSE IF tree[n] = "FREE" /\ SizeOf[n] >= size THEN n ELSE 0
  IN  find[1]

Found(tree, size) ==
  LET find[n \in Nodes] ==
        IF tree[n] = "SPLIT"
        THEN IF find[2 * n] # 0 THEN find[2 * n] ELSE find[2 * n + 1]
        ELSE IF tree[n] = "FREE" /\ SizeOf[n] >= size THEN n ELSE 0
  IN  find[1]

\* Slip: a node is split when its size, not its half, is enough.
HalvesFar(n, size) == 2 * n \in Nodes /\ SizeOf[n] >= size

\* The check for enough space to make a split.
Halves(n, size) == SizeOf[n] \div 2 >= size

\* The nodes from start on that are gone through by left turns, each but the last split.
Visited(start, size) ==
  LET visited[n \in Nodes] ==
        \/ n = start
        \/ n % 2 = 0 /\ visited[n \div 2] /\ Halves(n \div 2, size)
  IN  {n \in Nodes : visited[n]}

\* Where the splitting ends: half of the node would be too small.
AllocNode(start, size) == CHOOSE n \in Visited(start, size) : ~Halves(n, size)

\* Slip: the right half of a split node is not marked free.
AllocatedLeftOnly(tree, start, size) ==
  [n \in Nodes |->
     IF n \in Visited(start, size) THEN IF Halves(n, size) THEN "SPLIT" ELSE "ALLOC"
     ELSE tree[n]]

\* Each node gone through is split, its right half free, but for the last.
Allocated(tree, start, size) ==
  [n \in Nodes |->
     IF n \in Visited(start, size) THEN IF Halves(n, size) THEN "SPLIT" ELSE "ALLOC"
     ELSE IF n % 2 = 1 /\ n \div 2 \in Visited(start, size) /\ Halves(n \div 2, size)
          THEN "FREE"
     ELSE tree[n]]

(***************************************************************************)
(* _buddy_free.  Every split node is visited, its halves first; two free    *)
(* halves are given back to it.                                             *)
(***************************************************************************)
\* Slip: a node is freed by its index alone, whoever holds it.
FreedBelow(tree, idx) ==
  LET state[n \in Nodes] ==
        IF tree[n] = "SPLIT"
        THEN IF state[2 * n] = "FREE" /\ state[2 * n + 1] = "FREE" THEN "FREE" ELSE "SPLIT"
        ELSE IF IdxOf[n] <= idx /\ tree[n] = "ALLOC" THEN "FREE" ELSE tree[n]
      kept[n \in Nodes] ==
        IF n = 1 THEN state[n]
        ELSE IF kept[n \div 2] = "SPLIT" THEN state[n] ELSE "none"
  IN  kept

Freed(tree, idx) ==
  LET state[n \in Nodes] ==
        IF tree[n] = "SPLIT"
        THEN IF state[2 * n] = "FREE" /\ state[2 * n + 1] = "FREE" THEN "FREE" ELSE "SPLIT"
        ELSE IF IdxOf[n] = idx /\ tree[n] = "ALLOC" THEN "FREE" ELSE tree[n]
      kept[n \in Nodes] ==
        IF n = 1 THEN state[n]
        ELSE IF kept[n \div 2] = "SPLIT" THEN state[n] ELSE "none"
  IN  kept
=============================================================================
