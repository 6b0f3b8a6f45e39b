------------------------- MODULE ProcessHeapProofs -------------------------
(***************************************************************************)
(* The heaps of any number of processes are correct together: each list     *)
(* describes its own process's blocks, and none reaches the next process's  *)
(* memory when a header's worth of bytes lies between.                      *)
(***************************************************************************)
EXTENDS ProcessHeap, ChunksProofs

\* A heap in order: its list, the blocks its process holds, its bounds.
Kept(list, held, start, limit) ==
  /\ list \in Seq(Chunk)
  /\ Len(list) >= 1
  /\ list[1] = [start |-> start, size |-> Header, used |-> TRUE]
  /\ Ordered(list)
  /\ Coalesced(list)
  /\ Below(list, limit + Header)
  /\ held = UsedBlocks(list)

Sound(p) ==
  \/ heap[p] = <<>> /\ live[p] = {}
  \/ Kept(heap[p], live[p], HeapStart[p], HeapEnd(p))

\* The inductive invariant: the processes' heaps do not depend on each other.
IInv ==
  /\ DOMAIN heap = Procs /\ heap = [p \in Procs |-> heap[p]]
  /\ DOMAIN live = Procs /\ live = [p \in Procs |-> live[p]]
  /\ \A p \in Procs : Sound(p)

\* The ends of a process's memory.
LEMMA Bounds ==
  ASSUME NEW p \in Procs
  PROVE  /\ HeapStart[p] \in Nat /\ HeapEnd(p) \in Nat
         /\ HeapEnd(p) + Header \in Nat
         /\ HeapStart[p] + Header <= HeapEnd(p)
         /\ Header \in Nat \ {0}
<1>1. /\ HeapStart[p] \in Nat /\ HeapSize[p] \in Nat /\ Header \in Nat \ {0}
      /\ HeapSize[p] >= Header
  BY ProcessHeapAssumption, HeaderAssumption
<1> QED
  BY <1>1 DEF HeapEnd

\* No process has a heap yet.
LEMMA InitIInv == Init => IInv
<1> SUFFICES ASSUME Init
             PROVE  IInv
  OBVIOUS
<1>1. heap = [p \in Procs |-> <<>>] /\ live = [p \in Procs |-> {}]
  BY DEF Init
<1>2. \A p \in Procs : heap[p] = <<>> /\ live[p] = {}
  BY <1>1
<1> QED
  BY <1>1, <1>2 DEF IInv, Sound

\* pinit_heap leaves a heap in order.
LEMMA NewHeapKept ==
  ASSUME NEW p \in Procs
  PROVE  Kept(NewHeap(HeapStart[p]), {}, HeapStart[p], HeapEnd(p))
<1> DEFINE head == [start |-> HeapStart[p], size |-> Header, used |-> TRUE]
<1> DEFINE list == <<head>>
<1>1. NewHeap(HeapStart[p]) = list
  BY DEF NewHeap
<1>2. head \in Chunk
  BY Bounds DEF Chunk
<1>3. list \in Seq(Chunk) /\ Len(list) = 1 /\ list[1] = head
  BY <1>2
<1>4. End(list[1]) = HeapStart[p] + Header
  BY <1>3 DEF End
<1> HIDE DEF list
<1>5. list[1] = [start |-> HeapStart[p], size |-> Header, used |-> TRUE]
  BY <1>3
<1> HIDE DEF head
<1>6. Ordered(list) /\ Coalesced(list) /\ {} = UsedBlocks(list)
  BY <1>3 DEF Ordered, Coalesced, UsedBlocks
<1>7. Below(list, HeapEnd(p) + Header)
  BY <1>3, <1>4, Bounds DEF Below
<1> QED
  BY <1>1, <1>3, <1>5, <1>6, <1>7 DEF Kept

\* An operation of one process that leaves its heap in order keeps the invariant.
LEMMA OneProcessStep ==
  ASSUME IInv, NEW p \in Procs, NEW list, NEW held,
         heap' = [heap EXCEPT ![p] = list],
         live' = [live EXCEPT ![p] = held],
         Kept(list, held, HeapStart[p], HeapEnd(p))
  PROVE  IInv'
<1>1. /\ DOMAIN heap' = Procs /\ heap' = [q \in Procs |-> heap'[q]]
      /\ DOMAIN live' = Procs /\ live' = [q \in Procs |-> live'[q]]
  BY DEF IInv
<1>2. heap'[p] = list /\ live'[p] = held
  BY DEF IInv
<1>3. \A q \in Procs \ {p} : heap'[q] = heap[q] /\ live'[q] = live[q]
  BY DEF IInv
<1>4. Sound(p)'
  BY <1>2 DEF Sound, HeapEnd
<1>5. \A q \in Procs \ {p} : Sound(q)'
  <2> SUFFICES ASSUME NEW q \in Procs \ {p}
               PROVE  Sound(q)'
    OBVIOUS
  <2>1. Sound(q) /\ heap'[q] = heap[q] /\ live'[q] = live[q]
    BY <1>3 DEF IInv
  <2> QED
    BY <2>1 DEF Sound, HeapEnd
<1> QED
  BY <1>1, <1>4, <1>5 DEF IInv

\* pmalloc in a chunk that was free keeps every process's heap.
LEMMA PmallocReuseStep ==
  ASSUME IInv, NEW p \in Procs, NEW n \in Nat, heap[p] # <<>>, PmallocReuse(p, n)
  PROVE  IInv'
<1> DEFINE list == heap[p]
           b == [ptr |-> list[FirstFit(list, n)].start, size |-> n]
<1>1. Kept(list, live[p], HeapStart[p], HeapEnd(p))
  BY DEF IInv, Sound
<1>2. /\ Fits(list, n) # {}
      /\ heap' = [heap EXCEPT ![p] = Reuse(list, n)]
      /\ live' = [live EXCEPT ![p] = live[p] \cup {b}]
  BY DEF PmallocReuse
<1>3. list[1].used
  BY <1>1 DEF Kept
<1> HIDE DEF list
<1>4. /\ Reuse(list, n) \in Seq(Chunk) /\ Len(Reuse(list, n)) = Len(list)
      /\ Reuse(list, n)[1] = list[1]
      /\ Ordered(Reuse(list, n)) /\ Coalesced(Reuse(list, n))
      /\ Below(Reuse(list, n), HeapEnd(p) + Header)
      /\ UsedBlocks(Reuse(list, n)) = UsedBlocks(list) \cup {b}
  BY <1>1, <1>2, <1>3, Bounds, ReuseKeeps DEF Kept
<1>5. Kept(Reuse(list, n), live[p] \cup {b}, HeapStart[p], HeapEnd(p))
  BY <1>1, <1>4 DEF Kept
<1> HIDE DEF b
<1> QED
  BY <1>2, <1>5, OneProcessStep

\* pmalloc with a new chunk at the end keeps every process's heap.
LEMMA PmallocExtendStep ==
  ASSUME IInv, NEW p \in Procs, NEW n \in Nat, heap[p] # <<>>, PmallocExtend(p, n)
  PROVE  IInv'
<1> DEFINE list == heap[p]
           b == [ptr |-> NextStart(list), size |-> n]
<1>1. Kept(list, live[p], HeapStart[p], HeapEnd(p))
  BY DEF IInv, Sound
<1>2. /\ CanExtend(list, n, HeapEnd(p))
      /\ heap' = [heap EXCEPT ![p] = Extend(list, n)]
      /\ live' = [live EXCEPT ![p] = live[p] \cup {b}]
  BY DEF PmallocExtend
<1> HIDE DEF list
<1>3. /\ Extend(list, n) \in Seq(Chunk) /\ Len(Extend(list, n)) = Len(list) + 1
      /\ Extend(list, n)[1] = list[1]
      /\ Ordered(Extend(list, n)) /\ Coalesced(Extend(list, n))
      /\ Below(Extend(list, n), HeapEnd(p) + Header)
      /\ UsedBlocks(Extend(list, n)) = UsedBlocks(list) \cup {b}
  BY <1>1, <1>2, Bounds, ExtendKeeps DEF Kept
<1>4. Len(Extend(list, n)) >= 1
  BY <1>1, <1>3, LenProperties DEF Kept
<1>5. Kept(Extend(list, n), live[p] \cup {b}, HeapStart[p], HeapEnd(p))
  BY <1>1, <1>3, <1>4 DEF Kept
<1> HIDE DEF b
<1> QED
  BY <1>2, <1>5, OneProcessStep

\* pfree keeps every process's heap.
LEMMA PfreeStep ==
  ASSUME IInv, NEW p \in Procs, NEW b \in live[p], Pfree(p, b)
  PROVE  IInv'
<1> DEFINE list == heap[p]
<1>1. Kept(list, live[p], HeapStart[p], HeapEnd(p))
  BY DEF IInv, Sound
<1>2. PICK i \in 2..Len(list) :
        list[i].used /\ b = [ptr |-> list[i].start, size |-> list[i].size]
  BY <1>1 DEF Kept, UsedBlocks
<1>3. /\ heap' = [heap EXCEPT ![p] = FreeAt(list, b.ptr)]
      /\ live' = [live EXCEPT ![p] = live[p] \ {b}]
  BY DEF Pfree
<1>4. list[1].used
  BY <1>1 DEF Kept
<1> HIDE DEF list
<1>5. FreeAt(list, b.ptr) = Release(list, i)
  <2>1. i \in 1..Len(list) /\ b.ptr = list[i].start
    BY <1>2
  <2> QED
    BY <1>1, <2>1, FreeFindsTheChunk DEF Kept
<1>6. /\ Release(list, i) \in Seq(Chunk) /\ Len(Release(list, i)) >= 1
      /\ Release(list, i)[1] = list[1]
      /\ Ordered(Release(list, i)) /\ Coalesced(Release(list, i))
      /\ Below(Release(list, i), HeapEnd(p) + Header)
      /\ UsedBlocks(Release(list, i)) = UsedBlocks(list) \
           {[ptr |-> list[i].start, size |-> list[i].size]}
  BY <1>1, <1>2, <1>4, Bounds, ReleaseKeeps DEF Kept
<1>7. Kept(Release(list, i), live[p] \ {b}, HeapStart[p], HeapEnd(p))
  BY <1>1, <1>2, <1>6 DEF Kept
<1> QED
  BY <1>3, <1>5, <1>7, OneProcessStep

\* What changes neither heap nor live keeps the invariant.
LEMMA StutterStep ==
  ASSUME IInv, UNCHANGED vars
  PROVE  IInv'
<1>1. heap' = heap /\ live' = live
  BY DEF vars
<1> QED
  BY <1>1 DEF IInv, Sound, HeapEnd

\* pmalloc, whichever way it goes, keeps the invariant.
LEMMA PmallocStep ==
  ASSUME IInv, NEW p \in Procs, NEW n \in Nat, Pmalloc(p, n)
  PROVE  IInv'
<1>1. CASE PmallocReuse(p, n)
  BY <1>1, PmallocReuseStep DEF Pmalloc
<1>2. CASE PmallocExtend(p, n)
  BY <1>2, PmallocExtendStep DEF Pmalloc
<1>3. CASE PmallocFail(p, n)
  BY <1>3, StutterStep DEF PmallocFail
<1> QED
  BY <1>1, <1>2, <1>3 DEF Pmalloc

\* pmem.c: whatever the processes allocate, free and set up, and in whatever
\* order, each one's list keeps its shape and describes its own blocks.
THEOREM HeapsInvariant == Spec => []IInv
<1>1. Init => IInv
  BY InitIInv
<1>2. IInv /\ [Next]_vars => IInv'
  <2> SUFFICES ASSUME IInv, [Next]_vars
               PROVE  IInv'
    OBVIOUS
  <2>1. ASSUME NEW p \in Procs, PinitHeap(p)
        PROVE  IInv'
    BY <2>1, NewHeapKept, OneProcessStep DEF PinitHeap
  <2>2. ASSUME NEW p \in Procs, NEW n \in Sizes, Pmalloc(p, n)
        PROVE  IInv'
    <3>1. n \in Nat
      BY ProcessHeapAssumption
    <3> QED
      BY <2>2, <3>1, PmallocStep
  <2>3. ASSUME NEW p \in Procs, NEW amount \in Counts, NEW size \in Sizes,
               Pcalloc(p, amount, size)
        PROVE  IInv'
    <3>1. Amount(amount) \in Nat /\ size \in Nat
      BY ProcessHeapAssumption DEF Amount
    <3>2. size * Amount(amount) \in Nat
      BY <3>1
    <3> QED
      BY <2>3, <3>2, PmallocStep DEF Pcalloc
  <2>4. ASSUME NEW p \in Procs, NEW b \in live[p], Pfree(p, b)
        PROVE  IInv'
    BY <2>4, PfreeStep
  <2>5. CASE UNCHANGED vars
    BY <2>5, StutterStep
  <2> QED
    BY <2>1, <2>2, <2>3, <2>4, <2>5 DEF Next
<1> QED
  BY <1>1, <1>2, PTL DEF Spec

\* pmem.c: a pfree takes back the process's own block and no other, and no
\* pmalloc hands out bytes in use, whatever the other processes do.
THEOREM ProcessesHoldTheirChunks == Spec => []LiveAreUsed
<1>1. IInv => LiveAreUsed
  <2> SUFFICES ASSUME IInv, NEW p \in Procs
               PROVE  live[p] = UsedBlocks(heap[p])
    BY DEF LiveAreUsed
  <2>1. CASE heap[p] = <<>> /\ live[p] = {}
    BY <2>1 DEF UsedBlocks
  <2>2. CASE Kept(heap[p], live[p], HeapStart[p], HeapEnd(p))
    BY <2>2 DEF Kept
  <2> QED
    BY <2>1, <2>2 DEF IInv, Sound
<1> QED
  BY <1>1, HeapsInvariant, PTL

\* pmem.c: the lists stay well formed and start with pinit_heap's header.
THEOREM ProcessTypeCorrect == Spec => []TypeOK
<1>1. IInv => TypeOK
  <2> SUFFICES ASSUME IInv
               PROVE  TypeOK
    OBVIOUS
  <2>1. ASSUME NEW p \in Procs
        PROVE  /\ heap[p] \in Seq(Chunk)
               /\ heap[p] # <<>> => heap[p][1] = NewHeap(HeapStart[p])[1]
               /\ \A b \in live[p] : b.ptr \in Nat /\ b.size \in Nat
    <3>1. CASE heap[p] = <<>> /\ live[p] = {}
      BY <3>1
    <3>2. CASE Kept(heap[p], live[p], HeapStart[p], HeapEnd(p))
      <4>1. ASSUME NEW b \in live[p]
            PROVE  b.ptr \in Nat /\ b.size \in Nat
        BY <3>2, <4>1, Bounds, UsedBlockBounds DEF Kept
      <4>2. heap[p] \in Seq(Chunk) /\ heap[p][1] = NewHeap(HeapStart[p])[1]
        BY <3>2 DEF Kept, NewHeap
      <4> QED
        BY <4>1, <4>2
    <3> QED
      BY <3>1, <3>2 DEF IInv, Sound
  <2>2. heap \in [Procs -> Seq(Chunk)]
    BY <2>1 DEF IInv
  <2> QED
    BY <2>1, <2>2 DEF TypeOK
<1> QED
  BY <1>1, HeapsInvariant, PTL

\* pmem.c: with a header's worth of bytes between two processes' memory, no
\* chunk of one reaches into the other's.
THEOREM ProcessesAreApart == Spec => []Isolated
<1>1. IInv => Isolated
  <2> SUFFICES ASSUME IInv, Spaced, NEW p \in Procs, NEW q \in Procs,
                      HeapStart[p] < HeapStart[q], NEW i \in 1..Len(heap[p])
               PROVE  End(heap[p][i]) <= HeapStart[q]
    BY DEF Isolated
  <2>1. heap[p] # <<>>
    OBVIOUS
  <2>2. Kept(heap[p], live[p], HeapStart[p], HeapEnd(p))
    BY <2>1 DEF IInv, Sound
  <2>3. End(heap[p][i]) <= HeapEnd(p) + Header
    BY <2>2 DEF Kept, Below
  <2>4. End(heap[p][i]) \in Nat
    BY <2>2, ChunkFields DEF Kept
  <2>5. HeapEnd(p) + Header <= HeapStart[q]
    BY DEF Spaced
  <2> QED
    BY <2>3, <2>4, <2>5, Bounds
<1> QED
  BY <1>1, HeapsInvariant, PTL

(***************************************************************************)
(* Each heap keeps the promises of HeapSpec.                                *)
(***************************************************************************)

\* A block whose address nobody held is one that HeapSpec may hand out.
LEMMA PmallocImplemented ==
  ASSUME NEW p \in Procs, IInv, IInv', NEW n \in Requests, NEW ptr,
         live'[p] = live[p] \cup {[ptr |-> ptr, size |-> n]},
         \A a \in live[p] : a.ptr # ptr
  PROVE  Heap(p)!Alloc
<1> DEFINE b == [ptr |-> ptr, size |-> n]
<1>1. Kept(heap'[p], live'[p], HeapStart[p], HeapEnd(p))
  <2>1. b \in live'[p]
    OBVIOUS
  <2>2. Sound(p)'
    BY DEF IInv
  <2> QED
    BY <2>1, <2>2 DEF Sound, HeapEnd
<1> DEFINE list == heap'[p]
           limit == HeapEnd(p) + Header
<1>2. /\ list \in Seq(Chunk) /\ Ordered(list) /\ Below(list, limit)
      /\ live'[p] = UsedBlocks(list)
      /\ list[1] = [start |-> HeapStart[p], size |-> Header, used |-> TRUE]
  BY <1>1 DEF Kept
<1>3. b \in UsedBlocks(list)
  BY <1>2
<1>4. HeapStart[p] \in Nat /\ limit \in Nat /\ Header \in Nat \ {0}
  BY Bounds
<1> HIDE DEF list, limit
<1>5. /\ ptr \in Nat /\ n \in Nat
      /\ HeapStart[p] + 2 * Header <= ptr /\ ptr + n <= limit
  <2>1. End(list[1]) = HeapStart[p] + Header
    BY <1>2 DEF End
  <2>2. /\ b.ptr \in Nat /\ b.size \in Nat
        /\ End(list[1]) + Header <= b.ptr
        /\ b.ptr + b.size <= limit
    BY <1>2, <1>3, <1>4, UsedBlockBounds
  <2> QED
    BY <1>4, <2>1, <2>2
<1>6. b \in Heap(p)!Blocks
  <2>1. ptr \in (HeapStart[p] + 2 * Header)..limit
    BY <1>4, <1>5
  <2> QED
    BY <2>1 DEF Heap!Blocks, limit
<1>7. ASSUME NEW a \in live[p]
      PROVE  Heap(p)!Apart(a, b)
  <2>1. a # b /\ a \in UsedBlocks(list)
    BY <1>2
  <2> HIDE DEF b
  <2> QED
    BY <1>2, <1>3, <2>1, UsedBlocksApart DEF Heap!Apart
<1> HIDE DEF b
<1>8. b.ptr + b.size <= limit
  BY <1>5 DEF b
<1> QED
  BY <1>6, <1>7, <1>8 DEF Heap!Alloc, b, limit
\* A pmalloc of one process is none of another's steps, and fresh to its own.
LEMMA PmallocKeepsPromises ==
  ASSUME IInv, IInv', NEW p \in Procs, NEW n \in Requests, Pmalloc(p, n)
  PROVE  KeepsPromises
<1>0. n \in Nat
  <2>1. \A size, amount \in Nat : size * amount \in Nat
    OBVIOUS
  <2> QED
    BY <2>1, ProcessHeapAssumption DEF Requests, Amount
<1>1. ASSUME NEW ptr, live' = [live EXCEPT ![p] = @ \cup {[ptr |-> ptr, size |-> n]}],
             \A a \in live[p] : a.ptr # ptr
      PROVE  KeepsPromises
  <2> DEFINE held == live[p] \cup {[ptr |-> ptr, size |-> n]}
  <2>1. live'[p] = held /\ \A q \in Procs \ {p} : live'[q] = live[q]
    BY <1>1 DEF IInv
  <2>2. Heap(p)!Alloc
    BY <1>1, <2>1, PmallocImplemented
  <2> QED
    BY <2>1, <2>2 DEF KeepsPromises, Heap!Next
<1>2. /\ heap[p] \in Seq(Chunk) /\ Len(heap[p]) >= 1 /\ Ordered(heap[p])
      /\ live[p] = UsedBlocks(heap[p])
  <2>1. heap[p] # <<>>
    BY DEF Pmalloc
  <2> QED
    BY <2>1 DEF IInv, Sound, Kept
<1>3. CASE PmallocReuse(p, n)
  <2>1. \A a \in live[p] : a.ptr # heap[p][FirstFit(heap[p], n)].start
    BY <1>0, <1>2, <1>3, ReusedIsFresh DEF PmallocReuse
  <2> QED
    BY <1>1, <1>3, <2>1 DEF PmallocReuse
<1>4. CASE PmallocExtend(p, n)
  <2>1. \A a \in live[p] : a.ptr # NextStart(heap[p])
    BY <1>2, ExtensionIsFresh
  <2> QED
    BY <1>1, <1>4, <2>1 DEF PmallocExtend
<1>5. CASE PmallocFail(p, n)
  BY <1>5 DEF PmallocFail, vars, KeepsPromises
<1> QED
  BY <1>3, <1>4, <1>5 DEF Pmalloc

\* pmem.c: seen from its process every pmalloc, pcalloc and pfree is an Alloc, a Free or a
\* step without effect of the abstract heap, and so is every step of another process.
THEOREM ProcessRefinement == Spec => HeapPromises
<1>1. IInv /\ IInv' /\ [Next]_vars => [KeepsPromises]_vars
  <2> SUFFICES ASSUME IInv, IInv', Next
               PROVE  KeepsPromises
    OBVIOUS
  <2>1. ASSUME NEW p \in Procs, PinitHeap(p)
        PROVE  KeepsPromises
    <3>1. \A q \in Procs \ {p} : live'[q] = live[q]
      BY <2>1 DEF PinitHeap, IInv
    <3> QED
      BY <2>1, <3>1 DEF KeepsPromises
  <2>2. ASSUME NEW p \in Procs, NEW n \in Sizes, Pmalloc(p, n)
        PROVE  KeepsPromises
    BY <2>2, PmallocKeepsPromises DEF Requests
  <2>3. ASSUME NEW p \in Procs, NEW amount \in Counts, NEW size \in Sizes,
               Pcalloc(p, amount, size)
        PROVE  KeepsPromises
    <3>1. size * Amount(amount) \in Requests
      BY DEF Requests
    <3> QED
      BY <2>3, <3>1, PmallocKeepsPromises DEF Pcalloc
  <2>4. ASSUME NEW p \in Procs, NEW b \in live[p], Pfree(p, b)
        PROVE  KeepsPromises
    <3>1. live'[p] = live[p] \ {b} /\ \A q \in Procs \ {p} : live'[q] = live[q]
      BY <2>4 DEF Pfree, IInv
    <3>2. Heap(p)!Free
      BY <2>4, <3>1 DEF Heap!Free
    <3> QED
      BY <3>1, <3>2 DEF KeepsPromises, Heap!Next
  <2> QED
    BY <2>1, <2>2, <2>3, <2>4 DEF Next
<1> QED
  BY <1>1, HeapsInvariant, PTL DEF Spec, HeapPromises
=============================================================================
