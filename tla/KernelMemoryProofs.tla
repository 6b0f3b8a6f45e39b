------------------------- MODULE KernelMemoryProofs -------------------------
(***************************************************************************)
(* The kernel's own memory.  The heap of kmem.c is correct for every        *)
(* header, base, limit and set of sizes: its list keeps its shape, the used *)
(* chunks are the blocks in the callers' hands, and every operation is one  *)
(* of HeapSpec.  The table of shared.c is correct for any number of names,  *)
(* blocks and slots: memory that is attached is never given back, and each  *)
(* name and block has one region.                                           *)
(***************************************************************************)
EXTENDS KernelHeap, SharedMemory, ChunksProofs, NaturalsInduction

\* The inductive invariant.  LiveAreUsed is the goal; kfree finds the chunk it
\* is given only in an ordered list, and leaves no two free neighbours only if
\* there were none before.
IInv ==
  /\ TypeOK
  /\ Layout
  /\ LiveAreUsed
  /\ NoFreeNeighbours
  /\ OverrunIsBounded

\* What kmalloc and kcalloc are asked for is a number.
LEMMA RequestsAreNat == Requests \subseteq Nat
<1>1. ASSUME NEW m \in Nat, NEW n \in Nat
      PROVE  m * n \in Nat
  BY <1>1
<1>2. \A size \in Sizes, amount \in Counts : size * amount \in Nat
  BY <1>1, KernelHeapAssumption
<1>3. \A n \in Requests : \/ n \in Sizes
                          \/ \E size \in Sizes, amount \in Counts : n = size * amount
  BY DEF Requests
<1>4. Sizes \subseteq Nat
  BY KernelHeapAssumption
<1> QED
  BY <1>2, <1>3, <1>4

\* The types of the constants.
LEMMA Constants ==
  /\ Base \in Nat /\ Limit \in Nat /\ Header \in Nat \ {0}
  /\ Base + Header <= Limit /\ Limit + Header \in Nat
  BY KernelHeapAssumption, HeaderAssumption

\* init_kheap: one chunk, nothing handed out.
LEMMA InitIInv == Init => IInv
<1> SUFFICES ASSUME Init
             PROVE  IInv
  OBVIOUS
<1> DEFINE head == [start |-> Base, size |-> Header, used |-> TRUE]
<1>1. chunks = <<head>> /\ live = {}
  BY DEF Init, NewHeap
<1>2. head \in Chunk
  BY Constants DEF Chunk
<1>3. chunks \in Seq(Chunk) /\ Len(chunks) = 1 /\ chunks[1] = head
  BY <1>1, <1>2
<1>4. End(chunks[1]) = Base + Header
  BY <1>3 DEF End
<1> HIDE DEF head
<1>5. TypeOK
  BY <1>1, <1>3 DEF TypeOK, head
<1>6. Layout
  BY <1>3 DEF Layout, Ordered
<1>7. NoFreeNeighbours
  BY <1>3 DEF NoFreeNeighbours, Coalesced
<1>8. LiveAreUsed
  BY <1>1, <1>3 DEF LiveAreUsed, UsedBlocks
<1>9. OverrunIsBounded
  BY <1>3, <1>4, Constants DEF OverrunIsBounded
<1> QED
  BY <1>5, <1>6, <1>7, <1>8, <1>9 DEF IInv

(***************************************************************************)
(* Every operation keeps the invariant.                                     *)
(***************************************************************************)
LEMMA KmallocReuseStep ==
  ASSUME IInv, NEW n \in Requests, KmallocReuse(n)
  PROVE  IInv'
<1>1. n \in Nat
  BY RequestsAreNat
<1>2. /\ chunks \in Seq(Chunk) /\ Ordered(chunks) /\ Coalesced(chunks)
      /\ chunks[1].used /\ Len(chunks) >= 1 /\ Below(chunks, Limit + Header)
  BY DEF IInv, TypeOK, Layout, NoFreeNeighbours, OverrunIsBounded, Below
<1>3. Fits(chunks, n) # {} /\ chunks' = Reuse(chunks, n)
  BY DEF KmallocReuse
<1>4. /\ FirstFit(chunks, n) \in 2..Len(chunks)
      /\ chunks' \in Seq(Chunk) /\ Len(chunks') = Len(chunks)
      /\ chunks'[1] = chunks[1]
      /\ Ordered(chunks') /\ Below(chunks', Limit + Header) /\ Coalesced(chunks')
      /\ UsedBlocks(chunks') = UsedBlocks(chunks) \cup
           {[ptr |-> chunks[FirstFit(chunks, n)].start, size |-> n]}
  BY <1>1, <1>2, <1>3, Constants, ReuseKeeps
<1>5. LiveAreUsed'
  BY <1>4 DEF IInv, LiveAreUsed, KmallocReuse
<1>6. TypeOK'
  <2>1. chunks[FirstFit(chunks, n)].start \in Nat
    BY <1>2, <1>4, ChunkFields
  <2> QED
    BY <1>4, <2>1 DEF IInv, TypeOK, KmallocReuse
<1> QED
  BY <1>4, <1>5, <1>6
  DEF IInv, Layout, NoFreeNeighbours, OverrunIsBounded, Below

\* kmalloc with a new chunk at the end keeps the invariant.
LEMMA KmallocExtendStep ==
  ASSUME IInv, NEW n \in Requests, KmallocExtend(n)
  PROVE  IInv'
<1>1. n \in Nat
  BY RequestsAreNat
<1>2. /\ chunks \in Seq(Chunk) /\ Ordered(chunks) /\ Coalesced(chunks)
      /\ Len(chunks) >= 1 /\ Below(chunks, Limit + Header)
  BY DEF IInv, TypeOK, Layout, NoFreeNeighbours, OverrunIsBounded, Below
<1>3. CanExtend(chunks, n, Limit) /\ chunks' = Extend(chunks, n)
  BY DEF KmallocExtend
<1>4. /\ NextStart(chunks) \in Nat
      /\ chunks' \in Seq(Chunk) /\ Len(chunks') = Len(chunks) + 1
      /\ chunks'[1] = chunks[1]
      /\ Ordered(chunks') /\ Below(chunks', Limit + Header) /\ Coalesced(chunks')
      /\ UsedBlocks(chunks') = UsedBlocks(chunks) \cup
           {[ptr |-> NextStart(chunks), size |-> n]}
  BY <1>1, <1>2, <1>3, Constants, ExtendKeeps
<1>5. LiveAreUsed'
  BY <1>4 DEF IInv, LiveAreUsed, KmallocExtend
<1>6. Len(chunks') >= 1
  BY <1>2, <1>4, LenProperties
<1>7. TypeOK'
  BY <1>4, <1>6 DEF IInv, TypeOK, KmallocExtend
<1> QED
  BY <1>4, <1>5, <1>7
  DEF IInv, Layout, NoFreeNeighbours, OverrunIsBounded, Below

\* kfree keeps the invariant: it takes back the block it names.
LEMMA KfreeStep ==
  ASSUME IInv, NEW b \in live, Kfree(b)
  PROVE  IInv'
<1>1. /\ chunks \in Seq(Chunk) /\ Ordered(chunks) /\ Coalesced(chunks)
      /\ chunks[1].used /\ Len(chunks) >= 1 /\ Below(chunks, Limit + Header)
  BY DEF IInv, TypeOK, Layout, NoFreeNeighbours, OverrunIsBounded, Below
<1>2. PICK i \in 2..Len(chunks) :
        chunks[i].used /\ b = [ptr |-> chunks[i].start, size |-> chunks[i].size]
  BY DEF IInv, LiveAreUsed, UsedBlocks
<1>3. chunks' = Release(chunks, i)
  <2>1. i \in 1..Len(chunks) /\ b.ptr = chunks[i].start
    BY <1>2
  <2> QED
    BY <1>1, <2>1, FreeFindsTheChunk DEF Kfree
<1>4. /\ chunks' \in Seq(Chunk) /\ Len(chunks') >= 1
      /\ chunks'[1] = chunks[1]
      /\ Ordered(chunks') /\ Below(chunks', Limit + Header) /\ Coalesced(chunks')
      /\ UsedBlocks(chunks') = UsedBlocks(chunks) \
           {[ptr |-> chunks[i].start, size |-> chunks[i].size]}
  BY <1>1, <1>2, <1>3, Constants, ReleaseKeeps
<1>5. LiveAreUsed'
  BY <1>2, <1>4 DEF IInv, LiveAreUsed, Kfree
<1>6. TypeOK'
  BY <1>4 DEF IInv, TypeOK, Kfree
<1> QED
  BY <1>4, <1>5, <1>6
  DEF IInv, Layout, NoFreeNeighbours, OverrunIsBounded, Below

\* What changes neither chunks nor live keeps the invariant.
LEMMA StutterStep ==
  ASSUME IInv, UNCHANGED vars
  PROVE  IInv'
  BY DEF IInv, TypeOK, Layout, LiveAreUsed, NoFreeNeighbours, OverrunIsBounded, vars

\* kmalloc, whichever way it goes, keeps the invariant.
LEMMA KmallocStep ==
  ASSUME IInv, NEW n \in Requests, Kmalloc(n)
  PROVE  IInv'
<1>1. CASE KmallocReuse(n)
  BY <1>1, KmallocReuseStep
<1>2. CASE KmallocExtend(n)
  BY <1>2, KmallocExtendStep
<1>3. CASE KmallocFail(n)
  BY <1>3, StutterStep DEF KmallocFail
<1> QED
  BY <1>1, <1>2, <1>3 DEF Kmalloc

\* kmem.c: the list of chunks keeps its shape and describes exactly the blocks
\* that callers hold, whatever they ask for and in whatever order they free.
THEOREM HeapInvariant == Spec => []IInv
<1>1. Init => IInv
  BY InitIInv
<1>2. IInv /\ [Next]_vars => IInv'
  <2> SUFFICES ASSUME IInv, [Next]_vars
               PROVE  IInv'
    OBVIOUS
  <2>1. ASSUME NEW n \in Sizes, Kmalloc(n)
        PROVE  IInv'
    BY <2>1, KmallocStep DEF Requests
  <2>2. ASSUME NEW amount \in Counts, NEW size \in Sizes, Kcalloc(amount, size)
        PROVE  IInv'
    <3>1. size * amount \in Requests
      BY DEF Requests
    <3> QED
      BY <2>2, <3>1, KmallocStep DEF Kcalloc
  <2>3. ASSUME NEW b \in live, Kfree(b)
        PROVE  IInv'
    BY <2>3, KfreeStep
  <2>4. CASE UNCHANGED vars
    BY <2>4, StutterStep
  <2> QED
    BY <2>1, <2>2, <2>3, <2>4 DEF Next
<1> QED
  BY <1>1, <1>2, PTL DEF Spec

\* kmem.c: the fields of every chunk stay well formed and the first chunk stays
\* the header that init_kheap wrote.
THEOREM TypeCorrect == Spec => []TypeOK
<1>1. IInv => TypeOK
  BY DEF IInv
<1> QED
  BY <1>1, HeapInvariant, PTL

\* kmem.c: a kfree takes back the caller's block and no other, and no kmalloc
\* hands out bytes in use: the used chunks are the blocks that callers hold.
THEOREM LiveBlocksAreUsedChunks == Spec => []LiveAreUsed
<1>1. IInv => LiveAreUsed
  BY DEF IInv
<1> QED
  BY <1>1, HeapInvariant, PTL

\* kmem.c: one look back and one look ahead merge all free neighbours.
THEOREM FreeChunksAreMerged == Spec => []NoFreeNeighbours
<1>1. IInv => NoFreeNeighbours
  BY DEF IInv
<1> QED
  BY <1>1, HeapInvariant, PTL

\* kmem.c: a block passes MEMORY_END by less than a header's worth of bytes.
THEOREM OverrunBounded == Spec => []OverrunIsBounded
<1>1. IInv => OverrunIsBounded
  BY DEF IInv
<1> QED
  BY <1>1, HeapInvariant, PTL

(***************************************************************************)
(* The list of chunks implements HeapSpec.                                  *)
(***************************************************************************)
LEMMA AllocImplemented ==
  ASSUME IInv, IInv', NEW n \in Requests, NEW p,
         live' = live \cup {[ptr |-> p, size |-> n]},
         \A a \in live : a.ptr # p
  PROVE  Abstract!Alloc
<1> DEFINE b == [ptr |-> p, size |-> n]
<1>1. /\ chunks' \in Seq(Chunk) /\ Ordered(chunks') /\ Below(chunks', Limit + Header)
      /\ live' = UsedBlocks(chunks')
      /\ chunks'[1] = [start |-> Base, size |-> Header, used |-> TRUE]
  BY DEF IInv, TypeOK, Layout, LiveAreUsed, OverrunIsBounded, Below
<1>2. b \in UsedBlocks(chunks')
  BY <1>1
<1>3. /\ p \in Nat /\ n \in Nat
      /\ Base + 2 * Header <= p /\ p + n <= Limit + Header
  <2>1. End(chunks'[1]) = Base + Header
    BY <1>1 DEF End
  <2>2. /\ b.ptr \in Nat /\ b.size \in Nat
        /\ End(chunks'[1]) + Header <= b.ptr
        /\ b.ptr + b.size <= Limit + Header
    BY <1>1, <1>2, Constants, UsedBlockBounds
  <2> QED
    BY <2>1, <2>2, Constants
<1>4. b \in Abstract!Blocks
  BY <1>3, Constants DEF Abstract!Blocks
<1>5. ASSUME NEW a \in live
      PROVE  Abstract!Apart(a, b)
  <2>1. a # b /\ a \in UsedBlocks(chunks')
    BY <1>1
  <2> HIDE DEF b
  <2> QED
    BY <1>1, <1>2, <2>1, UsedBlocksApart DEF Abstract!Apart
<1> HIDE DEF b
<1>6. b.ptr + b.size <= Limit + Header
  BY <1>3 DEF b
<1> QED
  BY <1>4, <1>5, <1>6 DEF Abstract!Alloc, b

\* kmem.c: seen from its callers, every kmalloc, kcalloc and kfree is an Alloc,
\* a Free or a step without effect of the abstract heap.
THEOREM Refinement == Spec => HeapPromise
<1>1. Init => Abstract!Init
  BY DEF Init, Abstract!Init
<1>2. IInv /\ IInv' /\ [Next]_vars => [Abstract!Next]_live
  <2> SUFFICES ASSUME IInv, IInv', [Next]_vars
               PROVE  [Abstract!Next]_live
    OBVIOUS
  <2>1. ASSUME NEW n \in Requests, Kmalloc(n)
        PROVE  [Abstract!Next]_live
    <3>0. n \in Nat /\ live = UsedBlocks(chunks) /\ chunks \in Seq(Chunk)
            /\ Len(chunks) >= 1 /\ Ordered(chunks)
      BY RequestsAreNat DEF IInv, TypeOK, LiveAreUsed, Layout
    <3>1. CASE KmallocReuse(n)
      <4>1. \A a \in live : a.ptr # chunks[FirstFit(chunks, n)].start
        BY <3>0, <3>1, ReusedIsFresh DEF KmallocReuse
      <4> QED
        BY <3>1, <4>1, AllocImplemented DEF KmallocReuse, Abstract!Next
    <3>2. CASE KmallocExtend(n)
      <4>1. \A a \in live : a.ptr # NextStart(chunks)
        BY <3>0, ExtensionIsFresh
      <4> QED
        BY <3>2, <4>1, AllocImplemented DEF KmallocExtend, Abstract!Next
    <3>3. CASE KmallocFail(n)
      BY <3>3 DEF KmallocFail, vars
    <3> QED
      BY <2>1, <3>1, <3>2, <3>3 DEF Kmalloc
  <2>2. ASSUME NEW amount \in Counts, NEW size \in Sizes, Kcalloc(amount, size)
        PROVE  [Abstract!Next]_live
    <3>1. size * amount \in Requests
      BY DEF Requests
    <3> QED
      BY <2>1, <2>2, <3>1 DEF Kcalloc
  <2>3. ASSUME NEW b \in live, Kfree(b)
        PROVE  [Abstract!Next]_live
    BY <2>3 DEF Kfree, Abstract!Next, Abstract!Free
  <2>4. CASE UNCHANGED vars
    BY <2>4 DEF vars
  <2>5. \A n \in Sizes : n \in Requests
    BY DEF Requests
  <2> QED
    BY <2>1, <2>2, <2>3, <2>4, <2>5 DEF Next
<1> QED
  BY <1>1, <1>2, HeapInvariant, PTL DEF Spec, HeapPromise, Abstract!Spec

(***************************************************************************)
(* The table of shared.c.                                                   *)
(***************************************************************************)
\* A set of numbers up to m has a last one.
LEMMA LastExists ==
  ASSUME NEW m \in Nat, NEW S, S \subseteq 0..m, S # {}
  PROVE  \E i \in S : \A j \in S : i >= j
<1> DEFINE T == {m - i : i \in S}
<1>1. T \subseteq Nat /\ T # {}
  <2>1. \A i \in S : m - i \in Nat
    OBVIOUS
  <2> QED
    BY <2>1
<1>2. PICK t \in T : \A u \in T : ~(<<u, t>> \in OpToRel(<, Nat))
  BY <1>1, NatLessThanWellFounded, WFMin
<1>3. PICK i \in S : t = m - i
  OBVIOUS
<1>4. ASSUME NEW j \in S
      PROVE  i >= j
  <2>1. m - j \in T /\ m - j \in Nat /\ t \in Nat
    BY <1>1
  <2>2. ~(m - j < t)
    <3>1. m - j < t => <<m - j, t>> \in OpToRel(<, Nat)
      BY <2>1, Zenon DEF OpToRel
    <3> QED
      BY <1>2, <2>1, <3>1
  <2>3. i \in Int /\ j \in Int
    OBVIOUS
  <2> QED
    BY <1>3, <2>1, <2>2, <2>3
<1> QED
  BY <1>4

\* The inductive invariant.  That a detach finds the right region takes
\* OneRegionEach; that it frees the memory at the right time, CountsItsMemory;
\* that a new block is nobody's, AttachedIsAllocated.
ShmIInv ==
  /\ ShmTypeOK
  /\ OneRegionEach
  /\ AttachedIsAllocated
  /\ CountsItsMemory
  /\ RoomBelowCurrent

(***************************************************************************)
(* Where shmget puts a region.                                              *)
(***************************************************************************)
LEMMA Shape ==
  ASSUME ShmTypeOK
  PROVE  /\ current \in Nat /\ current >= 1 /\ current <= MAX_SHBLOCKS
         /\ \A j \in 0..(current - 1) : j \in Slots
         /\ \A j \in Used : j \in Regions /\ mems[j] \in Region
         /\ \A j \in Regions : j \in Used
<1>1. /\ current \in Nat /\ current >= 1 /\ current <= MAX_SHBLOCKS
      /\ MAX_SHBLOCKS \in Nat
  BY SharedMemoryAssumption DEF ShmTypeOK
<1>2. \A j \in 0..(current - 1) : j \in Slots
  BY <1>1 DEF Slots
<1>3. \A j \in Slots : mems[j] \in Region \cup {NULL}
  BY DEF ShmTypeOK
<1>4. \A j \in Slots : j >= current => mems[j] = NULL
  BY DEF ShmTypeOK
<1>5. ASSUME NEW j \in Used
      PROVE  j \in Regions /\ mems[j] \in Region
  <2>1. j \in Slots /\ mems[j] # NULL /\ j \in Nat /\ ~(j >= current)
    BY <1>4 DEF Used, Slots
  <2>2. j \in 0..(current - 1)
    BY <1>1, <2>1
  <2> QED
    BY <1>3, <2>1, <2>2 DEF Regions
<1>6. \A j \in Regions : j \in Used
  BY <1>2 DEF Regions, Used
<1> QED
  BY <1>1, <1>2, <1>5, <1>6

\* shmget takes the slot of the name or, if it has none, a free one.
LEMMA SlotFound ==
  ASSUME ShmTypeOK, OneRegionEach, NEW name \in Names,
         Named(name) \cup FreeSlots # {}
  PROVE  /\ SlotFor(name) \in 0..(current - 1)
         /\ SlotFor(name) \in Slots
         /\ Named(name) = {} => mems[SlotFor(name)] = NULL
         /\ Named(name) # {} => SlotFor(name) \in Used
         /\ \A j \in Used : j # SlotFor(name) => mems[j].name # name
<1>1. CASE Named(name) = {}
  <2>1. SlotFor(name) = Max(FreeSlots) /\ FreeSlots # {}
    BY <1>1 DEF SlotFor
  <2>2. FreeSlots \subseteq 0..(current - 1) /\ current - 1 \in Nat
    BY Shape DEF FreeSlots
  <2>3. Max(FreeSlots) \in FreeSlots
    <3>1. \E i \in FreeSlots : \A j \in FreeSlots : i >= j
      BY <2>1, <2>2, LastExists
    <3> QED
      BY <3>1 DEF Max
  <2>4. mems[SlotFor(name)] = NULL /\ SlotFor(name) \in 0..(current - 1)
    BY <2>1, <2>3 DEF FreeSlots
  <2>5. \A j \in Used : mems[j].name # name
    BY <1>1, Shape DEF Named
  <2> QED
    BY <1>1, <2>4, <2>5, Shape
<1>2. CASE Named(name) # {}
  <2>1. PICK s : s \in Named(name)
    BY <1>2
  <2>2. s \in Used /\ s \in Regions /\ mems[s].name = name
    BY <2>1, Shape DEF Named
  <2>3. ASSUME NEW j \in Used, j # s
        PROVE  mems[j].name # name
    BY <2>2, <2>3 DEF OneRegionEach
  <2>4. Named(name) = {s}
    <3>1. ASSUME NEW j \in Named(name)
          PROVE  j = s
      BY <2>3, <3>1, Shape DEF Named
    <3> QED
      BY <2>1, <3>1
  <2>5. SlotFor(name) = s
    <3>1. s \in Int
      BY <2>2, Shape DEF Used, Slots
    <3>2. Min({s}) = s
      BY <3>1 DEF Min
    <3> QED
      BY <1>2, <2>4, <3>2 DEF SlotFor
  <2> QED
    BY <1>2, <2>2, <2>3, <2>5, Shape DEF Regions, Used
<1> QED
  BY <1>1, <1>2

(***************************************************************************)
(* Every operation keeps the invariant.                                     *)
(***************************************************************************)
LEMMA ShmInitIInv == ShmInit => ShmIInv
<1> SUFFICES ASSUME ShmInit
             PROVE  ShmIInv
  OBVIOUS
<1>1. /\ current = 1 /\ MAX_SHBLOCKS \in Nat \ {0}
      /\ mems = [j \in Slots |-> NULL]
      /\ allocated = {}
      /\ attached = [n \in Names |-> [b \in Blocks |-> 0]]
  BY SharedMemoryAssumption DEF ShmInit
<1>2. Used = {}
  BY <1>1 DEF Used
<1>3. \A n \in Names, b \in Blocks : attached[n][b] = 0
  BY <1>1
<1>4. ShmTypeOK
  <2>1. current \in 1..MAX_SHBLOCKS
    BY <1>1
  <2>2. attached \in [Names -> [Blocks -> 0..MaxAttached]]
    BY <1>1, SharedMemoryAssumption
  <2> QED
    BY <1>1, <2>1, <2>2 DEF ShmTypeOK
<1>5. OneRegionEach /\ CountsItsMemory
  BY <1>2 DEF OneRegionEach, CountsItsMemory
<1>6. AttachedIsAllocated
  BY <1>3 DEF AttachedIsAllocated
<1>7. RoomBelowCurrent
  <2>1. 0 \in 0..(current - 1) /\ 0 \in Slots
    BY <1>1 DEF Slots
  <2> QED
    BY <1>1, <2>1 DEF RoomBelowCurrent, FreeSlots
<1> QED
  BY <1>4, <1>5, <1>6, <1>7 DEF ShmIInv

\* shmget of a new region keeps the invariant.
LEMMA ShmgetStep ==
  ASSUME ShmIInv, NEW name \in Names, NEW overwrite \in BOOLEAN,
         ShmgetNew(name, overwrite)
  PROVE  ShmIInv'
<1> DEFINE s == SlotFor(name)
<1>1. ShmTypeOK /\ OneRegionEach /\ AttachedIsAllocated /\ CountsItsMemory
  BY DEF ShmIInv
<1>2. PICK block \in (Blocks \ allocated) \cup {NULL} :
        /\ mems' = [mems EXCEPT ![s] =
                      [name |-> name, start |-> block, sim_access |-> 0]]
        /\ allocated' = allocated \cup ({block} \ {NULL})
  BY DEF ShmgetNew
<1> DEFINE r == [name |-> name, start |-> block, sim_access |-> 0]
<1>3. r \in Region /\ r # NULL /\ r.name = name /\ r.start = block
  BY SharedMemoryAssumption DEF Region
<1>4. /\ s \in 0..(current - 1) /\ s \in Slots
      /\ Named(name) # {} => s \in Used
      /\ \A j \in Used : j # s => mems[j].name # name
  BY <1>1, SlotFound DEF ShmgetNew
<1>5. attached' = attached /\ current # MAX_SHBLOCKS
      /\ current' = IF Named(name) = {} THEN Grown(mems') ELSE current
  BY DEF ShmgetNew
<1> HIDE DEF s, r
<1>6. mems' = [mems EXCEPT ![s] = r]
  BY <1>2 DEF r
<1>7. /\ mems'[s] = r
      /\ \A j \in Slots : j # s => mems'[j] = mems[j]
  BY <1>1, <1>4, <1>6 DEF ShmTypeOK
<1>8. /\ s \in Used'
      /\ \A j \in Used' : j # s => j \in Used /\ mems'[j] = mems[j]
  BY <1>3, <1>4, <1>7 DEF Used
<1>9. /\ current' \in {current, current + 1}
      /\ current' \in 1..MAX_SHBLOCKS
      /\ current \in Nat /\ MAX_SHBLOCKS \in Nat /\ current < MAX_SHBLOCKS
  BY <1>1, <1>5, Shape, SharedMemoryAssumption DEF Grown
<1>10. ShmTypeOK'
  <2>1. mems' \in [Slots -> Region \cup {NULL}]
    BY <1>1, <1>3, <1>4, <1>6 DEF ShmTypeOK
  <2>2. ASSUME NEW j \in Slots, j >= current'
        PROVE  mems'[j] = NULL
    <3>1. j \in Nat /\ j >= current /\ j # s
      BY <1>4, <1>9, <2>2 DEF Slots
    <3> QED
      BY <1>1, <1>7, <3>1 DEF ShmTypeOK
  <2>3. allocated' \subseteq Blocks
    BY <1>1, <1>2 DEF ShmTypeOK
  <2> QED
    BY <1>1, <1>5, <1>9, <2>1, <2>2, <2>3 DEF ShmTypeOK
<1>11. ASSUME NEW j \in Used, j # s
       PROVE  mems[j].start # NULL => mems[j].start # block
  <2>1. mems[j].start # NULL => mems[j].start \in allocated
    BY <1>1 DEF CountsItsMemory
  <2> QED
    BY <2>1
<1>12. OneRegionEach'
  <2> SUFFICES ASSUME NEW j \in Used', NEW k \in Used',
                      \/ mems'[j].name = mems'[k].name
                      \/ mems'[j].start = mems'[k].start /\ mems'[j].start # NULL
               PROVE  j = k
    BY DEF OneRegionEach
  <2>1. CASE j # s /\ k # s
    BY <1>1, <1>8, <2>1 DEF OneRegionEach
  <2>2. CASE j = s /\ k # s
    BY <1>3, <1>4, <1>7, <1>8, <1>11, <2>2
  <2>3. CASE j # s /\ k = s
    BY <1>3, <1>4, <1>7, <1>8, <1>11, <2>3
  <2> QED
    BY <2>1, <2>2, <2>3
<1>13. AttachedIsAllocated'
  BY <1>1, <1>2, <1>5 DEF AttachedIsAllocated
<1>14. CountsItsMemory'
  <2> SUFFICES ASSUME NEW j \in Used', mems'[j].start # NULL
               PROVE  /\ mems'[j].start \in allocated'
                      /\ \A n \in Names : attached[n][mems'[j].start] =
                           IF n = mems'[j].name THEN mems'[j].sim_access ELSE 0
    BY <1>5 DEF CountsItsMemory
  <2>1. CASE j # s
    BY <1>1, <1>2, <1>8, <2>1 DEF CountsItsMemory
  <2>2. CASE j = s
    <3>1. block \in Blocks \ allocated /\ mems'[j].start = block
      BY <1>2, <1>3, <1>7, <2>2
    <3>2. ASSUME NEW n \in Names
          PROVE  attached[n][block] = 0
      <4>1. attached[n][block] \in 0..MaxAttached
        BY <1>1, <3>1 DEF ShmTypeOK
      <4>2. ~(attached[n][block] > 0)
        BY <1>1, <3>1 DEF AttachedIsAllocated
      <4> QED
        BY <4>1, <4>2, SharedMemoryAssumption
    <3>3. mems'[j].sim_access = 0
      BY <1>7, <2>2 DEF r
    <3>4. block \in allocated'
      BY <1>2, <3>1, SharedMemoryAssumption
    <3> QED
      BY <3>1, <3>2, <3>3, <3>4
  <2> QED
    BY <2>1, <2>2
<1>15. RoomBelowCurrent'
  <2> SUFFICES ASSUME current' # MAX_SHBLOCKS
               PROVE  \E j \in 0..(current' - 1) : mems'[j] = NULL
    BY DEF RoomBelowCurrent, FreeSlots
  <2>1. CASE Named(name) # {}
    <3>1. current' = current /\ s \in Used
      BY <1>4, <1>5, <2>1
    <3>2. PICK j \in 0..(current - 1) : mems[j] = NULL
      BY <1>5 DEF ShmIInv, RoomBelowCurrent, FreeSlots
    <3>3. j # s /\ j \in Slots
      BY <1>1, <3>1, <3>2, Shape DEF Used
    <3> QED
      BY <1>7, <3>1, <3>2, <3>3
  <2>2. CASE Named(name) = {} /\ \E j \in 0..(current - 1) : mems'[j] = NULL
    BY <1>5, <2>2 DEF Grown
  <2>3. CASE Named(name) = {} /\ ~ \E j \in 0..(current - 1) : mems'[j] = NULL
    <3>1. current' = current + 1
      BY <1>5, <2>3 DEF Grown
    <3>2. current \in Slots /\ current \in 0..(current' - 1) /\ current # s
      BY <1>4, <1>9, <3>1 DEF Slots
    <3>3. mems'[current] = NULL
      BY <1>1, <1>7, <1>9, <3>2 DEF ShmTypeOK
    <3> QED
      BY <3>2, <3>3
  <2> QED
    BY <2>1, <2>2, <2>3
<1> QED
  BY <1>10, <1>12, <1>13, <1>14, <1>15 DEF ShmIInv

\* shmat keeps the invariant.
LEMMA ShmatStep ==
  ASSUME ShmIInv, NEW id \in 0..(MAX_SHBLOCKS + 1), Shmat(id)
  PROVE  ShmIInv'
<1> DEFINE s == id - 1
<1>1. ShmTypeOK /\ OneRegionEach /\ AttachedIsAllocated /\ CountsItsMemory
        /\ RoomBelowCurrent
  BY DEF ShmIInv
<1>2. s \in Regions /\ s \in Used /\ s \in Slots /\ mems[s] \in Region
  BY <1>1, Shape DEF Shmat, Regions
<1>3. /\ current' = current /\ allocated' = allocated
      /\ mems' = [mems EXCEPT ![s].sim_access = @ + 1]
      /\ mems[s].start # NULL => attached[mems[s].name][mems[s].start] < MaxAttached
      /\ attached' = IF mems[s].start = NULL THEN attached
           ELSE [attached EXCEPT ![mems[s].name][mems[s].start] = @ + 1]
  BY DEF Shmat
<1> HIDE DEF s
<1>4. /\ mems[s].name \in Names /\ mems[s].start \in Blocks \cup {NULL}
      /\ mems[s].sim_access \in Nat
  BY <1>2 DEF Region
<1>5. /\ mems'[s] \in Region /\ mems'[s] # NULL
      /\ mems'[s].name = mems[s].name /\ mems'[s].start = mems[s].start
      /\ mems'[s].sim_access = mems[s].sim_access + 1
      /\ \A j \in Slots : j # s => mems'[j] = mems[j]
  <2>1. mems'[s] = [mems[s] EXCEPT !.sim_access = @ + 1]
    BY <1>1, <1>2, <1>3 DEF ShmTypeOK
  <2>2. mems'[s] \in Region
    BY <1>2, <1>4, <2>1 DEF Region
  <2>3. \A j \in Slots : j # s => mems'[j] = mems[j]
    BY <1>1, <1>2, <1>3 DEF ShmTypeOK
  <2>4. /\ mems'[s].name = mems[s].name /\ mems'[s].start = mems[s].start
        /\ mems'[s].sim_access = mems[s].sim_access + 1
    BY <1>2, <2>1 DEF Region
  <2> QED
    BY <2>2, <2>3, <2>4, SharedMemoryAssumption
<1>6. /\ Used' = Used
      /\ \A j \in Used : /\ mems'[j].name = mems[j].name
                         /\ mems'[j].start = mems[j].start
  BY <1>2, <1>5 DEF Used
<1>7. /\ attached' \in [Names -> [Blocks -> 0..MaxAttached]]
      /\ \A n \in Names, b \in Blocks :
           attached'[n][b] = IF n = mems[s].name /\ b = mems[s].start
                             THEN attached[n][b] + 1 ELSE attached[n][b]
  <2>1. CASE mems[s].start = NULL
    BY <1>1, <1>3, <2>1, SharedMemoryAssumption DEF ShmTypeOK
  <2>2. CASE mems[s].start # NULL
    <3> DEFINE n0 == mems[s].name
               b0 == mems[s].start
    <3>1. n0 \in Names /\ b0 \in Blocks /\ attached[n0][b0] < MaxAttached
      BY <1>3, <1>4, <2>2
    <3>2. attached' = [attached EXCEPT ![n0][b0] = @ + 1]
      BY <1>3, <2>2
    <3>3. attached \in [Names -> [Blocks -> 0..MaxAttached]]
      BY <1>1 DEF ShmTypeOK
    <3> HIDE DEF n0, b0
    <3>4. \A n \in Names, b \in Blocks :
            attached'[n][b] = IF n = n0 /\ b = b0
                              THEN attached[n][b] + 1 ELSE attached[n][b]
      BY <3>1, <3>2, <3>3
    <3>5. attached[n0][b0] + 1 \in 0..MaxAttached
      BY <3>1, <3>3, SharedMemoryAssumption
    <3>6. attached' \in [Names -> [Blocks -> 0..MaxAttached]]
      BY <3>1, <3>2, <3>3, <3>5
    <3> QED
      BY <3>4, <3>6 DEF n0, b0
  <2> QED
    BY <2>1, <2>2
<1>8. ShmTypeOK'
  <2>1. mems' \in [Slots -> Region \cup {NULL}]
    BY <1>1, <1>3, <1>5 DEF ShmTypeOK
  <2>2. ASSUME NEW j \in Slots, j >= current'
        PROVE  mems'[j] = NULL
    <3>1. mems[j] = NULL /\ j # s
      BY <1>1, <1>2, <1>3, <2>2 DEF ShmTypeOK, Used
    <3> QED
      BY <1>5, <3>1
  <2> QED
    BY <1>1, <1>3, <1>7, <2>1, <2>2 DEF ShmTypeOK
<1>9. OneRegionEach'
  BY <1>1, <1>6 DEF OneRegionEach
<1>10. AttachedIsAllocated'
  <2> SUFFICES ASSUME NEW n \in Names, NEW b \in Blocks, attached'[n][b] > 0
               PROVE  b \in allocated
    BY <1>3 DEF AttachedIsAllocated
  <2>1. CASE n = mems[s].name /\ b = mems[s].start
    <3>1. mems[s].start # NULL
      BY <2>1, SharedMemoryAssumption
    <3> QED
      BY <1>1, <1>2, <2>1, <3>1 DEF CountsItsMemory
  <2>2. CASE ~(n = mems[s].name /\ b = mems[s].start)
    BY <1>1, <1>7, <2>2 DEF AttachedIsAllocated
  <2> QED
    BY <2>1, <2>2
<1>11. CountsItsMemory'
  <2> SUFFICES ASSUME NEW j \in Used, mems[j].start # NULL
               PROVE  /\ mems[j].start \in allocated
                      /\ \A n \in Names : attached'[n][mems[j].start] =
                           IF n = mems[j].name THEN mems'[j].sim_access ELSE 0
    BY <1>3, <1>6 DEF CountsItsMemory
  <2>1. /\ mems[j].start \in allocated /\ mems[j].start \in Blocks
        /\ \A n \in Names : attached[n][mems[j].start] =
             IF n = mems[j].name THEN mems[j].sim_access ELSE 0
    <3>1. mems[j].start \in Blocks \cup {NULL}
      BY <1>1, Shape DEF Region
    <3> QED
      BY <1>1, <3>1 DEF CountsItsMemory
  <2>2. CASE j = s
    BY <1>5, <1>7, <2>1, <2>2
  <2>3. CASE j # s
    <3>1. mems[j].start # mems[s].start
      BY <1>1, <1>2, <2>3 DEF OneRegionEach
    <3>2. mems'[j].sim_access = mems[j].sim_access
      BY <1>5, <2>3 DEF Used
    <3> QED
      BY <1>7, <2>1, <3>1, <3>2
  <2> QED
    BY <2>2, <2>3
<1>12. RoomBelowCurrent'
  <2> SUFFICES ASSUME current # MAX_SHBLOCKS
               PROVE  \E j \in 0..(current - 1) : mems'[j] = NULL
    BY <1>3 DEF RoomBelowCurrent, FreeSlots
  <2>1. PICK j \in 0..(current - 1) : mems[j] = NULL
    BY <1>1 DEF RoomBelowCurrent, FreeSlots
  <2>2. j \in Slots /\ j # s
    BY <1>1, <1>2, <2>1, Shape DEF Used
  <2> QED
    BY <1>5, <2>1, <2>2
<1> QED
  BY <1>8, <1>9, <1>10, <1>11, <1>12 DEF ShmIInv

\* The block that shmdetach is given belongs to one region at most; the region
\* that the search finds is that of the caller, and counts its attachments.
LEMMA DetachFinds ==
  ASSUME ShmIInv, NEW name \in Names, NEW block \in Blocks,
         attached[name][block] > 0,
         NEW d \in Matching(block)
  PROVE  /\ d \in Used /\ d \in Slots /\ mems[d] \in Region
         /\ mems[d].name = name /\ mems[d].start = block
         /\ mems[d].sim_access = attached[name][block]
         /\ \A n \in Names : n # name => attached[n][block] = 0
         /\ Matching(block) = {d} /\ Reached(block) = {d}
<1>1. ShmTypeOK /\ OneRegionEach /\ CountsItsMemory
  BY DEF ShmIInv
<1>2. d \in Used /\ d \in Slots /\ d \in Int /\ mems[d] \in Region
        /\ mems[d].start = block /\ block # NULL
  BY <1>1, Shape, SharedMemoryAssumption DEF Used, Slots, Matching
<1>3. \A n \in Names : attached[n][block] =
        IF n = mems[d].name THEN mems[d].sim_access ELSE 0
  BY <1>1, <1>2 DEF CountsItsMemory
<1>4. mems[d].name = name /\ mems[d].sim_access = attached[name][block]
  BY <1>3
<1>5. Matching(block) = {d}
  <2>1. ASSUME NEW j \in Matching(block)
        PROVE  j = d
    BY <1>1, <1>2, Shape DEF OneRegionEach, Matching
  <2> QED
    BY <2>1
<1>6. Reached(block) = {d}
  BY <1>2, <1>5 DEF Reached
<1> QED
  BY <1>2, <1>3, <1>4, <1>5, <1>6

\* What any detach does to the attachments.
LEMMA Detached ==
  ASSUME ShmIInv, NEW name \in Names, NEW block \in Blocks,
         Shmdetach(name, block)
  PROVE  /\ attached' \in [Names -> [Blocks -> 0..MaxAttached]]
         /\ attached[name][block] \in Nat /\ attached[name][block] > 0
         /\ \A n \in Names, b \in Blocks :
              attached'[n][b] = IF n = name /\ b = block
                                THEN attached[n][b] - 1 ELSE attached[n][b]
<1>1. attached \in [Names -> [Blocks -> 0..MaxAttached]]
  BY DEF ShmIInv, ShmTypeOK
<1>2. attached[name][block] > 0 /\ attached[name][block] \in 0..MaxAttached
        /\ attached' = [attached EXCEPT ![name][block] = @ - 1]
  BY <1>1 DEF Shmdetach
<1>3. attached[name][block] - 1 \in 0..MaxAttached
  BY <1>2, SharedMemoryAssumption
<1>4. attached' \in [Names -> [Blocks -> 0..MaxAttached]]
  BY <1>1, <1>2, <1>3
<1>5. \A n \in Names, b \in Blocks :
        attached'[n][b] = IF n = name /\ b = block
                          THEN attached[n][b] - 1 ELSE attached[n][b]
  BY <1>1, <1>2
<1> QED
  BY <1>2, <1>4, <1>5, SharedMemoryAssumption

\* A block whose region was overwritten stays with memlib's used ones for ever.
LEMMA DetachLostStep ==
  ASSUME ShmIInv, NEW name \in Names, NEW block \in Blocks,
         Shmdetach(name, block), Matching(block) = {}
  PROVE  ShmIInv'
<1>1. mems' = mems /\ allocated' = allocated /\ current' = current
  <2>1. mems = [j \in Slots |-> mems[j]]
    BY DEF ShmIInv, ShmTypeOK
  <2> QED
    BY <2>1 DEF Shmdetach, Reached
<1>2. \A j \in Used : mems[j].start # block
  BY Shape DEF ShmIInv, Matching
<1>3. ShmTypeOK'
  BY <1>1, Detached DEF ShmIInv, ShmTypeOK
<1>4. OneRegionEach' /\ RoomBelowCurrent'
  BY <1>1 DEF ShmIInv, OneRegionEach, RoomBelowCurrent, FreeSlots, Used
<1>5. AttachedIsAllocated'
  BY <1>1, Detached DEF ShmIInv, AttachedIsAllocated
<1>6. CountsItsMemory'
  <2> SUFFICES ASSUME NEW j \in Used, mems[j].start # NULL
               PROVE  /\ mems[j].start \in allocated
                      /\ \A n \in Names : attached'[n][mems[j].start] =
                           IF n = mems[j].name THEN mems[j].sim_access ELSE 0
    BY <1>1 DEF CountsItsMemory, Used
  <2>1. mems[j].start \in Blocks
    BY Shape DEF ShmIInv, Region
  <2> QED
    BY <1>2, <2>1, Detached DEF ShmIInv, CountsItsMemory
<1> QED
  BY <1>3, <1>4, <1>5, <1>6 DEF ShmIInv

\* shmdetach keeps the invariant.
LEMMA DetachStep ==
  ASSUME ShmIInv, NEW name \in Names, NEW block \in Blocks,
         Shmdetach(name, block),
         NEW d \in Matching(block)
  PROVE  ShmIInv'
<1>1. ShmTypeOK /\ OneRegionEach /\ AttachedIsAllocated /\ CountsItsMemory
        /\ RoomBelowCurrent
  BY DEF ShmIInv
<1>2. /\ d \in Used /\ d \in Slots /\ mems[d] \in Region
      /\ mems[d].name = name /\ mems[d].start = block
      /\ mems[d].sim_access = attached[name][block]
      /\ \A n \in Names : n # name => attached[n][block] = 0
      /\ Matching(block) = {d} /\ Reached(block) = {d}
  BY DetachFinds DEF Shmdetach
<1>3. /\ current' = current
      /\ mems' = [j \in Slots |->
                    IF j # d THEN mems[j]
                    ELSE IF Last(mems[d]) THEN NULL
                    ELSE [mems[d] EXCEPT !.sim_access = @ - 1]]
      /\ allocated' = IF Last(mems[d]) THEN allocated \ {block} ELSE allocated
  BY <1>2 DEF Shmdetach
<1>0. allocated' = IF Last(mems[d]) THEN allocated \ {block} ELSE allocated
  BY <1>3
<1>4. /\ \A j \in Slots : j # d => mems'[j] = mems[j]
      /\ IF mems[d].sim_access = 1 THEN mems'[d] = NULL
         ELSE /\ mems'[d] \in Region /\ mems'[d] # NULL
              /\ mems'[d].name = name /\ mems'[d].start = block
              /\ mems'[d].sim_access = mems[d].sim_access - 1
  <2>1. CASE mems[d].sim_access = 1
    BY <1>1, <1>2, <1>3, <2>1 DEF Last, ShmTypeOK
  <2>2. CASE mems[d].sim_access # 1
    <3>2. mems'[d] = [mems[d] EXCEPT !.sim_access = @ - 1]
            /\ \A j \in Slots : j # d => mems'[j] = mems[j]
      BY <1>2, <1>3, <2>2 DEF Last
    <3>3. mems[d].sim_access - 1 \in Nat
      BY <1>2, Detached
    <3>4. /\ mems'[d] \in Region
          /\ mems'[d].name = name /\ mems'[d].start = block
          /\ mems'[d].sim_access = mems[d].sim_access - 1
      BY <1>2, <3>2, <3>3 DEF Region
    <3> QED
      BY <2>2, <3>2, <3>4, SharedMemoryAssumption
  <2> QED
    BY <2>1, <2>2
<1>5. /\ \A j \in Used' : j \in Used /\ mems'[j].name = mems[j].name
                            /\ mems'[j].start = mems[j].start
      /\ \A j \in Used' : j # d => mems'[j] = mems[j]
  BY <1>2, <1>4 DEF Used
<1>6. ShmTypeOK'
  <2>1. mems' \in [Slots -> Region \cup {NULL}]
    <3>1. DOMAIN mems' = Slots /\ mems' = [j \in Slots |-> mems'[j]]
      BY <1>1, <1>3 DEF ShmTypeOK
    <3>2. \A j \in Slots : mems'[j] \in Region \cup {NULL}
      BY <1>1, <1>2, <1>4 DEF ShmTypeOK
    <3> QED
      BY <3>1, <3>2
  <2>2. \A j \in Slots : j >= current' => mems'[j] = NULL
    BY <1>1, <1>2, <1>3, <1>4 DEF ShmTypeOK, Used
  <2>3. allocated' \subseteq Blocks
    BY <1>1, <1>3 DEF ShmTypeOK
  <2> QED
    BY <1>1, <1>3, <2>1, <2>2, <2>3, Detached DEF ShmTypeOK
<1>7. OneRegionEach'
  BY <1>1, <1>5 DEF OneRegionEach
<1>8. AttachedIsAllocated'
  <2> SUFFICES ASSUME NEW n \in Names, NEW b \in Blocks, attached'[n][b] > 0
               PROVE  b \in allocated'
    BY DEF AttachedIsAllocated
  <2>1. attached[n][b] > 0
    <3>1. CASE n = name /\ b = block
      BY <3>1, Detached
    <3>2. CASE ~(n = name /\ b = block)
      BY <3>2, Detached
    <3> QED
      BY <3>1, <3>2
  <2>2. b \in allocated
    BY <1>1, <2>1 DEF AttachedIsAllocated
  <2>3. b = block => n = name /\ ~Last(mems[d])
    <3>1. b = block => n = name
      BY <1>2, <2>1
    <3>2. b = block /\ n = name => attached'[n][b] = attached[name][block] - 1
      BY Detached
    <3> QED
      BY <1>2, <3>1, <3>2 DEF Last
  <2> QED
    BY <1>3, <2>2, <2>3
<1>9. CountsItsMemory'
  <2> SUFFICES ASSUME NEW j \in Used', mems'[j].start # NULL
               PROVE  /\ mems'[j].start \in allocated'
                      /\ \A n \in Names : attached'[n][mems'[j].start] =
                           IF n = mems'[j].name THEN mems'[j].sim_access ELSE 0
    BY DEF CountsItsMemory
  <2>1. /\ j \in Used /\ mems[j].start \in Blocks /\ mems[j].start \in allocated
        /\ mems'[j].start = mems[j].start /\ mems'[j].name = mems[j].name
        /\ \A n \in Names : attached[n][mems[j].start] =
             IF n = mems[j].name THEN mems[j].sim_access ELSE 0
    <3>1. mems[j].start \in Blocks \cup {NULL}
      BY <1>1, <1>5, Shape DEF Region
    <3> QED
      BY <1>1, <1>5, <3>1 DEF CountsItsMemory
  <2>2. CASE j = d
    <3>1. mems[d].sim_access # 1 /\ mems'[d].sim_access = mems[d].sim_access - 1
      BY <1>4, <2>2 DEF Used
    <3>2. \A n \in Names : attached'[n][block] =
            IF n = name THEN attached[n][block] - 1 ELSE attached[n][block]
      BY Detached
    <3> QED
      BY <1>0, <1>2, <2>1, <2>2, <3>1, <3>2 DEF Last
  <2>3. CASE j # d
    <3>1. mems[j].start # block
      BY <1>1, <1>2, <2>1, <2>3 DEF OneRegionEach
    <3>2. mems'[j].sim_access = mems[j].sim_access
      BY <1>5, <2>3
    <3> QED
      BY <1>0, <2>1, <3>1, <3>2, Detached
  <2> QED
    BY <2>2, <2>3
<1>10. RoomBelowCurrent'
  <2> SUFFICES ASSUME current # MAX_SHBLOCKS
               PROVE  \E j \in 0..(current - 1) : mems'[j] = NULL
    BY <1>3 DEF RoomBelowCurrent, FreeSlots
  <2>1. PICK j \in 0..(current - 1) : mems[j] = NULL
    BY <1>1 DEF RoomBelowCurrent, FreeSlots
  <2>2. j \in Slots /\ j # d
    BY <1>1, <1>2, <2>1, Shape DEF Used
  <2> QED
    BY <1>4, <2>1, <2>2
<1> QED
  BY <1>6, <1>7, <1>8, <1>9, <1>10 DEF ShmIInv

(***************************************************************************)
(* The theorems.                                                            *)
(***************************************************************************)
\* shared.c: the table of regions, the blocks that memlib has given out and the
\* attachments of the processes stay consistent, in every order of the calls.
THEOREM RegionsInvariant == ShmSpec => []ShmIInv
<1>1. ShmIInv /\ [ShmNext]_shmVars => ShmIInv'
  <2> SUFFICES ASSUME ShmIInv, [ShmNext]_shmVars
               PROVE  ShmIInv'
    OBVIOUS
  <2>1. CASE UNCHANGED shmVars
    BY <2>1 DEF shmVars, ShmIInv, ShmTypeOK, OneRegionEach, AttachedIsAllocated,
                CountsItsMemory, RoomBelowCurrent, FreeSlots, Used
  <2>2. ASSUME NEW name \in Names, NEW overwrite \in BOOLEAN,
               ShmgetNew(name, overwrite)
        PROVE  ShmIInv'
    BY <2>2, ShmgetStep
  <2>3. ASSUME NEW name \in Names, NEW overwrite \in BOOLEAN,
               ShmgetSame(name, overwrite)
        PROVE  ShmIInv'
    BY <2>1, <2>3 DEF ShmgetSame
  <2>4. ASSUME NEW id \in 0..(MAX_SHBLOCKS + 1), Shmat(id)
        PROVE  ShmIInv'
    BY <2>4, ShmatStep
  <2>5. ASSUME NEW id \in 0..(MAX_SHBLOCKS + 1), ShmatFails(id)
        PROVE  ShmIInv'
    BY <2>1, <2>5 DEF ShmatFails
  <2>6. ASSUME NEW name \in Names, NEW block \in Blocks,
               Shmdetach(name, block)
        PROVE  ShmIInv'
    BY <2>6, DetachLostStep, DetachStep
  <2> QED
    BY <2>1, <2>2, <2>3, <2>4, <2>5, <2>6 DEF ShmNext
<1> QED
  BY <1>1, ShmInitIInv, PTL DEF ShmSpec

\* shared.c: current stays within the table and no region lies behind it.
THEOREM RegionTypeCorrect == ShmSpec => []ShmTypeOK
<1>1. ShmIInv => ShmTypeOK
  BY DEF ShmIInv
<1> QED
  BY <1>1, RegionsInvariant, PTL

\* shmget, shmdetach: memory that a process has attached is not given back to
\* memlib, whoever overwrites the region or detaches from it meanwhile.
THEOREM AttachedMemoryStays == ShmSpec => []AttachedIsAllocated
<1>1. ShmIInv => AttachedIsAllocated
  BY DEF ShmIInv
<1> QED
  BY <1>1, RegionsInvariant, PTL

\* shmget: a name has one region, and a block belongs to one.
THEOREM RegionsAreUnique == ShmSpec => []OneRegionEach
<1>1. ShmIInv => OneRegionEach
  BY DEF ShmIInv
<1> QED
  BY <1>1, RegionsInvariant, PTL

\* shmat, shmdetach: sim_access is the number of attachments of the region's
\* memory, so the one that takes it to zero is the last.
THEOREM CountsAreRight == ShmSpec => []CountsItsMemory
<1>1. ShmIInv => CountsItsMemory
  BY DEF ShmIInv
<1> QED
  BY <1>1, RegionsInvariant, PTL

\* shmget: below a table of MAX_SHBLOCKS slots there is always one that is free.
THEOREM ShmgetHasRoom == ShmSpec => []RoomBelowCurrent
<1>1. ShmIInv => RoomBelowCurrent
  BY DEF ShmIInv
<1> QED
  BY <1>1, RegionsInvariant, PTL
=============================================================================
