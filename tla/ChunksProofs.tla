---------------------------- MODULE ChunksProofs ----------------------------
(***************************************************************************)
(* Facts about the operations on a list of chunks, for every list of the    *)
(* right shape: what kmalloc and kfree of kmem.c (and pmalloc and pfree of  *)
(* pmem.c) do to the order of the chunks, to the neighbours of a free       *)
(* chunk, to the blocks in use and to the last address of the heap.         *)
(***************************************************************************)
EXTENDS Chunks, SequenceTheorems, WellFoundedInduction, TLAPS

\* The list fits below an address.
Below(list, top) == \A i \in 1..Len(list) : End(list[i]) <= top

\* No two neighbours are free, but perhaps the chunks at i and i + 1.
CoalescedBut(list, i) ==
  \A j \in 1..(Len(list) - 1) : j # i => list[j].used \/ list[j + 1].used

(***************************************************************************)
(* The fields of a chunk, and of one that has grown.                        *)
(***************************************************************************)
LEMMA ChunkFields ==
  ASSUME NEW list \in Seq(Chunk), NEW i \in 1..Len(list)
  PROVE  /\ list[i] \in Chunk
         /\ list[i].start \in Nat /\ list[i].size \in Nat /\ list[i].used \in BOOLEAN
         /\ End(list[i]) \in Nat /\ End(list[i]) = list[i].start + list[i].size
<1>1. list[i] \in Chunk
  OBVIOUS
<1>2. list[i].start \in Nat /\ list[i].size \in Nat /\ list[i].used \in BOOLEAN
  BY <1>1 DEF Chunk
<1> QED
  BY <1>1, <1>2 DEF End

\* A chunk that took in its neighbour.
LEMMA GrownChunk ==
  ASSUME NEW c \in Chunk, NEW n \in Nat
  PROVE  /\ [c EXCEPT !.size = @ + n] =
              [start |-> c.start, size |-> c.size + n, used |-> c.used]
         /\ [c EXCEPT !.size = @ + n] \in Chunk
  BY DEF Chunk

(***************************************************************************)
(* Starting addresses are distinct in an ordered list.                      *)
(***************************************************************************)
LEMMA StartsDiffer ==
  ASSUME NEW list \in Seq(Chunk), Ordered(list),
         NEW i \in 1..Len(list), NEW j \in 1..Len(list),
         list[i].start = list[j].start
  PROVE  i = j
<1>1. i < j => End(list[i]) + Header <= list[j].start
  BY DEF Ordered
<1>2. j < i => End(list[j]) + Header <= list[i].start
  BY DEF Ordered
<1>3. /\ End(list[i]) \in Nat /\ End(list[i]) >= list[i].start
      /\ End(list[j]) \in Nat /\ End(list[j]) >= list[j].start
      /\ list[i].start \in Nat /\ list[j].start \in Nat
  <2>1. /\ list[i].start \in Nat /\ list[i].size \in Nat
        /\ End(list[i]) = list[i].start + list[i].size
    BY ChunkFields
  <2>2. /\ list[j].start \in Nat /\ list[j].size \in Nat
        /\ End(list[j]) = list[j].start + list[j].size
    BY ChunkFields
  <2> QED
    BY <2>1, <2>2
<1> QED
  BY <1>1, <1>2, <1>3, HeaderAssumption

(***************************************************************************)
(* Absorb takes the chunk after i out of the list and adds its size to the  *)
(* size of chunk i.                                                         *)
(***************************************************************************)
LEMMA AbsorbElements ==
  ASSUME NEW list \in Seq(Chunk), NEW i \in 1..(Len(list) - 1)
  PROVE  /\ Absorb(list, i) \in Seq(Chunk)
         /\ Len(Absorb(list, i)) = Len(list) - 1
         /\ \A j \in 1..(i - 1) : Absorb(list, i)[j] = list[j]
         /\ Absorb(list, i)[i].start = list[i].start
         /\ Absorb(list, i)[i].size = list[i].size + list[i + 1].size
         /\ Absorb(list, i)[i].used = list[i].used
         /\ \A j \in (i + 1)..(Len(list) - 1) : Absorb(list, i)[j] = list[j + 1]
<1> DEFINE new(j) == IF j < i THEN list[j]
                     ELSE IF j = i
                          THEN [list[i] EXCEPT !.size = @ + list[i + 1].size]
                     ELSE list[j + 1]
<1>1. list[i] \in Chunk /\ list[i + 1].size \in Nat
  BY ChunkFields
<1>2. [list[i] EXCEPT !.size = @ + list[i + 1].size] =
        [start |-> list[i].start, size |-> list[i].size + list[i + 1].size,
         used |-> list[i].used]
  BY <1>1, GrownChunk
<1>3. \A j \in 1..(Len(list) - 1) : new(j) \in Chunk
  <2>1. \A j \in 1..Len(list) : list[j] \in Chunk
    BY ElementOfSeq
  <2>2. [list[i] EXCEPT !.size = @ + list[i + 1].size] \in Chunk
    BY <1>1, GrownChunk
  <2>3. Len(list) \in Nat
    BY LenProperties
  <2> QED
    BY <2>1, <2>2, <2>3
<1>4. Len(list) - 1 \in Nat
  BY LenProperties
<1>5. Absorb(list, i) = [j \in 1..(Len(list) - 1) |-> new(j)]
  BY DEF Absorb
<1>6. Absorb(list, i) \in [1..(Len(list) - 1) -> Chunk]
  BY <1>3, <1>5
<1>7. Absorb(list, i) \in Seq(Chunk)
  BY <1>4, <1>6, SeqDef
<1>8. Len(Absorb(list, i)) = Len(list) - 1
  BY <1>4, <1>6, <1>7, LenProperties
<1>9. \A j \in 1..(Len(list) - 1) : Absorb(list, i)[j] = new(j)
  BY <1>5
<1> HIDE DEF new
<1>10. /\ \A j \in 1..(i - 1) : new(j) = list[j]
       /\ new(i) = [list[i] EXCEPT !.size = @ + list[i + 1].size]
       /\ \A j \in (i + 1)..(Len(list) - 1) : new(j) = list[j + 1]
  BY <1>4 DEF new
<1>11. Absorb(list, i)[i] = [start |-> list[i].start,
                             size |-> list[i].size + list[i + 1].size,
                             used |-> list[i].used]
  BY <1>2, <1>9, <1>10
<1> QED
  BY <1>4, <1>7, <1>8, <1>9, <1>10, <1>11

(***************************************************************************)
(* Merging two free neighbours keeps the order, the last address and the    *)
(* blocks in use.  The bytes between the two, a header, go nowhere: sizes   *)
(* are added, so the merged chunk ends before its last part did.            *)
(***************************************************************************)
LEMMA AbsorbKeeps ==
  ASSUME NEW list \in Seq(Chunk), Ordered(list),
         NEW top \in Nat, Below(list, top),
         NEW i \in 2..(Len(list) - 1), ~list[i].used, ~list[i + 1].used
  PROVE  /\ Ordered(Absorb(list, i))
         /\ Below(Absorb(list, i), top)
         /\ UsedBlocks(Absorb(list, i)) = UsedBlocks(list)
         /\ Absorb(list, i)[1] = list[1]
<1> DEFINE new == Absorb(list, i)
<1>1. /\ new \in Seq(Chunk)
      /\ Len(new) = Len(list) - 1
      /\ \A j \in 1..(i - 1) : new[j] = list[j]
      /\ new[i].start = list[i].start
      /\ new[i].size = list[i].size + list[i + 1].size
      /\ new[i].used = list[i].used
      /\ \A j \in (i + 1)..(Len(list) - 1) : new[j] = list[j + 1]
  BY AbsorbElements
<1>2. /\ Len(list) \in Nat
      /\ \A j \in 1..Len(list) : /\ list[j].start \in Nat
                                  /\ list[j].size \in Nat
                                  /\ End(list[j]) \in Nat
                                  /\ End(list[j]) = list[j].start + list[j].size
  BY ChunkFields, LenProperties
<1>3. End(list[i]) + Header <= list[i + 1].start
  BY DEF Ordered
<1>4. End(new[i]) <= End(list[i + 1])
  <2>1. End(new[i]) = list[i].start + (list[i].size + list[i + 1].size)
    BY <1>1 DEF End
  <2>2. End(list[i]) = list[i].start + list[i].size
    BY <1>2
  <2>3. End(list[i + 1]) = list[i + 1].start + list[i + 1].size
    BY <1>2
  <2>4. /\ list[i].start \in Nat /\ list[i].size \in Nat
        /\ list[i + 1].start \in Nat /\ list[i + 1].size \in Nat
    BY <1>2
  <2> HIDE DEF new
  <2> QED
    BY <2>1, <2>2, <2>3, <2>4, <1>3, HeaderAssumption
<1> DEFINE old(j) == IF j < i THEN j ELSE j + 1
<1>5. \A j \in 1..Len(new) : /\ old(j) \in 1..Len(list)
                             /\ End(new[j]) <= End(list[old(j)])
  <2> TAKE j \in 1..Len(new)
  <2>1. old(j) \in 1..Len(list)
    BY <1>1, <1>2
  <2>2. CASE j = i
    BY <1>4, <2>1, <2>2
  <2>3. CASE j # i
    <3> HIDE DEF new
    <3>0. j \in Int /\ i \in Int /\ Len(new) = Len(list) - 1 /\ Len(list) \in Nat
      BY <1>1, <1>2
    <3>1. new[j] = list[old(j)]
      <4>1. CASE j < i
        <5>1. j \in 1..(i - 1)
          BY <3>0, <4>1
        <5>2. new[j] = list[j]
          BY <1>1, <5>1
        <5> QED
          BY <4>1, <5>2
      <4>2. CASE j > i
        <5>1. j \in (i + 1)..(Len(list) - 1)
          BY <3>0, <4>2
        <5>2. new[j] = list[j + 1]
          BY <1>1, <5>1
        <5> QED
          BY <3>0, <4>2, <5>2
      <4> QED
        BY <2>3, <3>0, <4>1, <4>2
    <3>2. End(list[old(j)]) \in Nat
      BY <1>2, <2>1
    <3> HIDE DEF old
    <3> QED
      BY <2>1, <3>1, <3>2
  <2> QED
    BY <2>2, <2>3
<1>6. \A j \in 1..Len(new) : j # i => new[j] = list[old(j)]
  BY <1>1
<1>7. new[i].start = list[i].start /\ new[i].used = FALSE
  BY <1>1
<1>8. Ordered(new)
  <2> SUFFICES ASSUME NEW j \in 1..Len(new), NEW k \in 1..Len(new), j < k
               PROVE  End(new[j]) + Header <= new[k].start
    BY DEF Ordered
  <2>1. CASE k = i
    <3>1. new[j] = list[j] /\ j \in 1..Len(list) /\ i \in 1..Len(list) /\ j < i
      BY <1>1, <2>1
    <3> QED
      BY <2>1, <3>1, <1>7 DEF Ordered
  <2>2. CASE k # i
    <3>1. new[k] = list[old(k)]
      BY <1>6, <2>2
    <3>2. End(list[old(j)]) + Header <= list[old(k)].start
      BY <1>5 DEF Ordered
    <3>3. End(new[j]) <= End(list[old(j)])
      BY <1>5
    <3>4. End(new[j]) \in Nat /\ End(list[old(j)]) \in Nat /\ list[old(k)].start \in Nat
      BY <1>1, <1>2, <1>5, ChunkFields
    <3>5. new[k].start = list[old(k)].start
      BY <3>1
    <3> HIDE DEF old, new
    <3> QED
      BY <3>2, <3>3, <3>4, <3>5, HeaderAssumption
  <2> QED
    BY <2>1, <2>2
<1>9. Below(new, top)
  <2> SUFFICES ASSUME NEW j \in 1..Len(new)
               PROVE  End(new[j]) <= top
    BY DEF Below
  <2>1. End(list[old(j)]) <= top /\ End(new[j]) <= End(list[old(j)])
    BY <1>5 DEF Below
  <2>2. End(new[j]) \in Nat /\ End(list[old(j)]) \in Nat
    BY <1>1, <1>2, <1>5, ChunkFields
  <2> QED
    BY <2>1, <2>2
<1>10. UsedBlocks(new) = UsedBlocks(list)
  <2>1. ASSUME NEW b \in UsedBlocks(new)
        PROVE  b \in UsedBlocks(list)
    <3>1. PICK j \in 2..Len(new) :
            new[j].used /\ b = [ptr |-> new[j].start, size |-> new[j].size]
      BY <2>1 DEF UsedBlocks
    <3>2. j # i
      BY <3>1, <1>7
    <3>3. new[j] = list[old(j)] /\ old(j) \in 2..Len(list)
      BY <1>1, <1>6, <3>2
    <3> HIDE DEF old, new
    <3> QED
      BY <3>1, <3>3 DEF UsedBlocks
  <2>2. ASSUME NEW b \in UsedBlocks(list)
        PROVE  b \in UsedBlocks(new)
    <3>1. PICK j \in 2..Len(list) :
            list[j].used /\ b = [ptr |-> list[j].start, size |-> list[j].size]
      BY <2>2 DEF UsedBlocks
    <3> DEFINE at == IF j < i THEN j ELSE j - 1
    <3>2. at \in 2..Len(new) /\ at # i /\ new[at] = list[j]
      BY <1>1, <3>1
    <3> HIDE DEF at, new
    <3> QED
      BY <3>1, <3>2 DEF UsedBlocks
  <2> QED
    BY <2>1, <2>2
<1>11. new[1] = list[1]
  BY <1>1
<1> QED
  BY <1>8, <1>9, <1>10, <1>11

(***************************************************************************)
(* A free chunk that swallows the one after it, when that one is free too,  *)
(* leaves no free neighbours, if there were none elsewhere.                 *)
(***************************************************************************)
LEMMA AbsorbNextKeeps ==
  ASSUME NEW list \in Seq(Chunk), Ordered(list),
         NEW top \in Nat, Below(list, top),
         NEW i \in 2..Len(list), ~list[i].used, CoalescedBut(list, i)
  PROVE  /\ AbsorbNextIfFree(list, i) \in Seq(Chunk)
         /\ Len(AbsorbNextIfFree(list, i)) >= 1
         /\ AbsorbNextIfFree(list, i)[1] = list[1]
         /\ Ordered(AbsorbNextIfFree(list, i))
         /\ Below(AbsorbNextIfFree(list, i), top)
         /\ Coalesced(AbsorbNextIfFree(list, i))
         /\ UsedBlocks(AbsorbNextIfFree(list, i)) = UsedBlocks(list)
<1>0. Len(list) \in Nat
  BY LenProperties
<1>1. CASE i < Len(list) /\ ~list[i + 1].used
  <2> DEFINE new == Absorb(list, i)
  <2>1. AbsorbNextIfFree(list, i) = new
    BY <1>1 DEF AbsorbNextIfFree
  <2>2. i \in 2..(Len(list) - 1) /\ i \in 1..(Len(list) - 1)
    BY <1>0, <1>1
  <2>3. /\ Ordered(new) /\ Below(new, top)
        /\ UsedBlocks(new) = UsedBlocks(list) /\ new[1] = list[1]
    BY <1>1, <2>2, AbsorbKeeps
  <2>4. /\ new \in Seq(Chunk)
        /\ Len(new) = Len(list) - 1
        /\ \A j \in 1..(i - 1) : new[j] = list[j]
        /\ new[i].start = list[i].start
        /\ new[i].size = list[i].size + list[i + 1].size
        /\ new[i].used = list[i].used
        /\ \A j \in (i + 1)..(Len(list) - 1) : new[j] = list[j + 1]
    BY <2>2, AbsorbElements
  <2> HIDE DEF new
  <2>5. ASSUME NEW j \in 1..(Len(new) - 1)
        PROVE  new[j].used \/ new[j + 1].used
    <3>1. CASE j + 1 < i
      <4>0. j \in 1..(i - 1) /\ j + 1 \in 1..(i - 1)
        BY <1>0, <2>4, <3>1
      <4>1. new[j] = list[j] /\ new[j + 1] = list[j + 1]
        BY <2>4, <4>0
      <4> QED
        BY <1>0, <2>4, <3>1, <4>1 DEF CoalescedBut
    <3>2. CASE j + 1 = i
      <4>1. new[j] = list[j]
        BY <1>0, <2>4, <3>2
      <4>2. list[j].used \/ list[j + 1].used
        BY <1>0, <2>4, <3>2 DEF CoalescedBut
      <4> QED
        BY <3>2, <4>1, <4>2
    <3>3. CASE j = i
      <4>1. new[j + 1] = list[i + 2]
        BY <1>0, <2>4, <3>3
      <4>2. list[i + 1].used \/ list[i + 2].used
        BY <1>0, <2>4, <3>3 DEF CoalescedBut
      <4> QED
        BY <1>1, <4>1, <4>2
    <3>4. CASE j > i
      <4>0. /\ j \in (i + 1)..(Len(list) - 1)
            /\ j + 1 \in (i + 1)..(Len(list) - 1)
            /\ (j + 1) + 1 = j + 2
        BY <1>0, <2>4, <3>4
      <4>1. new[j] = list[j + 1] /\ new[j + 1] = list[j + 2]
        BY <2>4, <4>0
      <4>2. list[j + 1].used \/ list[j + 2].used
        BY <1>0, <2>4, <3>4 DEF CoalescedBut
      <4> QED
        BY <4>1, <4>2
    <3> QED
      BY <3>1, <3>2, <3>3, <3>4
  <2>6. Len(new) >= 1
    BY <1>0, <2>2, <2>4
  <2>7. Coalesced(new)
    BY <2>5 DEF Coalesced
  <2> QED
    BY <2>1, <2>3, <2>4, <2>6, <2>7
<1>2. CASE ~(i < Len(list) /\ ~list[i + 1].used)
  <2>1. AbsorbNextIfFree(list, i) = list
    BY <1>2 DEF AbsorbNextIfFree
  <2>2. Coalesced(list)
    BY <1>0, <1>2 DEF Coalesced, CoalescedBut
  <2> QED
    BY <1>0, <2>1, <2>2
<1> QED
  BY <1>1, <1>2

(***************************************************************************)
(* kfree of the chunk at i: the order, the last address and the merging of  *)
(* free neighbours survive, and exactly the chunk's block leaves use.       *)
(***************************************************************************)
LEMMA ReleaseKeeps ==
  ASSUME NEW list \in Seq(Chunk), Ordered(list), Coalesced(list),
         list[1].used,
         NEW top \in Nat, Below(list, top),
         NEW i \in 2..Len(list), list[i].used
  PROVE  /\ Release(list, i) \in Seq(Chunk)
         /\ Len(Release(list, i)) >= 1
         /\ Release(list, i)[1] = list[1]
         /\ Ordered(Release(list, i))
         /\ Below(Release(list, i), top)
         /\ Coalesced(Release(list, i))
         /\ UsedBlocks(Release(list, i)) =
              UsedBlocks(list) \ {[ptr |-> list[i].start, size |-> list[i].size]}
<1> DEFINE freed == [list EXCEPT ![i].used = FALSE]
           one == [list[i] EXCEPT !.used = FALSE]
<1>0. Len(list) \in Nat
  BY LenProperties
<1>1. one \in Chunk /\ one.start = list[i].start /\ one.size = list[i].size
        /\ one.used = FALSE
  <2>1. list[i] \in Chunk
    BY ElementOfSeq
  <2> QED
    BY <2>1 DEF Chunk
<1>2. /\ freed \in Seq(Chunk)
      /\ Len(freed) = Len(list)
      /\ \A j \in 1..Len(list) : freed[j] = IF j = i THEN one ELSE list[j]
  <2>1. i \in 1..Len(list)
    BY <1>0
  <2>2. freed = [list EXCEPT ![i] = one]
    OBVIOUS
  <2> HIDE DEF one, freed
  <2> QED
    BY <1>1, <2>1, <2>2, ExceptSeq
<1>3. \A j \in 1..Len(list) : /\ freed[j].start = list[j].start
                              /\ End(freed[j]) = End(list[j])
                              /\ freed[j].used = (j # i /\ list[j].used)
  <2> TAKE j \in 1..Len(list)
  <2>1. list[j].used \in BOOLEAN
    BY ChunkFields
  <2> HIDE DEF freed, one
  <2>2. CASE j = i
    BY <1>1, <1>2, <2>2 DEF End
  <2>3. CASE j # i
    BY <1>2, <2>1, <2>3
  <2> QED
    BY <2>2, <2>3
<1> HIDE DEF freed, one
<1>4. Ordered(freed)
  BY <1>2, <1>3 DEF Ordered
<1>5. Below(freed, top)
  BY <1>2, <1>3 DEF Below
<1>6. UsedBlocks(freed) =
        UsedBlocks(list) \ {[ptr |-> list[i].start, size |-> list[i].size]}
  <2>1. ASSUME NEW b \in UsedBlocks(freed)
        PROVE  /\ b \in UsedBlocks(list)
               /\ b # [ptr |-> list[i].start, size |-> list[i].size]
    <3>1. PICK j \in 2..Len(freed) :
            freed[j].used /\ b = [ptr |-> freed[j].start, size |-> freed[j].size]
      BY <2>1 DEF UsedBlocks
    <3>2. j # i /\ j \in 2..Len(list) /\ freed[j] = list[j]
      <4>1. j \in 2..Len(list)
        BY <1>2
      <4>2. j # i
        BY <1>1, <1>2, <3>1, <4>1
      <4> QED
        BY <1>0, <1>2, <4>1, <4>2
    <3>3. b \in UsedBlocks(list)
      BY <3>1, <3>2 DEF UsedBlocks
    <3>4. list[j].start # list[i].start
      BY <1>0, <3>2, StartsDiffer
    <3>5. b.ptr = list[j].start
      BY <3>1, <3>2
    <3> QED
      BY <3>3, <3>4, <3>5
  <2>2. ASSUME NEW b \in UsedBlocks(list),
               b # [ptr |-> list[i].start, size |-> list[i].size]
        PROVE  b \in UsedBlocks(freed)
    <3>1. PICK j \in 2..Len(list) :
            list[j].used /\ b = [ptr |-> list[j].start, size |-> list[j].size]
      BY <2>2 DEF UsedBlocks
    <3>2. j # i
      BY <2>2, <3>1
    <3>3. freed[j] = list[j] /\ freed[j].used /\ j \in 2..Len(freed)
      BY <1>0, <1>2, <3>1, <3>2
    <3> QED
      BY <3>1, <3>3 DEF UsedBlocks
  <2> QED
    BY <2>1, <2>2
<1>7. freed[1] = list[1]
  BY <1>0, <1>2
<1>8. CASE i > 1 /\ ~list[i - 1].used
  <2> DEFINE joined == Absorb(freed, i - 1)
  <2>1. Release(list, i) = AbsorbNextIfFree(joined, i - 1)
    BY <1>8 DEF Release, freed
  <2>2. i - 1 # 1
    BY <1>8
  <2>3. i - 1 \in 2..(Len(freed) - 1) /\ i - 1 \in 1..(Len(freed) - 1)
    BY <1>0, <1>2, <2>2
  <2>4. ~freed[i - 1].used /\ ~freed[(i - 1) + 1].used
    BY <1>0, <1>1, <1>2, <1>8
  <2>5. /\ Ordered(joined) /\ Below(joined, top)
        /\ UsedBlocks(joined) = UsedBlocks(freed) /\ joined[1] = freed[1]
    BY <1>2, <1>4, <1>5, <2>3, <2>4, AbsorbKeeps
  <2>6. /\ joined \in Seq(Chunk)
        /\ Len(joined) = Len(list) - 1
        /\ \A j \in 1..((i - 1) - 1) : joined[j] = freed[j]
        /\ joined[(i - 1)].start = freed[(i - 1)].start
        /\ joined[(i - 1)].size = freed[(i - 1)].size + freed[(i - 1) + 1].size
        /\ joined[(i - 1)].used = freed[(i - 1)].used
        /\ \A j \in ((i - 1) + 1)..(Len(list) - 1) : joined[j] = freed[j + 1]
    BY <1>2, <2>3, AbsorbElements
  <2> HIDE DEF joined
  <2>7. i - 1 \in 2..Len(joined) /\ ~joined[i - 1].used
    BY <1>0, <1>2, <2>3, <2>4, <2>6
  <2>8. CoalescedBut(joined, i - 1)
    <3> SUFFICES ASSUME NEW j \in 1..(Len(joined) - 1), j # i - 1
                 PROVE  joined[j].used \/ joined[j + 1].used
      BY DEF CoalescedBut
    <3>1. CASE j + 1 < i
      <4>1. joined[j] = list[j] /\ j \in 1..(Len(list) - 1)
        BY <1>0, <1>2, <2>6, <3>1
      <4>2. list[j].used \/ list[j + 1].used
        BY <4>1 DEF Coalesced
      <4>3. CASE j + 1 = i - 1
        BY <1>8, <4>1, <4>2, <4>3
      <4>4. CASE j + 1 < i - 1
        <5>1. joined[j + 1] = list[j + 1]
          BY <1>0, <1>2, <2>6, <4>4
        <5> QED
          BY <4>1, <4>2, <5>1
      <4> QED
        BY <3>1, <4>3, <4>4
    <3>2. CASE j + 1 > i
      <4>1. joined[j] = list[j + 1] /\ joined[j + 1] = list[j + 2]
        BY <1>0, <1>2, <2>6, <3>2
      <4>2. list[j + 1].used \/ list[j + 2].used
        BY <1>0, <2>6, <3>2 DEF Coalesced
      <4> QED
        BY <4>1, <4>2
    <3> QED
      BY <3>1, <3>2
  <2> QED
    BY <1>6, <1>7, <2>1, <2>5, <2>6, <2>7, <2>8, AbsorbNextKeeps
<1>9. CASE ~(i > 1 /\ ~list[i - 1].used)
  <2>1. Release(list, i) = AbsorbNextIfFree(freed, i)
    BY <1>9 DEF Release, freed
  <2>2. ~freed[i].used /\ i \in 2..Len(freed)
    BY <1>0, <1>1, <1>2
  <2>3. CoalescedBut(freed, i)
    <3> SUFFICES ASSUME NEW j \in 1..(Len(freed) - 1), j # i
                 PROVE  freed[j].used \/ freed[j + 1].used
      BY DEF CoalescedBut
    <3>1. freed[j] = list[j]
      BY <1>0, <1>2
    <3>2. CASE j + 1 = i
      BY <1>0, <1>9, <3>1, <3>2
    <3>3. CASE j + 1 # i
      <4>1. freed[j + 1] = list[j + 1]
        BY <1>0, <1>2, <3>3
      <4> QED
        BY <1>0, <1>2, <3>1, <4>1 DEF Coalesced
    <3> QED
      BY <3>2, <3>3
  <2> QED
    BY <1>2, <1>4, <1>5, <1>6, <1>7, <2>1, <2>2, <2>3, AbsorbNextKeeps
<1> QED
  BY <1>8, <1>9

(***************************************************************************)
(* A set of positions that is not empty has a first one, so the CHOOSE of   *)
(* FirstFit and of ChunkOf means what its comment says.                     *)
(***************************************************************************)
LEMMA FirstExists ==
  ASSUME NEW S, S \subseteq Nat, S # {}
  PROVE  \E i \in S : \A j \in S : i <= j
<1>1. PICK i \in S : \A j \in S : ~(<<j, i>> \in OpToRel(<, Nat))
  BY NatLessThanWellFounded, WFMin
<1>2. ASSUME NEW j \in S
      PROVE  i <= j
  <2>1. i \in Nat /\ j \in Nat
    OBVIOUS
  <2>2. ~(j < i)
    <3>1. j < i => <<j, i>> \in OpToRel(<, Nat)
      BY <2>1, Zenon DEF OpToRel
    <3> QED
      BY <1>1, <3>1
  <2> QED
    BY <2>1, <2>2
<1> QED
  BY <1>2

(***************************************************************************)
(* kfree of the address of a used chunk finds that chunk: |mem - start| is  *)
(* more than the size of every chunk before it.                             *)
(***************************************************************************)
LEMMA FreeFindsTheChunk ==
  ASSUME NEW list \in Seq(Chunk), Ordered(list), NEW i \in 1..Len(list)
  PROVE  FreeAt(list, list[i].start) = Release(list, i)
<1> DEFINE mem == list[i].start
<1>1. i \in Matches(list, mem)
  <2>1. list[i].start \in Nat /\ list[i].size \in Nat
    BY ChunkFields
  <2>2. Abs(mem - list[i].start) = 0
    BY <2>1 DEF Abs
  <2> QED
    BY <2>1, <2>2 DEF Matches
<1>2. ASSUME NEW j \in Matches(list, mem)
      PROVE  i <= j
  <2> SUFFICES ASSUME j < i
               PROVE  FALSE
    BY LenProperties DEF Matches
  <2>1. j \in 1..Len(list) /\ Abs(mem - list[j].start) <= list[j].size
    BY DEF Matches
  <2>2. End(list[j]) + Header <= mem
    BY <2>1 DEF Ordered
  <2>3. /\ list[j].start \in Nat /\ list[j].size \in Nat /\ mem \in Nat
        /\ End(list[j]) = list[j].start + list[j].size
    BY <2>1, ChunkFields
  <2> HIDE DEF mem
  <2>4. mem - list[j].start > list[j].size
    BY <2>2, <2>3, HeaderAssumption
  <2>5. Abs(mem - list[j].start) = mem - list[j].start
    BY <2>3, <2>4 DEF Abs
  <2> QED
    BY <2>1, <2>3, <2>4, <2>5
<1>3. ChunkOf(list, mem) = i
  <2>1. ChunkOf(list, mem) \in Matches(list, mem)
          /\ \A j \in Matches(list, mem) : ChunkOf(list, mem) <= j
    BY <1>1, <1>2 DEF ChunkOf
  <2>2. Matches(list, mem) \subseteq Nat
    BY LenProperties DEF Matches
  <2> HIDE DEF mem
  <2> QED
    BY <1>1, <1>2, <2>1, <2>2
<1> QED
  BY <1>1, <1>3 DEF FreeAt

(***************************************************************************)
(* kmalloc out of a free chunk: it becomes a used block of the size asked.  *)
(***************************************************************************)
LEMMA ReuseKeeps ==
  ASSUME NEW list \in Seq(Chunk), Ordered(list), Coalesced(list),
         list[1].used,
         NEW top \in Nat, Below(list, top),
         NEW n \in Nat, Fits(list, n) # {}
  PROVE  /\ FirstFit(list, n) \in 2..Len(list)
         /\ Reuse(list, n) \in Seq(Chunk)
         /\ Len(Reuse(list, n)) = Len(list)
         /\ Reuse(list, n)[1] = list[1]
         /\ Ordered(Reuse(list, n))
         /\ Below(Reuse(list, n), top)
         /\ Coalesced(Reuse(list, n))
         /\ UsedBlocks(Reuse(list, n)) =
              UsedBlocks(list) \cup
                {[ptr |-> list[FirstFit(list, n)].start, size |-> n]}
<1> DEFINE i == FirstFit(list, n)
           one == [start |-> list[i].start, size |-> n, used |-> TRUE]
           new == Reuse(list, n)
<1>0. Len(list) \in Nat
  BY LenProperties
<1>1. i \in 1..Len(list) /\ ~list[i].used /\ list[i].size >= n
  <2>1. Fits(list, n) \subseteq Nat
    BY DEF Fits
  <2>2. i \in Fits(list, n)
    BY <2>1, FirstExists DEF FirstFit
  <2> QED
    BY <2>2 DEF Fits
<1>2. i \in 2..Len(list)
  <2>1. i # 1
    BY <1>1
  <2> QED
    BY <1>0, <1>1, <2>1
<1>3. one \in Chunk /\ one.start = list[i].start /\ one.size = n /\ one.used = TRUE
  <2>1. list[i].start \in Nat
    BY <1>1, ChunkFields
  <2> QED
    BY <2>1 DEF Chunk
<1>4. new = [list EXCEPT ![i] = one]
  BY DEF Reuse
<1> HIDE DEF i, one, new
<1>5. /\ new \in Seq(Chunk)
      /\ Len(new) = Len(list)
      /\ \A j \in 1..Len(list) : new[j] = IF j = i THEN one ELSE list[j]
  BY <1>1, <1>3, <1>4, ExceptSeq
<1>6. \A j \in 1..Len(list) : new[j].start = list[j].start /\ End(new[j]) <= End(list[j])
  <2> TAKE j \in 1..Len(list)
  <2>1. /\ list[j].start \in Nat /\ list[j].size \in Nat /\ End(list[j]) \in Nat
        /\ End(list[j]) = list[j].start + list[j].size
    BY ChunkFields
  <2>2. CASE j = i
    <3>1. End(new[j]) = list[j].start + n
      BY <1>3, <1>5, <2>2 DEF End
    <3> QED
      BY <1>1, <1>3, <1>5, <2>1, <2>2, <3>1
  <2>3. CASE j # i
    BY <1>5, <2>1, <2>3
  <2> QED
    BY <2>2, <2>3
<1>7. \A j \in 1..Len(list) : /\ End(new[j]) \in Nat /\ End(list[j]) \in Nat
                              /\ list[j].start \in Nat
  BY <1>5, ChunkFields
<1>8. Ordered(new)
  <2> SUFFICES ASSUME NEW j \in 1..Len(list), NEW k \in 1..Len(list), j < k
               PROVE  End(new[j]) + Header <= new[k].start
    BY <1>5 DEF Ordered
  <2>1. End(list[j]) + Header <= list[k].start
    BY DEF Ordered
  <2> QED
    BY <1>6, <1>7, <2>1, HeaderAssumption
<1>9. Below(new, top)
  <2> SUFFICES ASSUME NEW j \in 1..Len(list)
               PROVE  End(new[j]) <= top
    BY <1>5 DEF Below
  <2>1. End(list[j]) <= top
    BY DEF Below
  <2> QED
    BY <1>6, <1>7, <2>1
<1>10. Coalesced(new)
  <2> SUFFICES ASSUME NEW j \in 1..(Len(list) - 1)
               PROVE  new[j].used \/ new[j + 1].used
    BY <1>5 DEF Coalesced
  <2>1. list[j].used \/ list[j + 1].used
    BY DEF Coalesced
  <2>2. j \in 1..Len(list) /\ j + 1 \in 1..Len(list)
    BY <1>0
  <2> QED
    BY <1>3, <1>5, <2>1, <2>2
<1>11. UsedBlocks(new) = UsedBlocks(list) \cup {[ptr |-> list[i].start, size |-> n]}
  <2>1. ASSUME NEW b \in UsedBlocks(new)
        PROVE  b \in UsedBlocks(list) \cup {[ptr |-> list[i].start, size |-> n]}
    <3>1. PICK j \in 2..Len(list) :
            new[j].used /\ b = [ptr |-> new[j].start, size |-> new[j].size]
      BY <1>5, <2>1 DEF UsedBlocks
    <3>2. CASE j = i
      BY <1>0, <1>3, <1>5, <3>1, <3>2
    <3>3. CASE j # i
      <4>1. new[j] = list[j]
        BY <1>0, <1>5, <3>3
      <4> QED
        BY <3>1, <4>1 DEF UsedBlocks
    <3> QED
      BY <3>2, <3>3
  <2>2. ASSUME NEW b \in UsedBlocks(list)
        PROVE  b \in UsedBlocks(new)
    <3>1. PICK j \in 2..Len(list) :
            list[j].used /\ b = [ptr |-> list[j].start, size |-> list[j].size]
      BY <2>2 DEF UsedBlocks
    <3>2. j # i
      BY <1>1, <3>1
    <3>3. new[j] = list[j]
      BY <1>0, <1>5, <3>2
    <3> QED
      BY <1>5, <3>1, <3>3 DEF UsedBlocks
  <2>3. [ptr |-> list[i].start, size |-> n] \in UsedBlocks(new)
    <3>1. new[i] = one /\ i \in 2..Len(new)
      BY <1>1, <1>2, <1>5
    <3> QED
      BY <1>3, <3>1 DEF UsedBlocks
  <2> QED
    BY <2>1, <2>2, <2>3
<1>12. new[1] = list[1]
  BY <1>0, <1>2, <1>5
<1> QED
  BY <1>2, <1>5, <1>8, <1>9, <1>10, <1>11, <1>12 DEF i, new

(***************************************************************************)
(* kmalloc at the end of the list.  The test leaves the new header out, so  *)
(* the new chunk may end up to a header past the limit, and no further.     *)
(***************************************************************************)
LEMMA ExtendKeeps ==
  ASSUME NEW list \in Seq(Chunk), Len(list) >= 1, Ordered(list), Coalesced(list),
         NEW limit \in Nat, Below(list, limit + Header),
         NEW n \in Nat, CanExtend(list, n, limit)
  PROVE  /\ NextStart(list) \in Nat
         /\ Extend(list, n) \in Seq(Chunk)
         /\ Len(Extend(list, n)) = Len(list) + 1
         /\ Extend(list, n)[1] = list[1]
         /\ Ordered(Extend(list, n))
         /\ Below(Extend(list, n), limit + Header)
         /\ Coalesced(Extend(list, n))
         /\ UsedBlocks(Extend(list, n)) =
              UsedBlocks(list) \cup {[ptr |-> NextStart(list), size |-> n]}
<1> DEFINE len == Len(list)
           one == [start |-> NextStart(list), size |-> n, used |-> TRUE]
           new == Extend(list, n)
<1>0. len \in Nat /\ len \in 1..len
  BY LenProperties
<1>1. End(list[len]) \in Nat /\ list[len].start \in Nat /\ End(list[len]) >= list[len].start
  <2>1. /\ list[len].start \in Nat /\ list[len].size \in Nat
        /\ End(list[len]) = list[len].start + list[len].size
    BY <1>0, ChunkFields
  <2> QED
    BY <2>1
<1>2. NextStart(list) = End(list[len]) + Header /\ NextStart(list) \in Nat
  BY <1>1, HeaderAssumption DEF NextStart
<1>3. one \in Chunk /\ one.start = NextStart(list) /\ one.size = n /\ one.used = TRUE
  BY <1>2 DEF Chunk
<1>4. new = Append(list, one)
  BY DEF Extend
<1> HIDE DEF one, new
<1>5. /\ new \in Seq(Chunk)
      /\ Len(new) = len + 1
      /\ \A j \in 1..len : new[j] = list[j]
      /\ new[len + 1] = one
  BY <1>3, <1>4, AppendProperties
<1>6. \A j \in 1..len : End(list[j]) <= End(list[len])
  <2> TAKE j \in 1..len
  <2>1. CASE j = len
    BY <1>1, <2>1
  <2>2. CASE j # len
    <3>1. End(list[j]) + Header <= list[len].start
      BY <1>0, <2>2 DEF Ordered
    <3>2. End(list[j]) \in Nat
      BY ChunkFields
    <3> QED
      BY <1>1, <3>1, <3>2, HeaderAssumption
  <2> QED
    BY <2>1, <2>2
<1>7. \A j \in 1..len : End(list[j]) \in Nat
  BY ChunkFields
<1>8. Ordered(new)
  <2> SUFFICES ASSUME NEW j \in 1..(len + 1), NEW k \in 1..(len + 1), j < k
               PROVE  End(new[j]) + Header <= new[k].start
    BY <1>5 DEF Ordered
  <2>1. j \in 1..len /\ new[j] = list[j]
    BY <1>0, <1>5
  <2>2. CASE k = len + 1
    <3>1. End(list[j]) <= End(list[len]) /\ End(list[j]) \in Nat
      BY <1>6, <1>7, <2>1
    <3> QED
      BY <1>1, <1>2, <1>3, <1>5, <2>1, <2>2, <3>1, HeaderAssumption
  <2>3. CASE k # len + 1
    <3>1. k \in 1..len /\ new[k] = list[k]
      BY <1>0, <1>5, <2>3
    <3> QED
      BY <2>1, <3>1 DEF Ordered
  <2> QED
    BY <2>2, <2>3
<1>9. Below(new, limit + Header)
  <2> SUFFICES ASSUME NEW j \in 1..(len + 1)
               PROVE  End(new[j]) <= limit + Header
    BY <1>5 DEF Below
  <2>1. CASE j = len + 1
    <3>1. End(list[len]) + n <= limit
      BY DEF CanExtend
    <3>2. End(new[j]) = NextStart(list) + n
      BY <1>3, <1>5, <2>1 DEF End
    <3> QED
      BY <1>1, <1>2, <3>1, <3>2, HeaderAssumption
  <2>2. CASE j # len + 1
    <3>1. j \in 1..len /\ new[j] = list[j]
      BY <1>0, <1>5, <2>2
    <3> QED
      BY <3>1 DEF Below
  <2> QED
    BY <2>1, <2>2
<1>10. Coalesced(new)
  <2> SUFFICES ASSUME NEW j \in 1..((len + 1) - 1)
               PROVE  new[j].used \/ new[j + 1].used
    BY <1>5 DEF Coalesced
  <2>1. CASE j = len
    BY <1>3, <1>5, <2>1
  <2>2. CASE j # len
    <3>1. j \in 1..(len - 1) /\ new[j] = list[j] /\ new[j + 1] = list[j + 1]
      BY <1>0, <1>5, <2>2
    <3> QED
      BY <3>1 DEF Coalesced
  <2> QED
    BY <2>1, <2>2
<1>11. UsedBlocks(new) = UsedBlocks(list) \cup {[ptr |-> NextStart(list), size |-> n]}
  <2>1. ASSUME NEW b \in UsedBlocks(new)
        PROVE  b \in UsedBlocks(list) \cup {[ptr |-> NextStart(list), size |-> n]}
    <3>1. PICK j \in 2..(len + 1) :
            new[j].used /\ b = [ptr |-> new[j].start, size |-> new[j].size]
      BY <1>5, <2>1 DEF UsedBlocks
    <3>2. CASE j = len + 1
      BY <1>3, <1>5, <3>1, <3>2
    <3>3. CASE j # len + 1
      <4>1. j \in 2..len /\ new[j] = list[j]
        BY <1>0, <1>5, <3>3
      <4> QED
        BY <3>1, <4>1 DEF UsedBlocks
    <3> QED
      BY <3>2, <3>3
  <2>2. ASSUME NEW b \in UsedBlocks(list)
        PROVE  b \in UsedBlocks(new)
    <3>1. PICK j \in 2..len :
            list[j].used /\ b = [ptr |-> list[j].start, size |-> list[j].size]
      BY <2>2 DEF UsedBlocks
    <3>2. new[j] = list[j] /\ j \in 2..Len(new)
      BY <1>0, <1>5
    <3> QED
      BY <3>1, <3>2 DEF UsedBlocks
  <2>3. [ptr |-> NextStart(list), size |-> n] \in UsedBlocks(new)
    <3>1. len + 1 \in 2..Len(new)
      BY <1>0, <1>5
    <3> QED
      BY <1>3, <1>5, <3>1 DEF UsedBlocks
  <2> QED
    BY <2>1, <2>2, <2>3
<1>12. new[1] = list[1]
  BY <1>0, <1>5
<1> QED
  BY <1>2, <1>5, <1>8, <1>9, <1>10, <1>11, <1>12 DEF new

(***************************************************************************)
(* Two blocks in use share no byte, headers included; every block lies past *)
(* the first chunk and the header of its own.                               *)
(***************************************************************************)
LEMMA UsedBlocksApart ==
  ASSUME NEW list \in Seq(Chunk), Ordered(list),
         NEW a \in UsedBlocks(list), NEW b \in UsedBlocks(list), a # b
  PROVE  a.ptr + a.size + Header <= b.ptr \/ b.ptr + b.size + Header <= a.ptr
<1>1. PICK i \in 2..Len(list) :
        list[i].used /\ a = [ptr |-> list[i].start, size |-> list[i].size]
  BY DEF UsedBlocks
<1>2. PICK j \in 2..Len(list) :
        list[j].used /\ b = [ptr |-> list[j].start, size |-> list[j].size]
  BY DEF UsedBlocks
<1>3. i # j
  BY <1>1, <1>2
<1>4. i < j => End(list[i]) + Header <= list[j].start
  BY DEF Ordered
<1>5. j < i => End(list[j]) + Header <= list[i].start
  BY DEF Ordered
<1>6. End(list[i]) = a.ptr + a.size /\ End(list[j]) = b.ptr + b.size
  BY <1>1, <1>2 DEF End
<1> QED
  BY <1>1, <1>2, <1>3, <1>4, <1>5, <1>6

\* A used block lies past the first chunk and below the top.
LEMMA UsedBlockBounds ==
  ASSUME NEW list \in Seq(Chunk), Ordered(list),
         NEW top \in Nat, Below(list, top),
         NEW b \in UsedBlocks(list)
  PROVE  /\ b.ptr \in Nat /\ b.size \in Nat
         /\ End(list[1]) + Header <= b.ptr
         /\ b.ptr + b.size <= top
<1>1. PICK i \in 2..Len(list) :
        list[i].used /\ b = [ptr |-> list[i].start, size |-> list[i].size]
  BY DEF UsedBlocks
<1>2. list[i].start \in Nat /\ list[i].size \in Nat
  BY ChunkFields
<1>3. End(list[1]) + Header <= list[i].start
  BY DEF Ordered
<1>4. list[i].start + list[i].size <= top
  BY DEF Below, End
<1> QED
  BY <1>1, <1>2, <1>3, <1>4

(***************************************************************************)
(* The address kmalloc returns is the address of no block in use.           *)
(***************************************************************************)
LEMMA ReusedIsFresh ==
  ASSUME NEW list \in Seq(Chunk), Ordered(list),
         NEW n \in Nat, Fits(list, n) # {},
         NEW a \in UsedBlocks(list)
  PROVE  a.ptr # list[FirstFit(list, n)].start
<1> DEFINE i == FirstFit(list, n)
<1>1. i \in 1..Len(list) /\ ~list[i].used
  <2>1. Fits(list, n) \subseteq Nat
    BY LenProperties DEF Fits
  <2>2. i \in Fits(list, n)
    BY <2>1, FirstExists DEF FirstFit
  <2> QED
    BY <2>2 DEF Fits
<1>2. PICK j \in 2..Len(list) :
        list[j].used /\ a = [ptr |-> list[j].start, size |-> list[j].size]
  BY DEF UsedBlocks
<1>3. i # j /\ j \in 1..Len(list)
  BY <1>1, <1>2
<1> HIDE DEF i
<1>4. list[i].start # list[j].start
  BY <1>1, <1>3, StartsDiffer
<1> QED
  BY <1>2, <1>4 DEF i

\* A chunk added at the end begins where no used block does.
LEMMA ExtensionIsFresh ==
  ASSUME NEW list \in Seq(Chunk), Len(list) >= 1, Ordered(list),
         NEW a \in UsedBlocks(list)
  PROVE  a.ptr # NextStart(list)
<1>1. PICK j \in 2..Len(list) :
        list[j].used /\ a = [ptr |-> list[j].start, size |-> list[j].size]
  BY DEF UsedBlocks
<1>2. Len(list) \in Nat
  BY LenProperties
<1>3. list[j].start <= End(list[Len(list)])
  <2>1. /\ list[j].start \in Nat /\ End(list[j]) >= list[j].start
        /\ End(list[j]) \in Nat
    <3>1. /\ list[j].start \in Nat /\ list[j].size \in Nat
          /\ End(list[j]) = list[j].start + list[j].size
      BY ChunkFields
    <3> QED
      BY <3>1
  <2>2. /\ list[Len(list)].start \in Nat /\ list[Len(list)].size \in Nat
        /\ End(list[Len(list)]) = list[Len(list)].start + list[Len(list)].size
    BY <1>2, ChunkFields
  <2>3. j # Len(list) => End(list[j]) + Header <= list[Len(list)].start
    BY <1>2 DEF Ordered
  <2> QED
    BY <2>1, <2>2, <2>3, HeaderAssumption
<1>4. list[j].start \in Nat /\ End(list[Len(list)]) \in Nat
  BY <1>2, ChunkFields
<1> QED
  BY <1>1, <1>3, <1>4, HeaderAssumption DEF NextStart
=============================================================================
