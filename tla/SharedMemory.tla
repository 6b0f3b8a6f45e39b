---------------------------- MODULE SharedMemory ----------------------------
(***************************************************************************)
(* shared.c: named regions of memory that processes attach and detach.      *)
(* The table of regions is the code's; the blocks come from memlib.c, of    *)
(* which only MemBlocks' promise is used: get_memblock answers with a block *)
(* that nobody holds or with NULL, free_memblock takes back the block it is *)
(* given.  Kernel code calls these functions with interrupts masked, so     *)
(* each is one step.                                                        *)
(***************************************************************************)
EXTENDS Integers, FiniteSetsExt

CONSTANTS Names,         \* names of regions
          Blocks,        \* blocks of memory that memlib can give out
          NULL,          \* no region, or no block
          MAX_SHBLOCKS,
          MaxAttached    \* bound: attachments of a block at a time

Region == [name : Names, start : Blocks \cup {NULL}, sim_access : Nat]

ASSUME SharedMemoryAssumption ==
  /\ NULL \notin Blocks /\ NULL \notin Region
  /\ MAX_SHBLOCKS \in Nat \ {0}
  /\ MaxAttached \in Nat

Slots == 0..(MAX_SHBLOCKS - 1)

VARIABLES current,     \* slots of mems in use, from the first
          mems,        \* the regions
          allocated,   \* external: the blocks that memlib has given out
          attached     \* history: attachments, by the name and the block

shmVars == <<current, mems, allocated, attached>>

Used == {j \in Slots : mems[j] # NULL}

ShmInit == \* init_shared
  /\ current = 1
  /\ mems = [j \in Slots |-> NULL]
  /\ allocated = {}
  /\ attached = [n \in Names |-> [b \in Blocks |-> 0]]

-----------------------------------------------------------------------------
(* shmget: find the region, or make it.                                    *)

Regions == {j \in 0..(current - 1) : mems[j] # NULL}

Named(name) == {j \in Regions : mems[j].name = name}

\* Slip: the search goes one slot too far.
FreeSlotsBeyond == {j \in 0..current : mems[j] = NULL}

FreeSlots == {j \in 0..(current - 1) : mems[j] = NULL}

\* Slip: the search goes on behind the region of that name.
SlotForLast(name) ==
  IF FreeSlots # {} THEN Max(FreeSlots) ELSE Min(Named(name))

\* pos: the region of that name, or else the last free slot.
SlotFor(name) ==
  IF Named(name) # {} THEN Min(Named(name)) ELSE Max(FreeSlots)

\* Slip: the table is taken to be full only when it has a free slot.
GrownWhenFree(table) ==
  IF \E j \in 0..(current - 1) : table[j] = NULL THEN current + 1 ELSE current

\* The table grows by a slot when its last free one has been taken.
Grown(table) ==
  IF \E j \in 0..(current - 1) : table[j] = NULL THEN current ELSE current + 1

\* A region of that name that was there is forgotten with its block.
ShmgetNew(name, overwrite) ==
  /\ current # MAX_SHBLOCKS
  /\ Named(name) \cup FreeSlots # {}
  /\ overwrite \/ Named(name) = {}
  /\ \E block \in (Blocks \ allocated) \cup {NULL} :
       /\ mems' = [mems EXCEPT ![SlotFor(name)] =
                     [name |-> name, start |-> block, sim_access |-> 0]]
       /\ allocated' = allocated \cup ({block} \ {NULL})
  /\ current' = IF Named(name) = {} THEN Grown(mems') ELSE current
  /\ UNCHANGED attached

\* The id of the region that is there, or -1: nothing changes.
ShmgetSame(name, overwrite) ==
  /\ \/ current = MAX_SHBLOCKS
     \/ Named(name) \cup FreeSlots = {}
     \/ Named(name) # {} /\ ~overwrite
  /\ UNCHANGED shmVars

\* Slip: the process is not counted.
ShmatUncounted(id) ==
  /\ id - 1 \in Regions
  /\ LET region == mems[id - 1]
     IN  /\ \/ region.start = NULL
            \/ attached[region.name][region.start] < MaxAttached
         /\ attached' = IF region.start = NULL THEN attached ELSE
                          [attached EXCEPT ![region.name][region.start] = @ + 1]
         /\ mems' = mems
  /\ UNCHANGED <<current, allocated>>

\* A region without memory is counted as attached too, but NULL is the answer.
Shmat(id) ==
  /\ id - 1 \in Regions
  /\ LET region == mems[id - 1]
     IN  /\ IF region.start = NULL THEN region.sim_access < MaxAttached
            ELSE attached[region.name][region.start] < MaxAttached
         /\ mems' = [mems EXCEPT ![id - 1].sim_access = @ + 1]
         /\ attached' = IF region.start = NULL THEN attached ELSE
                          [attached EXCEPT ![region.name][region.start] = @ + 1]
  /\ UNCHANGED <<current, allocated>>

ShmatFails(id) ==
  /\ id - 1 \notin Regions
  /\ UNCHANGED shmVars

\* Slip: the last but one to go takes the memory away.
LastEarly(region) == region.sim_access <= 2

Last(region) == region.sim_access = 1

Matching(block) == {j \in Regions : mems[j].start = block}

\* The loop goes on through every region of that address until one is given up.
Reached(block) ==
  {j \in Matching(block) : \A k \in Matching(block) : Last(mems[k]) => j <= k}

\* A process detaches a block it has attached.  The memory and the slot are
\* given up with the last; a block whose region was overwritten is not found.
Shmdetach(name, block) ==
  /\ attached[name][block] > 0
  /\ attached' = [attached EXCEPT ![name][block] = @ - 1]
  /\ mems' = [j \in Slots |->
                IF j \notin Reached(block) THEN mems[j]
                ELSE IF Last(mems[j]) THEN NULL
                ELSE [mems[j] EXCEPT !.sim_access = @ - 1]]
  /\ allocated' = IF \E j \in Matching(block) : Last(mems[j])
                  THEN allocated \ {block} ELSE allocated
  /\ UNCHANGED current

ShmNext ==
  \/ \E name \in Names, overwrite \in BOOLEAN :
       ShmgetNew(name, overwrite) \/ ShmgetSame(name, overwrite)
  \/ \E id \in 0..(MAX_SHBLOCKS + 1) : Shmat(id) \/ ShmatFails(id)
  \/ \E name \in Names, block \in Blocks : Shmdetach(name, block)

ShmSpec == ShmInit /\ [][ShmNext]_shmVars

-----------------------------------------------------------------------------
(* Properties.                                                             *)

\* The regions lie in the first current slots.
ShmTypeOK ==
  /\ current \in 1..MAX_SHBLOCKS
  /\ mems \in [Slots -> Region \cup {NULL}]
  /\ \A j \in Slots : j >= current => mems[j] = NULL
  /\ allocated \subseteq Blocks
  /\ attached \in [Names -> [Blocks -> 0..MaxAttached]]

\* A name is the name of one region, and a block the memory of one: shmget's
\* search finds it, and so does shmdetach's, which counts at no other.
OneRegionEach ==
  \A j, k \in Used :
    \/ mems[j].name = mems[k].name
    \/ mems[j].start = mems[k].start /\ mems[j].start # NULL
    => j = k

\* Memory that a process has attached is not given back to memlib, so no other
\* region gets it, whatever was overwritten and detached in between.
AttachedIsAllocated ==
  \A n \in Names, b \in Blocks : attached[n][b] > 0 => b \in allocated

\* A region's count is the number of processes that have its memory attached,
\* and the memory is the region's own.
CountsItsMemory ==
  \A j \in Used : mems[j].start # NULL =>
    /\ mems[j].start \in allocated
    /\ \A n \in Names : attached[n][mems[j].start] =
                          IF n = mems[j].name THEN mems[j].sim_access ELSE 0

\* As long as shmget does not give up at once, it has a slot for a new region:
\* its test for "no space avaible" (shared.c:51) never succeeds.
RoomBelowCurrent == current # MAX_SHBLOCKS => FreeSlots # {}
=============================================================================
