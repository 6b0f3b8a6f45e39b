# A verification project for SO-REALTIME

SO-REALTIME is a small 64-bit teaching kernel (C and assembly under `Kernel/`),
started by the Pure64 loader, with one user program, a shell (`Userland/`), and a
tool that packs both into an image (`Toolchain/`). This directory holds TLA+
models of the parts of it that keep state, the TLC configurations that check them
on small instances, and proofs for TLAPS.

## The system's parts

| Part | Source | State | Operations | What must hold |
|---|---|---|---|---|
| Kernel heap | `Kernel/system/MemoryManagement/kmem.c` | list of chunks written in the memory it describes | `init_kheap`, `kmalloc`, `kcalloc`, `kfree` | blocks held are disjoint, a free takes back its own block, free neighbours are merged, nothing lies past the heap |
| Process heap | `.../pmem.c`, wrappers in `memlib.c` | one such list per process | `pinit_heap`, `pmalloc`, `pcalloc`, `pfree` | the same, and no process reaches another's memory |
| Buddy allocator | `.../buddy.c`, `get_memblock`, `free_memblock`, `paged_size` in `memlib.c` | binary tree of nodes, each in the kernel heap | `buddy_init`, `buddy_alloc`, `buddy_free`, `buddy_size`, `buddy_kill` | blocks are disjoint, large enough and in the pool; free buddies merge; a request fails only if nothing fits |
| Shared memory | `Kernel/system/sharedMemory/shared.c` | table of named regions with a counter | `shmget`, `shmat`, `shmdetach` | attached memory is allocated; the counter counts |
| Keyboard | `Kernel/drivers/keyboard.c`, `read_stdin` in `syscalls.c` | ring of 64 characters, shift and caps | `keyboard_handler` (IRQ 1), `get_key` | keys are delivered once and in order |
| Timer | `Kernel/system/timer.c` | ticks, tasks | `timer_handler` (IRQ 0), `add_task`, `remove_task`, `wait` | each task runs at its period; `wait` ends, and not too early |
| System calls | `Kernel/system/syscalls.c` | table of handlers, video flag, break | `syscall_dispatcher`, `sys_*` | every number reaches its handler |
| Interrupts | `Kernel/system/interrupts.c`, `interrupts.asm` | IDT, the interrupt flag | gates, `irqDispatcher` | handlers do not nest |
| Console | `Kernel/drivers/video.c` | text screen, cursor | `putchar`, `delete`, `scroll`, `clear_*`, `puts_at` | the cursor stays on the screen, nothing stands behind it; the first line is the status line |
| Clock | `Kernel/system/rtc.c` | CMOS registers | `time`, `date`, `set_time`, `set_date` | what is read or written is right but for a carry of the chip meanwhile |
| Video mode | `Kernel/system/video/bga.c` | linear frame buffer | `BgaSetVideoMode`, `BgaDrawPixel` | pixels stay inside |
| Shell | `Userland/CodeModule/shell/` | line buffer, user name | read a line, dispatch a command | the line run is the line shown; the right command gets the right words |
| User library | `Userland/CodeModule/lib/` | none | `printf`, `scanf`, `fgets`, strings | conversions undo each other |
| Module loader, packer | `Kernel/moduleLoader.c`, `Toolchain/ModulePacker/main.c` | image layout | `buildImage`, `loadModules`, `clearBSS` | loading undoes packing, although .bss is cleared over the image |
| Scheduler | `Kernel/system/scheduling/scheduling.c` | process list | none that is compiled | not part of the build (see below) |
| Boot loader | `Bootloader/` | | | vendored (Pure64, BMFS) |

How they interact. All kernel code runs with interrupts masked (the gates of the
IDT clear IF, for system calls and for IRQs alike) except in two places: `read_stdin`
and `wait` enable them to let the keyboard and the timer in. So the concurrency
of this kernel is one thread of calls, and interrupts at the points inside those
two loops. `buddy.c` and `shared.c` take their nodes from the kernel heap;
`memlib.c` turns buddy indices into addresses; process heaps lie in blocks that
`get_memblock` returned; `sys_time` puts `show_time` on the timer; the shell reaches
everything through the numbered system calls. A program writes one character by one
system call, with interrupts on between two of them, so the clock's drawing may come after any
character. The clock chip counts whatever the processor masks. Programs read the data
module through `read_stddata`, which keeps one position for all of them.

### What is hard in it

- *Interleaving.* The keyboard's interrupt may come between any two instructions of
  `read_stdin`'s loop, and the timer's between any two of `wait`'s.
- *Ordering.* `timer_handler` removes tasks from the table it walks; `get_key` walks
  round its ring whether or not something lies there.
- *Long sequences of calls.* Both heaps, the buddy tree and the table of shared regions
  keep lists and trees that every call reshapes; each search in them (by distance, by
  index, by name) is right only because of what all earlier calls left behind.
- *Two views of one thing.* The line on the screen and the line in the shell's buffer are
  erased by different rules; the registers of the clock are one moment read at several;
  the image is loaded from memory that the kernel takes for its own.
- *Conversions.* Words, numbers, formats and escapes are taken apart in place, character by
  character, in 32-bit ints.
- *Limits.* The ends of the heaps, the full table of tasks or regions, the ring that
  overflows.

There is no persistence, no message passing and one processor, so crashes, lost
messages and the like do not occur.

## Modules

Written in this order; each one `EXTENDS` or instantiates only those above it.

| Module | Models | State | Actions |
|---|---|---|---|
| `Chunks` | `chunk.h` and the list operations that `kmem.c` and `pmem.c` share, line for line | none (operators on sequences of chunks) | `Reuse`, `Extend`, `Release` are the bodies of malloc and free |
| `HeapSpec` | what an allocator promises: disjoint blocks, each taken back by its own free | the blocks held | `Alloc`, `Free` |
| `KernelHeap` | `kmem.c` | `chunks`: the linked list, as a sequence; `live`: history of the blocks handed out | `Kmalloc` (`Reuse`, `Extend`, `Fail`), `Kcalloc`, `Kfree` |
| `ProcessHeap` | `pmem.c`, `memlib.c` 34-50 | the same for each process | `PinitHeap`, `Pmalloc`, `Pcalloc`, `Pfree` |
| `Buddy` | `buddy.c` | none (operators on trees) | `Found`, `Visited` and `AllocNode` are the walk of `_buddy_alloc`, `Allocated` what it leaves, `Freed` is `_buddy_free` |
| `MemBlocks` | `memlib.c` on `Buddy` | `tree`, `live` | `GetMemblock`, `GetMemblockFails`, `FreeMemblock` |
| `SharedMemory` | `shared.c` on the promise of `MemBlocks` | `current`, `mems`; `allocated`, `attached` | `ShmgetNew`, `ShmgetSame`, `Shmat`, `ShmatFails`, `Shmdetach` |
| `Timer` | `timer.c` | `ticks`, `tasks`, the handler's `i`, where `wait` is | the handler one iteration at a time, `AddTask`, `RemoveTask`, `wait` in its steps |
| `Keyboard` | `keyboard.c`, `read_stdin` | the ring, its two positions, shift and caps, where the reader is | `KeyboardHandler` (one disjunct for each way through `key_pressed`), `ReadBegin`, `GetKeyLoad`, `GetKeyClear` |
| `Console` | `video.c` | none (operators on a screen with a cursor) | `Putchar`, `Deleted`, `Scrolled`, `PutsAt`, `ClearConsole`, `ClearScreen` are the functions of those names |
| `Terminal` | `shell.c`'s reading of names and lines, the system calls it makes, `show_time` from the timer, all on `Console` | the screen, the line buffer, the name, the calls still to make | `Erase`, `TypeName`, `TypeChar`, `NameAgain`, `NameGiven`, `Enter`; `Write`, `Clear`, `Time`, `Exit`; `Tick` |
| `Clock` | `rtc.c` with the checks of the commands and system calls in front of it | the chip's registers, the port accesses still to make | `GetTime`, `GetDate`, `SetTime`, `SetDate` begin a call, `Access` makes its next access, the two `Tick...` are the chip's |
| `Text` | `stdio.c`, `string.c`, `ctype.c`: `printf` and `scanf` with what they call | none (functions on strings; a loop is a recursive function of its turns) | |
| `Words` | `execute_command` and `parse_args` of `shell.c`, the printf command | the line typed | `Type`, `Run` |
| `Commands` | the other commands of `commands.c`: which words they accept, which system calls they make | the same | the same |
| `Loader` | `buildImage` of the packer, `loadModules` and `clearBSS`, the code module's `_start`; `read_stddata` and `fgets` on what was loaded | the image, the memory, the steps of the start still to take, the position in the data | `ReadCount`, `LoadModule`, `AllLoaded`, `ClearBSS`, `Run`; `FgetsBegin`, `FgetsChar`, `FgetsEnd` |
| `ChunksProofs`, `KernelMemoryProofs` (of `KernelHeap` and `SharedMemory`), `ProcessHeapProofs`, `MemBlocksProofs`, `TimeProofs` (of `Timer` and `Clock`), `InputProofs` (of `Keyboard` and `Loader`), `TerminalProofs`, `WordsProofs` (of `Text`, `Words` and `Commands`) | | | theorems |
| `MC...` | | | the constants of the runs |

Each definition that follows the code is listed with its lines in `PROJECT.json`.
Operators under the comment *Slip:* are not part of the specifications: each is one
definition changed the way a plausible mistake would change it, and the property
named for it in `PROJECT.json` must then fail.

Choices that are common to the modules:

- A linked list of chunks is a sequence of records, a tree of nodes a function on
  heap numbers (1 the head, 2n and 2n+1 the halves of n). Pointers to neighbours are
  then the neighbours, and nothing else of the code depends on them. `idx` and `size`
  of a node follow from its number.
- Kernel code is atomic where it runs masked. `read_stdin` and `wait` are split at every
  point where an interrupt makes a difference; the handlers run masked, and
  `timer_handler` is split into iterations only to show the table while it is walked.
  `Clock` splits calls although they are masked, because the chip is not. User programs are
  interrupted anywhere, which matters between their system calls: `todo` in `Terminal`.
- A free names a block that the caller holds; a detach names one it has attached. The
  variables `live` and `attached` are histories that say which.
- Requests for 0 bytes reach `kmalloc` in the model (`Sizes` contains 0) but not the
  buddy allocator, whose recursion would not end.
- A screen's attributes are left out and its locations counted in cells. What a command
  prints is a sequence of characters and calls in `Terminal`; which words run which command is the
  subject of `Words` and `Commands`. A number is an int up to `INT_MAX`, with the
  wrap-around of the code's ints. Where a loop keeps several variables its function gives a record of them, and
  one turn is an operator (`NextArg`, `PrintedNext`, `Scanned`).

## Runs

| Run | Instance | Shows |
|---|---|---|
| `KernelHeap` | 14 units of heap, headers of 2, requests of 0 to 6 | `LiveAreUsed`, `NoFreeNeighbours`, `OverrunIsBounded`, and `HeapPromise`: the list implements `HeapSpec` |
| `ProcessHeap` | two processes with 11 units each | `LiveAreUsed` for both, `HeapPromises`: to its process each heap is `HeapSpec` between two calls of `pinit_heap`, `Isolated`: a block does not reach into the other process's memory if the two lie a header apart (that of adjacent heaps does, see below); amounts are counted modulo 4 where `pcalloc` has 32 bits |
| `MemBlocks` | a pool of 40 units, pages of 4, in the kernel's proportion (160 KiB and 4 KiB) less two halvings | `LiveAreAllocated`, `RefusedOnlyIfFull`, `BlockPromise`: the tree implements `HeapSpec` with headers of size 0 |
| `MemBlocksPool` | the same | counterexample: blocks are counted from `MEM_START` instead of the pool |
| `SharedMemory` | three names, four blocks, four slots, two attachments of a block | `OneRegionEach`, `AttachedIsAllocated`, `CountsItsMemory`, `RoomBelowCurrent` |
| `Timer` | two ticks a second, three handlers, room for two tasks, periods of 1 and 2 s, waits of half a second, of one, of one and three quarters and of two, a second having 4 milliseconds | `TableSound`, `EachDueOnce`, `Periodic`, `WaitNotEarly`, `WaitEnds` |
| `Keyboard` | three cells, four characters, both shift keys and caps lock, reads of two | `DeliveredOnce`, `Delivery`, `ShiftNotStuck` |
| `KeyboardLost` | three cells, four characters | counterexample: a character stored between `get_key`'s two steps is wiped out |
| `Terminal` | a screen of 4 rows of 3, a buffer of 3, names of 1, commands that print, clear, toggle the clock and exit | `NothingAhead`, `LineShown`: the line in the buffer is the one on the screen, `StatusKept`: console and clock keep apart |
| `Clock` | minutes of 11 seconds, two or three of every other unit, one tick of the chip in any place of a call | `NeverBehind`: `time` and `date` do not show a moment before the call, `TimeNeverSetBack`: `set_time` loses nothing to a carry |
| `Words` | every line of up to five of nine characters, ints of six bits, two commands, at most one word taken | `LineIsUnderstood`, `ScanfReadsPrintf`, `PrintfLikeLibrary`, `CallsAsAsked`, each against a definition that does not follow the code |
| `Loader` | a kernel of two cells, two codes and data of up to two lines, .bss over the payload, reads of 2 and 3 | `LoadedAsPacked`, `LinesArePacked`, `EndIsReached` |

The runs of `ProcessHeap`, `Timer`, `Words` and `Loader` leave out a type invariant (that of the first two is proved); each other passing run checks its module's `TypeOK` (`ClockTypeOK`, `ShmTypeOK`).

Why the bounds are enough. The heaps' lists have room for at least four chunks past the first,
so a chunk has neighbours on both sides in every combination of free and used, and
shrunk and merged ones among them; `OverrunIsBounded` needs only a request that fits
to the byte. In the pool of 40 halving goes three levels down, so there are nodes that share
an index with three ancestors, and the sizes round to one, two, three and nine pages,
the last only to be had from the whole pool. Three regions can exist at a time in four slots,
which makes `current` reach its limit, slots free in the middle and a fourth block left to overwrite with. Two tasks
with periods of one and two seconds can be due at once and apart, and three handlers
compete for two places. A wait may be of whole seconds or not, of less than one or more, and two of different milliseconds wait the same. In a ring of three, four characters wrap and overwrite.
On a screen of four rows of three the prompt and a full line take more than one row, the second line
scrolls, a tab takes more than a row, and a buffer of three wraps. A register of the clock must reach ten for BCD
to differ from binary; two or three of each other unit carry through to the year and round the century.
Five characters hold a name, a space and a word, a second word beyond `MAX_ARGS`, two options of a format, an
escape between them, and numbers past the int's end; six bits put that end among three digits. Two lines of data with
reads shorter than, equal to and longer than a line come to each branch of `fgets`.

The bounds that are not the code's are `Limit`, `Pool`, `Last` (sizes of memory, the number of nodes),
`MaxAttached` (attachments of a block), `MaxKeys` (characters typed), `MaxLine` and `Alphabet` (lines of `Words`),
`Arguments` (numbers given to settime and setdate), `Delays` (milliseconds given to wait), `Packed` (modules), and `Cycle`
(when `ticks`, past the longest wait, comes round to a value that every period divides
alike: the code looks at `ticks` only through those remainders and the comparison with a wait).
None of the models cuts a behaviour short in another way, but for the name: `TypeName` stops
at the buffer's end, where the code goes on into what lies behind.

Only `Terminal` is run without the deadlock check: `sys_exit` halts the machine. Each other system can always take another step.

*Fairness.* `Timer` assumes that the timer's interrupt keeps coming and its handler goes on
(`WF_vars(Handler)`), and that `wait` gets on with its few instructions in the 55 ms between
two ticks, however often one interrupts them (`SF_vars(Waiter)`, strong because the handler disables it
again and again). `Keyboard` assumes that the polling loop of `read_stdin` goes on
(`WF_vars(GetKeyLoad \/ GetKeyClear)`); it does not assume that anybody types or reads.
`Loader` assumes that a program that reads goes on reading (`WF_loaderVars(Read)`): the callers of `fgets` and `fscanf`
loop until they find no more. The other specifications are safety only.

## Proofs

`KernelMemoryProofs` proves, for every header size, base, limit and set of request sizes,
each invariant of the run `KernelHeap` and the refinement of `HeapSpec`:

- The inductive invariant `IInv` (theorem `HeapInvariant`) is the conjunction of the types, the
  order of the chunks with a header between them (`Layout`, from `Ordered`), `live = UsedBlocks(chunks)`, no two free
  neighbours, the bound on the last end. None is inductive without the order: `kfree` finds its
  chunk by `|mem - start| <= size`, and only because chunks lie a header apart, each
  past the end of the one before, is the first match the caller's own or one that cannot
  be confused with it.
- `ChunksProofs` has the lemmas: what `Reuse`, `Extend` and `Release` do to the order, to the
  used blocks and to neighbours, for every list. `Release` is the long one: it absorbs
  the next chunk, the chunk before takes in both, and only the freed block leaves the used ones.
- `Refinement` maps `Kmalloc` to `Alloc` or a stutter and `Kfree` to `Free`: disjointness of the new
  block follows from the order.

`ProcessHeapProofs` proves the invariants of the run `ProcessHeap` for any set of processes and any
memories, from the same lemmas. Its `IInv` says of each process that its heap is empty, with nothing
held, or what `KernelHeap`'s invariant says, with the chunks between the start of its memory and a
header past its end. `Isolated` follows from that bound alone; `LiveAreUsed` again needs the order, and with it `ProcessRefinement` shows
that each process's step is one of its `HeapSpec` and nobody else's.

`MemBlocksProofs` proves every property of the run `MemBlocks`, the refinement of `HeapSpec` among them, for any
pool, page, requests and number of nodes.

- The operators of `Buddy` are recursive functions on the nodes, some from a node's parent (`SizeOf`, `IdxOf`, `Visited`), some
  from its halves (`Found`, `Freed`). `FromTheParent` and `FromTheHalves` show once for each kind that there is such a function; after
  that only its equations are used. A fact about all nodes is proved by looking at the least node, or the greatest, that would be an exception.
- The inductive invariant `IInv` (theorem `BlocksInvariant`) is the type of the tree (`WellFormed`: below a split node there are two,
  below any other none), no two free halves side by side (`NoFreeHalves`), one allocated node for each block held (`LiveAreAllocated`), no address
  held twice (`OneBlockPerPlace`) and a page at least in each allocated node (`PagesHeld`).
- A free names its node by an index that up to all its split ancestors and its left descendants share. That it frees the
  caller's node alone is `FreedIsTree` and `IndicesDiffer`: of two nodes the later lies beside the other or below it (`Places`), so two nodes that are
  both allocated share no byte, and as each has a byte, no index.
- `AllocatedIsTree` follows `_buddy_alloc` from the node found down its left halves (`VisitedChain`) to the one it allocates (`AllocNodeIs`).
- `RefusalsAreNeeded` needs `NoFreeHalves`: below every split node something is held (`HeldBelow`), and a place where no node is lies in
  one that is free or allocated (`LeafAbove`); a free one that large `Found` would have found.

`KernelMemoryProofs` also proves every invariant of the run `SharedMemory`, which shares no state with the heap here, for any names, blocks and
slots. They are inductive together and none is by itself: a detach finds the caller's region because a
block belongs to one (`OneRegionEach`), frees it at the right time because the count is that of the
attachments (`CountsItsMemory`), and a new region's count of 0 is right because a block that memlib
gives out is attached by nobody (`AttachedIsAllocated`). `DetachFinds` is the step where they meet; `SlotFound` says
where `shmget` puts a region, and takes the maximum of a set of slots from well-foundedness.

`TimeProofs` proves the invariants of the runs `Timer` and `Clock`, which share no state: every invariant of the run `Timer`, for any handlers, periods, waits, number of
ticks in a second and size of the table. Three strengthenings carry it. `WalkSound`: while the handler walks, the tasks that were due when it began
are those called so far and those due that still lie at or behind `i`, so a removal, which moves
the rest down, neither skips nor repeats one. `WaitSound`: the ticks
counted for a wait are those that came, and it waits for those of its whole seconds; what that is worth in milliseconds (`WaitNotEarly`) is `WholeSeconds`. `AgeSound`:
the ticks since a task's last call are `ticks` modulo its period, whence `Periodic`; it
is kept over a tick and over the wrap at `Cycle` by lemmas on remainders.

Of `Clock` it proves every property, for any lengths of the units. `ClockInv` says what a call has done when some of its accesses are still
in `todo`, the chip having ticked once or not (`ticked`). Reading (`ReadSound`): the registers are those of the start or those of one tick later, and once
a register was read after the tick so are all later ones. Setting (`SetTimeSound`): the hours, once written, are what was asked for or one more
(`HoursPassed`), then the hours and the minutes together are what was asked for or the next hour or the next minute (`MinutesPassed`). Neither property of the finished call
is inductive without what it says of the unfinished one. `AheadByCarry` then turns "one more in some unit" into seconds modulo the day.

`InputProofs` proves every invariant of the runs `Keyboard` and `Loader`, which share no state. Of `Keyboard` for a ring of any size: `OncePlaced` says
that a character typed lies in at most one cell; `OverrunGone` that one that was overwritten is in no cell and not in the reader's hand;
`InHandOnly` that what the reader holds is not delivered and lies, if anywhere, in its own cell. The hand is why the two steps of `get_key` need
an invariant at all: the handler may store into the cell that is about to be cleared, which loses the new character but
never delivers the old one twice.

Of `Loader` for any files and any places that the linker and the kernel give them. `LoadInv` says at each step of the start which modules are in their places and
which still lie in the payload, each behind its size. A copy leaves the other module alone because the whole image ends below the first target, and
clearing .bss, which does destroy the payload, comes after both copies. `ReadInv` says that a reader is in a line that begins behind `q`, the end of a line or the text's beginning
(`ReadFrom(q)`): it holds the characters since `q`, none a newline, and the lines returned are all that end before. That `fgets` drops a
character when its limit is reached does no harm because, if the lines fit, that character is the newline (`EndStep`, last case); that the reader returns
NULL only between lines is where the text's last newline is needed. `LinesOfText` numbers the ends of lines by how many there are up to each, so the lemmas on
them (`LineBetween`, `LineEndIs`) come from cardinalities of finite sets.

`TerminalProofs` proves every property of the run `Terminal`, for a screen of any size, any texts that fit their places and any
commands. In `TypeOK` the cursor is what needs an argument: every `putchar` ends with `Settled`, which scrolls once, and once is enough
because no character takes the cursor further than just past the last row. The type of the name needs
that it is typed without blanks (`NameTyped`), and `NothingAhead` that what scrolls in is blank.
`LineShown` and `StatusKept` rest on two more invariants. `PlainBuffer`: a plain line has only letters, so the
backspace that takes one takes no more. `LineKept` follows a line over the calls that are still to be made: it is on the screen
with the letter that a backspace is about to take, or up to its n-th character with the rest in `todo`, or not at all and
then other calls come first, from below the status line on or after a newline. A scroll would carry the beginning
of a line into the status line if question, name and buffer took the whole screen: `TerminalAssumption`
asks for two rows more, and the code has 25 rows of 80 for 256 characters.

`WordsProofs` proves every property of the run `Words`: for lines, words and formats of any length, ints of any width, any
limits on a command's numbers, and any names of commands of which none begins another. The state is a line, so the invariant is only that a line
is made of the alphabet (`LineTyped`); the argument is on the loops that take it apart.

- A loop is a recursive function of its turns. `Loop` shows once that there is such a function, and each loop gets a lemma that names its
  equations (`ParsedIs`, `ReadDecIs`, `SscanfIs`, `FormattedIs`, `UnescapedIs`, `WalkedIs`); after that only these are used. What holds after every turn is
  shown by the least turn after which it would not (`AllTurns`, `DownTurns`).
- *Words.* After k turns of `parse_args` `argv` holds the first k words of the line and `at` lies between two of them
  (`ParsedWell`, `Between`). A word by its definition is a run of places, the k-th one by how many runs begin up to it, so that one turn
  finds the next word is a fact on cardinalities (`NextRun`). `LinesAreUnderstood` then needs that the first name found is the
  only one the line begins with: no name begins another (`WordsAssumption`, true of the eleven and `printf`).
- *Numbers.* `read_dec` stops where the value so far is outside the ints, tested one digit late. If what a word denotes is an int, no
  value on the way is outside, so it reads to the first character that is no digit (`WordIsNumber`); if the word is no numeral it answers with fewer than all characters, and
  `sscanf` with another count than 1. `AllFit` and `CallsAreAsAsked` go through the commands with it.
- *printf and scanf.* `RestTurns` gives what `printf` writes from each place of the format on. `TurnTaken` is the step: if what is left of `scanf`'s format begins at
  a place p, and of its buffer at what was written from p on, then after a turn both do at a later place, with one argument more if a conversion lay between. It rests on what is read back of one
  conversion (`PieceRead`): a word up to the format's next character, a number up to the first character that is no digit (`NumeralRead`, `DecReadBack`). The least int is printed by a negation that leaves it as it is, and read by two wraps that
  cancel.
- *The printf command* replaces escapes in the rest of its format at every character it prints, but not at a conversion, so at any time what is left of
  its format may have them replaced or not. `Same` pairs the places of the line with those of the line without escapes, `FormatIs` says that
  for the next turn it makes no difference which of both is left, because replacing escapes where none is left changes nothing (`NothingToUnescape`); `CharPrinted` and `WordPrinted` are
  the two kinds of turns.

Assumptions: `HeaderAssumption`, `KernelHeapAssumption`, `ProcessHeapAssumption`,
`BuddyAssumption`, `MemBlocksAssumption`, `SharedMemoryAssumption`, `TimerAssumption`, `ClockAssumption`, `KeyboardAssumption`, `LoaderAssumption`, `ConsoleAssumption`, `TerminalAssumption`, `TextAssumption`, `WordsAssumption` and `CommandsAssumption`, which runs evaluate.
`WordsAssumption` describes the names in `init_commands`, the keys that `update_shell` takes and the words that `parse_args` can give.
`LoaderAssumption` describes the linker's scripts, the kernel's two addresses and the data that the Makefile packs: a text of whole lines (`fractals_parameters` is one) and a 0.
The proofs of `SharedMemory` rest on memlib's promise (a new block is nobody's), which the model builds in and `BlocksRefineHeap` proves of `memlib.c`.

Only model-checked is liveness (`WaitEnds`, `Delivery`, `EndIsReached`), which is out of the prover's reach, and the two counterexamples. Every
other property of the runs is a theorem.

## What the models show of the code

The two counterexamples are `findings` in `PROJECT.json`:

- `memlib.c:23` (`MemBlocksPool`): `get_memblock` counts from `MEM_START`, where the kernel's heap begins, and not from the pool.
- `keyboard.c:77` (`KeyboardLost`): a key stored between `get_key`'s load of a cell and its clearing is lost.

Three more places disagree with a text of the repository; the models contain what the code does there, and the properties say no more than holds:

- `timer.c:89`: `wait` takes whole seconds of its milliseconds. `wait(500)` returns at once and `wait(1500)` after a second,
  where `syscalls.c:254` says "Sleeps for the given milliseconds" and the user's `syscalls.h:89` the same. `WaitNotEarly` says what is left: whole seconds are slept in full,
  and no wait is short by a second or more. The shell's `sleep`, the only caller, gives whole seconds.
- `commands.c:272`: `seconds * 1000` overflows; the negative product makes `wait` very long, where help says "Sleeps for the given seconds."
  `CallsAsAsked` has the seconds whose product is an int.
- `syscalls.c:41`: `SYS_PINITHEAP`, `SYS_MALLOC`, `SYS_CALLOC` and `SYS_FREE` have no handler, and the
  shell's `malloc_test` calls one of them, which the user's `syscalls.h:68` describes. `CallsAsAsked` leaves `tests` out.

Some properties have a premise, and what it leaves out goes wrong in the code; nothing in the repository promises that case, so
no run refutes it: adjacent heaps (`Isolated`), a region without memory (`CountsItsMemory`), lines with blanks (`LineShown`, `StatusKept`),
escapes that are not `\n` or `\t` (`PrintfLikeLibrary`), data with lines longer than a reader's limit (`LinesArePacked`).

Seen on the way, in behaviour that the models contain, or stop short of, but no run asks for:

*Memory*

- `kmem.c:34`: the kernel's heap has the same limit test as `pmem.c`, without the new chunk's header; `OverrunIsBounded`
  proves that it overshoots by at most a header. With two process heaps side by side the
  last block of one would lie on the other's first chunk: `Isolated` holds for heaps a header apart.
- `memlib.c:43`: `calloc` takes an amount of 64 bits and `pcalloc` 32 of it: of a larger one a smaller block is given.
- `kmem.c:28`, `pmem.c:28`: a chunk that is reused is cut to the new size and the rest is
  lost until a merge; a free last chunk is never extended. A process that freed everything
  may get less than it could at first.
- `memlib.c:23` and `kernel.c:98`: 160 KiB halve down to 5 KiB, so a block for one page does
  not begin at a page.
- `sys_sbrk`, `init_kheap` and `memlib.c` all start at the same address, 0x600000.
- `buddy.c:80`: a request for 0 bytes is split without end; `buddy.c:86`: the nodes' own `kmalloc` is not checked, nor is the name's at `shared.c:65`.
- `buddy.c:179`: `rt < 0` on an unsigned `rt` is never true; `buddy_size` misses left halves. It has no caller.
- `shared.c:25`: once `current` is `MAX_SHBLOCKS` every `shmget` fails, for existing names too, although the
  last slot was never used and regions may all have been freed. `RoomBelowCurrent` shows
  that the later test for "no space" never succeeds.
- `shared.c:63`: overwriting a region in use forgets its users and leaks its block: they detach memory that no region has.
- `shared.c:69`: without a block from memlib the region exists all the same; `shmat` counts a process and answers NULL.
- `shared.c:123`: `shmdetach` returns -1 also when it has detached, unless it was the last.

*Interrupts and devices*

- `timer.c:29`: a task's first call comes when the common counter divides, perhaps at the next tick; a period of 0 seconds would divide by zero.
- `timer.c:90`: `wait` sets the common counter back, which puts off every task in the table.
- `keyboard.c:15`: all cells but the first start as 0, not `EMPTY`, so the first reads return NULs.
- `keyboard.c:48`: with both shift keys held, the release of one takes the capitals away from the other; `ShiftNotStuck` is the other half.
- `keyboard.c:77`: the reader's position advances over empty cells too, so after some polls characters may come out of the order in which they were typed.
- `video.c:205`: a backspace at the start of a row takes back all blanks before it, those of the prompt and, on the console's first row, of the title too; hence "without blanks" in `LineShown` and `StatusKept`.
- `rtc.c:21`: a carry between the reads shows a time up to an hour ahead; `set_date` across midnight may leave a date that is behind by the carry.
- `syscalls.c:247`: the system call lets a day or month 0 pass; the shell's command does not.
- `bga.c`: a pixel to the right of the screen is drawn in the next row.

*Shell and library*

- `shell.c:67`: after 256 characters the line buffer starts again from its beginning; Enter then runs the last characters, with what is left of the first behind them.
- `shell.c:92`: a name's characters are not counted against the buffer while they are typed; a name of 20 puts its 0 behind `username`.
- `commands.c:368`: the printf command replaces escapes again in what it has replaced already (`\\n` becomes a newline), drops the letter of an unknown one, and at a final backslash
  goes on past the 0 and moves the words behind into the format (`Unescaped` keeps the backslash alone).
- `stdio.c:198` and `402`: `read_dec` takes `-` alone as 0, and numbers past an int wrap unseen although the comment promises a test (4294967297 reads as 1).
- `stdio.c`: `%b` of a number with 20 or more binary digits overruns the buffer of 20; `vsscanf` may step past the string's 0.
- `stdio.c:219`: `fgets` takes a character more than it stores, and puts the 0 one past a buffer of `n`.
- `syscalls.c:150`: only data that end with a newline let a reader meet the end: `EndIsReached` holds of the packed file because the packed file does.
- `string.c`: `strstr` misses a match that begins inside a failed one; `strncpy` copies one character more than asked for.

## Not modelled

- *Buddy on the heap:* the nodes' own `kmalloc` and `kfree` (at most 63 nodes in 3 MiB), and `buddy_kill` and `buddy_print`, which have no caller.
- That the blocks of `memlib.c` lie on top of the kernel heap's chunks (`MemBlocksPool`), so
  that a process may overwrite the list: each model takes its own structure as undisturbed.
- The rest of the library (`string.c`, `stdlib.c`): pure functions, each with the result its tests look at.
  `putnumber` and `putnumber_at` of the console: no caller.
- The IDT, the saving of registers, the PIC: the models take from them that handlers do not nest.
- Video mode and the fractals: device registers, and arithmetic on reals.
- `sys_sbrk`: no caller. `naiveConsole.c` prints progress before the console is there.
- The scheduler: not compiled by the Makefile, and it lacks definitions it uses.
- The reads of `tests` and `fractal` in `Commands`, and of `tests` in `Terminal`: its `scanf` and `fgets` echo keys, backspaces among them, while it runs.
  They take back only what was typed since (`stdio.c:221`), and the screen is cleared before the next prompt.
- The product in `pcalloc` and `kcalloc` past 64 bits: the sizes of the models stay below.
- The boot loader and BMFS: vendored.

## Plan

What would come next, in order of use:

1. *Buddy on KernelHeap:* the nodes as blocks of the kernel heap, allocated and freed with the tree;
   each node is a used chunk, none leaks, and the bound on their number.
2. *Words on the terminal:* the line that `Terminal` hands to the shell as the line of `Words`, with what its command prints as the calls that follow.

## How to run

    tlc -config KernelHeap.cfg MCKernelHeap     (likewise the others, see PROJECT.json)
    tlapm ChunksProofs.tla                      (likewise the other ...Proofs)
