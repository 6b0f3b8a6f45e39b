------------------------------- MODULE Loader -------------------------------
(***************************************************************************)
(* From the files that the packer joins to the lines that programs read:    *)
(* buildImage of the module packer, loadModules and clearBSS of the kernel's *)
(* start, and then read_stddata with the library's fgets on the data module. *)
(*                                                                          *)
(* A byte is a number; the count of modules and a module's size, of four    *)
(* bytes in the code, take one cell.  The payload begins at                 *)
(* endOfKernelBinary and reaches into the memory of .bss.                   *)
(***************************************************************************)
EXTENDS Integers, SequencesExt

CONSTANTS Kernel,                \* the kernel's binary, a sequence of bytes
          Packed,                \* what may be packed: the sequences of modules
          Junk,                  \* what lies in memory that nothing was loaded into
          MemorySize,
          bss, endOfKernel,      \* kernel.ld
          codeModuleAddress, dataModuleAddress,
          CodeBss,               \* the memory that the code module's _start clears
          Sizes                  \* the n of the calls of fgets

Newline == 10
Backspace == 8
EOF == -1

targets == <<codeModuleAddress, dataModuleAddress>>
endOfKernelBinary == Len(Kernel)
Memory == 0..(MemorySize - 1)

\* The packer's output: how many modules, and each with its size before it.
Image(modules) ==
  LET image[j \in 0..Len(modules)] ==
        IF j = 0 THEN Kernel \o <<Len(modules)>>
        ELSE image[j - 1] \o <<Len(modules[j])>> \o modules[j]
  IN  image[Len(modules)]

\* The data module is a text of whole lines, and the Makefile adds a 0.
TextFile(data) ==
  /\ data # <<>> /\ Last(data) = 0
  /\ \A k \in 1..(Len(data) - 1) : data[k] \in 1..127 \ {Backspace}
  /\ Len(data) > 1 => data[Len(data) - 1] = Newline

ASSUME LoaderAssumption ==
  /\ Kernel \in Seq(Nat) /\ Junk \in Nat
  /\ {MemorySize, bss, endOfKernel, codeModuleAddress, dataModuleAddress} \subseteq Nat
  /\ Sizes \subseteq Nat \ {0}
  /\ bss >= endOfKernelBinary /\ endOfKernel <= codeModuleAddress
  /\ \A modules \in Packed :
       /\ modules \in Seq(Seq(Nat)) /\ Len(modules) = 2
       /\ Len(Image(modules)) <= codeModuleAddress
       /\ codeModuleAddress + Len(modules[1]) <= dataModuleAddress
       /\ dataModuleAddress + Len(modules[2]) <= MemorySize
       /\ TextFile(modules[2])
       /\ CodeBss \subseteq (codeModuleAddress + Len(modules[1]))..(dataModuleAddress - 1)

VARIABLES modules,        \* what was packed
          mem,
          steps,          \* what the start still calls
          currentModule, moduleCount, loaded,
          read_index,     \* read_stddata's static
          str, n,         \* the call of fgets that is under way; n = 0 if none is
          lines           \* history: the lines returned since the last NULL

loaderVars == <<modules, mem, steps, currentModule, moduleCount, loaded,
                read_index, str, n, lines>>
start == <<steps, currentModule, moduleCount, loaded>>
reading == <<read_index, str, n, lines>>

memcpy(m, dst, src, length) ==
  [a \in Memory |-> IF a - dst \in 0..(length - 1) THEN m[src + a - dst] ELSE m[a]]

memset(m, where, c) == [a \in Memory |-> IF a \in where THEN c ELSE m[a]]

\* Slip: .bss is cleared first.
StartupCleared == <<"clear", "count", "load", "run">>

\* initializeKernelBinary, then main, which starts the code module.
Startup == <<"count", "load", "clear", "run">>

\* Pure64 puts the image where the kernel is linked to.
LoaderInit ==
  /\ modules \in Packed
  /\ mem = [a \in Memory |-> IF a < Len(Image(modules)) THEN Image(modules)[a + 1] ELSE Junk]
  /\ steps = Startup
  /\ currentModule = endOfKernelBinary
  /\ moduleCount = 0 /\ loaded = 0
  /\ read_index = 0 /\ str = <<>> /\ n = 0 /\ lines = <<>>

-----------------------------------------------------------------------------
(* The kernel's start.                                                     *)

AtStep(s) == steps # <<>> /\ Head(steps) = s

ReadCount ==
  /\ AtStep("count")
  /\ moduleCount' = mem[currentModule]
  /\ currentModule' = currentModule + 1
  /\ steps' = Tail(steps)
  /\ UNCHANGED <<modules, mem, loaded, reading>>

LoadModule ==
  /\ AtStep("load")
  /\ loaded < moduleCount
  /\ LET size == mem[currentModule]
     IN  /\ mem' = memcpy(mem, targets[loaded + 1], currentModule + 1, size)
         /\ currentModule' = currentModule + 1 + size
  /\ loaded' = loaded + 1
  /\ UNCHANGED <<modules, steps, moduleCount, reading>>

AllLoaded ==
  /\ AtStep("load")
  /\ loaded = moduleCount
  /\ steps' = Tail(steps)
  /\ UNCHANGED <<modules, mem, currentModule, moduleCount, loaded, reading>>

ClearBSS ==
  /\ AtStep("clear")
  /\ mem' = memset(mem, bss..(endOfKernel - 1), 0)
  /\ steps' = Tail(steps)
  /\ UNCHANGED <<modules, currentModule, moduleCount, loaded, reading>>

\* The code module's _start.
Run ==
  /\ AtStep("run")
  /\ mem' = memset(mem, CodeBss, 0)
  /\ steps' = Tail(steps)
  /\ UNCHANGED <<modules, currentModule, moduleCount, loaded, reading>>

-----------------------------------------------------------------------------
(* Reading the data module.                                                *)

\* read_stddata with a length of 1, as fgetc calls it: the character, or EOF at the 0
\* behind the data, and then the next read is from the beginning.  (A char is never
\* equal to the kernel's EOF, 0xFF, so the test for it does nothing.)
Stddata == mem[dataModuleAddress + read_index]
Char == IF Stddata # 0 THEN Stddata ELSE EOF

\* Slip: the index stays at the end.
NextIndexStay == IF Stddata # 0 THEN read_index + 1 ELSE read_index

NextIndex == IF Stddata # 0 THEN read_index + 1 ELSE 0

FgetsBegin(size) ==
  /\ steps = <<>> /\ n = 0
  /\ n' = size
  /\ str' = <<>>
  /\ UNCHANGED <<modules, mem, start, read_index, lines>>

\* Slip: the limit is tested before the character is looked at.
EndsEarly == Char \in {EOF, Newline} \/ Len(str) + 1 = n

\* Whether this character ends the call: it is taken in any case.
Ends == Char \in {EOF, Newline} \/ Len(str) = n

FgetsChar ==
  /\ n > 0 /\ ~Ends
  /\ str' = Append(str, Char)
  /\ read_index' = NextIndex
  /\ UNCHANGED <<modules, mem, start, n, lines>>

FgetsEnd ==
  /\ n > 0 /\ Ends
  /\ read_index' = NextIndex
  /\ lines' = IF Char = EOF /\ str = <<>> THEN <<>> ELSE Append(lines, str)
  /\ n' = 0
  /\ str' = <<>>
  /\ UNCHANGED <<modules, mem, start>>

Read == (\E size \in Sizes : FgetsBegin(size)) \/ FgetsChar \/ FgetsEnd

LoaderNext ==
  \/ ReadCount
  \/ LoadModule
  \/ AllLoaded
  \/ ClearBSS
  \/ Run
  \/ Read

\* Programs read lines in loops that go on until fgets returns NULL.
LoaderSpec == LoaderInit /\ [][LoaderNext]_loaderVars /\ WF_loaderVars(Read)

-----------------------------------------------------------------------------
(* Properties.                                                             *)

\* When the shell runs the modules are in their places as they were packed, although
\* they were loaded from memory that the kernel's start and the shell's clear.
LoadedAsPacked ==
  steps = <<>> =>
    \A i \in 1..2 : \A k \in 1..Len(modules[i]) : mem[targets[i] + k - 1] = modules[i][k]

\* The lines of the data up to its last newline.
Text == SubSeq(modules[2], 1, Len(modules[2]) - 1)
Ended == {k \in 1..Len(Text) : Text[k] = Newline}
EndedBy(p) == Cardinality({k \in Ended : k <= p})
LineEnd(j) == IF j = 0 THEN 0 ELSE CHOOSE k \in Ended : EndedBy(k) = j
LinesOfText ==
  [j \in 1..Cardinality(Ended) |-> SubSeq(Text, LineEnd(j - 1) + 1, LineEnd(j) - 1)]

\* Programs that read after one another, with whatever lengths, get the lines that were
\* packed, each once and in order, as long as none is longer than the length asked for.
LinesArePacked ==
  (\A j \in 1..Len(LinesOfText), size \in Sizes : Len(LinesOfText[j]) <= size) =>
    IsPrefix(lines, LinesOfText)

\* A program that reads on comes to the end: fgets returns NULL, and the next reader
\* starts at the beginning.  (This is so because the data ends with a newline.)
EndIsReached == (read_index > 0) ~> (read_index = 0 /\ lines = <<>>)
=============================================================================
