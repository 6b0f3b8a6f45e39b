------------------------------ MODULE Keyboard ------------------------------
(***************************************************************************)
(* keyboard.c and read_stdin of syscalls.c: the keyboard interrupt writes a *)
(* ring of characters, and get_key, polled by read_stdin with interrupts    *)
(* on, takes them out.  No position is kept of how much is unread: an empty *)
(* cell holds EMPTY, and the reader goes round and round.                   *)
(*                                                                          *)
(* get_key is two steps, the load of the cell and the store of EMPTY into   *)
(* it: an interrupt may come between them.  The handler looks at the cell   *)
(* alone, so when read_pos advances makes no difference.  The handler is    *)
(* one step, since it runs masked.                                          *)
(*                                                                          *)
(* A cell holds the number of the character it stores, the n-th ever        *)
(* stored; typed[n] says which character that is.                           *)
(***************************************************************************)
EXTENDS Integers, Sequences

CONSTANTS BufferSize,   \* BUFFER_SIZE, 64
          Letters,      \* key codes of isalpha, which CAPS_LOCK is for
          Others,       \* other key codes with a character
          Dead,         \* key codes whose entry in keyboard_map is 0
          CapsKeys,     \* CAPS_LOCK
          Shifts,       \* the shift keys
          Lengths,      \* lengths that read_stdin is called with
          MaxKeys       \* bound: characters stored in a behaviour

ASSUME KeyboardAssumption ==
  /\ BufferSize \in Nat \ {0}
  /\ Lengths \subseteq Nat
  /\ MaxKeys \in Nat

EMPTY == -1
NUL == 0    \* the cells that the initializer { EMPTY } leaves at zero

Cells == 0..(BufferSize - 1)

VARIABLES kb_buffer, write_pos, read_pos, shift_on, caps_lock_on,
          pc,         \* the reader: idle, at get_key's load, or at its store
          key,        \* get_key's local, between the two
          want, got,  \* read_stdin's len and i
          typed,      \* history: the characters stored, in order
          delivered,  \* history: what read_stdin put into the caller's buffer
          overrun,    \* history: characters overwritten before they were read
          held        \* history: the shift keys that are down

reader == <<read_pos, pc, key, want, got, delivered>>
vars == <<kb_buffer, write_pos, read_pos, shift_on, caps_lock_on, pc, key,
          want, got, typed, delivered, overrun, held>>

Delivered == {delivered[j] : j \in 1..Len(delivered)}

\* Slip: the position does not wrap.
FollowingOpen(pos) == pos + 1

Following(pos) == IF pos + 1 = BufferSize THEN 0 ELSE pos + 1

Init ==
  /\ kb_buffer = [c \in Cells |-> IF c = 0 THEN EMPTY ELSE NUL]
  /\ write_pos = 0 /\ read_pos = 0
  /\ shift_on = FALSE /\ caps_lock_on = FALSE
  /\ pc = "idle" /\ key = EMPTY /\ want = 0 /\ got = 0
  /\ typed = <<>> /\ delivered = <<>> /\ overrun = {} /\ held = {}

-----------------------------------------------------------------------------
(* keyboard_handler and key_pressed, one disjunct for each way through.    *)

CapsLock(code) ==
  /\ code \in CapsKeys
  /\ caps_lock_on' = ~caps_lock_on
  /\ UNCHANGED <<kb_buffer, write_pos, shift_on, reader, typed, overrun, held>>

ShiftPressed(side) ==
  /\ side \notin held
  /\ shift_on' = TRUE
  /\ held' = held \cup {side}
  /\ UNCHANGED <<kb_buffer, write_pos, caps_lock_on, reader, typed, overrun>>

\* Slip: the release of a shift key that caps lock has overtaken is ignored.
ShiftReleasedCaps(side) ==
  /\ side \in held
  /\ shift_on' = (shift_on /\ caps_lock_on)
  /\ held' = held \ {side}
  /\ UNCHANGED <<kb_buffer, write_pos, caps_lock_on, reader, typed, overrun>>

\* Either release switches shift off, also when the other key is still down.
ShiftReleased(side) ==
  /\ side \in held
  /\ shift_on' = FALSE
  /\ held' = held \ {side}
  /\ UNCHANGED <<kb_buffer, write_pos, caps_lock_on, reader, typed, overrun>>

\* The row of keyboard_map.
Shift(code) == (code \in Letters /\ caps_lock_on) # shift_on

\* The reader has loaded the cell at pos and not yet cleared it.
InHand(pos) == pc = "clear" /\ read_pos = pos

\* No test whether the cell is free.
Store(code) ==
  /\ Len(typed) < MaxKeys
  /\ typed' = Append(typed, [code |-> code, shift |-> Shift(code)])
  /\ kb_buffer' = [kb_buffer EXCEPT ![write_pos] = Len(typed')]
  /\ write_pos' = Following(write_pos)
  /\ overrun' = IF kb_buffer[write_pos] \in {EMPTY, NUL} \/ InHand(write_pos)
                THEN overrun
                ELSE overrun \cup {kb_buffer[write_pos]}
  /\ UNCHANGED <<shift_on, caps_lock_on, reader, held>>

\* Releases of other keys, keys without a character, and interrupts without
\* data change nothing.
Ignored(code) == code \in Dead /\ UNCHANGED vars

KeyboardHandler ==
  \/ \E code \in CapsKeys : CapsLock(code)
  \/ \E side \in Shifts : ShiftPressed(side)
  \/ \E side \in Shifts : ShiftReleased(side)
  \/ \E code \in Letters \cup Others : Store(code)
  \/ \E code \in Dead : Ignored(code)

-----------------------------------------------------------------------------
(* read_stdin and get_key.                                                 *)

ReadBegin(len) ==
  /\ pc = "idle"
  /\ want' = len
  /\ got' = 0
  /\ pc' = IF len > 0 THEN "load" ELSE "idle"
  /\ UNCHANGED <<kb_buffer, write_pos, read_pos, shift_on, caps_lock_on, key,
                 typed, delivered, overrun, held>>

GetKeyLoad ==
  /\ pc = "load"
  /\ key' = kb_buffer[read_pos]
  /\ pc' = "clear"
  /\ UNCHANGED <<kb_buffer, write_pos, read_pos, shift_on, caps_lock_on, want,
                 got, typed, delivered, overrun, held>>

\* How much of the read is done, with the character in hand.
Taken == IF key # EMPTY THEN got + 1 ELSE got

\* Slip: the cell keeps its character.
GetKeyKeep ==
  /\ pc = "clear"
  /\ read_pos' = Following(read_pos)
  /\ delivered' = IF key # EMPTY THEN Append(delivered, key) ELSE delivered
  /\ got' = IF Taken < want THEN Taken ELSE 0
  /\ want' = IF Taken < want THEN want ELSE 0
  /\ pc' = IF Taken < want THEN "load" ELSE "idle"
  /\ key' = EMPTY
  /\ UNCHANGED <<kb_buffer, write_pos, shift_on, caps_lock_on, typed,
                 overrun, held>>

\* Slip: the reader stays where it is until something comes.
GetKeyStay ==
  /\ pc = "clear"
  /\ kb_buffer' = [kb_buffer EXCEPT ![read_pos] = EMPTY]
  /\ read_pos' = IF key # EMPTY THEN Following(read_pos) ELSE read_pos
  /\ delivered' = IF key # EMPTY THEN Append(delivered, key) ELSE delivered
  /\ got' = IF Taken < want THEN Taken ELSE 0
  /\ want' = IF Taken < want THEN want ELSE 0
  /\ pc' = IF Taken < want THEN "load" ELSE "idle"
  /\ key' = EMPTY
  /\ UNCHANGED <<write_pos, shift_on, caps_lock_on, typed, overrun, held>>

\* The rest of get_key and of read_stdin's iteration.  want and got are locals:
\* they are zero when no read is under way.
GetKeyClear ==
  /\ pc = "clear"
  /\ kb_buffer' = [kb_buffer EXCEPT ![read_pos] = EMPTY]
  /\ read_pos' = Following(read_pos)
  /\ delivered' = IF key # EMPTY THEN Append(delivered, key) ELSE delivered
  /\ got' = IF Taken < want THEN Taken ELSE 0
  /\ want' = IF Taken < want THEN want ELSE 0
  /\ pc' = IF Taken < want THEN "load" ELSE "idle"
  /\ key' = EMPTY
  /\ UNCHANGED <<write_pos, shift_on, caps_lock_on, typed, overrun, held>>

Next ==
  \/ KeyboardHandler
  \/ \E len \in Lengths : ReadBegin(len)
  \/ GetKeyLoad
  \/ GetKeyClear

\* The polling loop of read_stdin goes on; nobody has to press a key or to read.
Spec == Init /\ [][Next]_vars /\ WF_vars(GetKeyLoad \/ GetKeyClear)

-----------------------------------------------------------------------------
(* Properties.                                                             *)

Numbers == 1..Len(typed)

TypeOK ==
  /\ kb_buffer \in [Cells -> {EMPTY, NUL} \cup Numbers]
  /\ write_pos \in Cells /\ read_pos \in Cells
  /\ shift_on \in BOOLEAN /\ caps_lock_on \in BOOLEAN
  /\ pc \in {"idle", "load", "clear"}
  /\ key \in {EMPTY, NUL} \cup Numbers
  /\ want \in Nat /\ got \in 0..want
  /\ typed \in Seq([code : Letters \cup Others, shift : BOOLEAN])
  /\ delivered \in Seq({NUL} \cup Numbers)
  /\ overrun \subseteq Numbers
  /\ held \subseteq Shifts

\* A character is delivered once: get_key's clearing of a cell and the handler's
\* writes of it, in any order, never bring back one that was read, and one that
\* was overwritten is gone.
DeliveredOnce ==
  /\ \A j, k \in 1..Len(delivered) :
       delivered[j] = delivered[k] /\ delivered[j] # NUL => j = k
  /\ \A n \in Delivered \ {NUL} :
       n \notin overrun /\ \A c \in Cells : kb_buffer[c] # n

\* Shift is never stuck: with both keys up it is off.
ShiftNotStuck == shift_on => held # {}

\* The reader loses no place: a character that lies in a cell, and not under the
\* reader's clearing hand, is delivered, or overwritten, if the read goes on.
Unread(n) == \E c \in Cells : kb_buffer[c] = n /\ (InHand(c) => key = n)

Delivery ==
  \A n \in 1..MaxKeys :
    pc # "idle" /\ Unread(n) ~> pc = "idle" \/ n \in Delivered \/ n \in overrun

\* keyboard.c:34: key_pressed "Stores the keys pressed in the buffer": one that
\* was stored stays there until it is read or the ring has come round to it.
KeysKept ==
  \A n \in Numbers :
    \/ n \in Delivered
    \/ n \in overrun
    \/ key = n
    \/ \E c \in Cells : kb_buffer[c] = n
=============================================================================
