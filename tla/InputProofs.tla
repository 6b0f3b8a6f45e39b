---------------------------- MODULE InputProofs ----------------------------
(***************************************************************************)
(* What programs read, for any constants.  From the keyboard: what was read  *)
(* or overwritten does not come back, and shift is not stuck.  From the      *)
(* data module: the lines that were packed, each once and in order.         *)
(***************************************************************************)
EXTENDS Keyboard, Loader, FiniteSetTheorems, NaturalsInduction, SequenceTheorems, TLAPS

(***************************************************************************)
(* Keyboard: the ring and its reader.                                       *)
(***************************************************************************)
\* A character lies in one cell at most.
OncePlaced ==
  \A c, d \in Cells : kb_buffer[c] = kb_buffer[d] /\ kb_buffer[c] \in Numbers => c = d

\* Overwritten characters are gone, from the ring and from the reader's hand.
OverrunGone == \A num \in overrun : num # key /\ \A c \in Cells : kb_buffer[c] # num

\* What the reader holds was not delivered, and lies in its cell if anywhere.
InHandOnly ==
  key \in Numbers =>
    /\ pc = "clear"
    /\ key \notin Delivered
    /\ \A c \in Cells : kb_buffer[c] = key => c = read_pos

IInv == TypeOK /\ ShiftNotStuck /\ OncePlaced /\ OverrunGone /\ InHandOnly /\ DeliveredOnce

(***************************************************************************)
(* Cells and numbers.                                                      *)
(***************************************************************************)
LEMMA Facts ==
  ASSUME TypeOK
  PROVE  /\ kb_buffer \in [Cells -> {EMPTY, NUL} \cup Numbers]
         /\ write_pos \in Cells /\ read_pos \in Cells
         /\ key \in {EMPTY, NUL} \cup Numbers
         /\ Len(typed) \in Nat /\ Numbers \subseteq Nat \ {0}
         /\ EMPTY \notin Numbers /\ NUL \notin Numbers /\ EMPTY # NUL
         /\ delivered \in Seq({NUL} \cup Numbers) /\ Len(delivered) \in Nat
         /\ overrun \subseteq Numbers
<1>1. typed \in Seq([code : Letters \cup Others, shift : BOOLEAN])
  BY DEF TypeOK
<1>2. Len(typed) \in Nat
  BY <1>1
<1>3. /\ Numbers \subseteq Nat \ {0}
      /\ EMPTY \notin Numbers /\ NUL \notin Numbers /\ EMPTY # NUL
  BY <1>2 DEF Numbers, EMPTY, NUL
<1>4. delivered \in Seq({NUL} \cup Numbers)
  BY DEF TypeOK
<1>5. Len(delivered) \in Nat
  BY <1>4
<1> QED
  BY <1>2, <1>3, <1>4, <1>5 DEF TypeOK

\* After the last cell comes the first.
LEMMA FollowingInRing ==
  ASSUME NEW pos \in Cells
  PROVE  Following(pos) \in Cells
BY KeyboardAssumption DEF Cells, Following

\* What was delivered is a cell's NUL or the number of a character.
LEMMA DeliveredAreNumbers ==
  ASSUME TypeOK
  PROVE  Delivered \subseteq {NUL} \cup Numbers
<1>1. delivered \in Seq({NUL} \cup Numbers)
  BY Facts
<1>2. \A j \in 1..Len(delivered) : delivered[j] \in {NUL} \cup Numbers
  BY <1>1
<1> QED
  BY <1>2 DEF Delivered

\* The handler's store: a new number in the cell, and nothing else moved.
LEMMA Stored ==
  ASSUME TypeOK, NEW code \in Letters \cup Others, Store(code)
  PROVE  /\ Len(typed') = Len(typed) + 1
         /\ Numbers' = Numbers \cup {Len(typed')} /\ Len(typed') \notin Numbers
         /\ Len(typed') # EMPTY /\ Len(typed') # NUL
         /\ kb_buffer' \in [Cells -> {EMPTY, NUL} \cup Numbers']
         /\ \A c \in Cells :
              kb_buffer'[c] = IF c = write_pos THEN Len(typed') ELSE kb_buffer[c]
         /\ \A num \in overrun' : num \in overrun \/ (num = kb_buffer[write_pos] /\ num \in Numbers
                                                  /\ ~InHand(write_pos))
         /\ UNCHANGED reader
<1>0. /\ kb_buffer \in [Cells -> {EMPTY, NUL} \cup Numbers]
      /\ write_pos \in Cells /\ Len(typed) \in Nat
  BY Facts
<1>1. typed \in Seq([code : Letters \cup Others, shift : BOOLEAN])
  BY DEF TypeOK
<1>2. typed' = Append(typed, [code |-> code, shift |-> Shift(code)])
  BY DEF Store
<1>3. Len(typed') = Len(typed) + 1
  BY <1>1, <1>2
<1>4. /\ Numbers' = Numbers \cup {Len(typed')} /\ Len(typed') \notin Numbers
      /\ Len(typed') # EMPTY /\ Len(typed') # NUL
  BY <1>0, <1>3 DEF Numbers, EMPTY, NUL
<1>5. kb_buffer' = [kb_buffer EXCEPT ![write_pos] = Len(typed')]
  BY DEF Store
<1>6. /\ kb_buffer' \in [Cells -> {EMPTY, NUL} \cup Numbers']
      /\ \A c \in Cells :
           kb_buffer'[c] = IF c = write_pos THEN Len(typed') ELSE kb_buffer[c]
  BY <1>0, <1>4, <1>5
<1>7. \A num \in overrun' : num \in overrun \/ (num = kb_buffer[write_pos] /\ num \in Numbers
                                            /\ ~InHand(write_pos))
  <2>1. kb_buffer[write_pos] \in {EMPTY, NUL} \cup Numbers
    BY <1>0
  <2> QED
    BY <2>1 DEF Store
<1> QED
  BY <1>3, <1>4, <1>6, <1>7 DEF Store

\* The reader's second step: the character it holds is delivered, and its cell empty.
LEMMA Cleared ==
  ASSUME TypeOK, GetKeyClear
  PROVE  /\ delivered' \in Seq({NUL} \cup Numbers)
         /\ key # EMPTY => /\ Len(delivered') = Len(delivered) + 1
                           /\ delivered'[Len(delivered) + 1] = key
                           /\ \A j \in 1..Len(delivered) : delivered'[j] = delivered[j]
                           /\ Delivered' = Delivered \cup {key}
         /\ key = EMPTY => delivered' = delivered
         /\ \A c \in Cells : kb_buffer'[c] = IF c = read_pos THEN EMPTY ELSE kb_buffer[c]
         /\ key' = EMPTY /\ UNCHANGED <<typed, overrun>>
<1>0. /\ kb_buffer \in [Cells -> {EMPTY, NUL} \cup Numbers] /\ read_pos \in Cells
      /\ key \in {EMPTY, NUL} \cup Numbers
      /\ delivered \in Seq({NUL} \cup Numbers) /\ Len(delivered) \in Nat
  BY Facts
<1>1. /\ kb_buffer' = [kb_buffer EXCEPT ![read_pos] = EMPTY]
      /\ delivered' = IF key # EMPTY THEN Append(delivered, key) ELSE delivered
      /\ key' = EMPTY /\ UNCHANGED <<typed, overrun>>
  BY DEF GetKeyClear
<1>2. \A c \in Cells : kb_buffer'[c] = IF c = read_pos THEN EMPTY ELSE kb_buffer[c]
  BY <1>0, <1>1
<1>3. CASE key = EMPTY
  BY <1>0, <1>1, <1>2, <1>3
<1>4. CASE key # EMPTY
  <2>1. key \in {NUL} \cup Numbers /\ delivered' = Append(delivered, key)
    BY <1>0, <1>1, <1>4
  <2>2. /\ delivered' \in Seq({NUL} \cup Numbers)
        /\ Len(delivered') = Len(delivered) + 1
        /\ delivered'[Len(delivered) + 1] = key
        /\ \A j \in 1..Len(delivered) : delivered'[j] = delivered[j]
    BY <1>0, <2>1
  <2>3. \A j \in 1..Len(delivered') : j \in 1..Len(delivered) \/ j = Len(delivered) + 1
    BY <1>0, <2>2
  <2>4. /\ \A j \in 1..Len(delivered) : j \in 1..Len(delivered')
        /\ Len(delivered) + 1 \in 1..Len(delivered')
    BY <1>0, <2>2
  <2>5. \A num : num \in Delivered' <=> num \in Delivered \cup {key}
    BY <2>2, <2>3, <2>4, Zenon DEF Delivered
  <2> QED
    BY <1>1, <1>2, <1>4, <2>2, <2>5
<1> QED
  BY <1>3, <1>4

(***************************************************************************)
(* Keyboard: the types.                                                     *)
(***************************************************************************)
LEMMA TypeStep ==
  TypeOK /\ [Next]_vars => TypeOK'
<1> SUFFICES ASSUME TypeOK, [Next]_vars
             PROVE  TypeOK'
  OBVIOUS
<1>1. ASSUME NEW code, CapsLock(code)
      PROVE  TypeOK'
  BY <1>1 DEF CapsLock, reader, TypeOK, Numbers
<1>2. ASSUME NEW side \in Shifts, ShiftPressed(side)
      PROVE  TypeOK'
  BY <1>2 DEF ShiftPressed, reader, TypeOK, Numbers
<1>3. ASSUME NEW side \in Shifts, ShiftReleased(side)
      PROVE  TypeOK'
  BY <1>3 DEF ShiftReleased, reader, TypeOK, Numbers
<1>4. ASSUME NEW code \in Letters \cup Others, Store(code)
      PROVE  TypeOK'
  <2>1. /\ Numbers \subseteq Numbers'
        /\ kb_buffer' \in [Cells -> {EMPTY, NUL} \cup Numbers']
        /\ \A num \in overrun' : num \in overrun \/ num \in Numbers
        /\ UNCHANGED reader
    BY <1>4, Stored
  <2>2. /\ overrun' \subseteq Numbers'
        /\ key' \in {EMPTY, NUL} \cup Numbers'
    BY <2>1, Facts DEF reader
  <2>3. delivered' \in Seq({NUL} \cup Numbers')
    <3>1. delivered \in Seq({NUL} \cup Numbers) /\ delivered' = delivered
      BY <2>1, Facts DEF reader
    <3> QED
      BY <2>1, <3>1
  <2>4. typed' \in Seq([code : Letters \cup Others, shift : BOOLEAN])
    <3>1. typed \in Seq([code : Letters \cup Others, shift : BOOLEAN])
      BY DEF TypeOK
    <3>2. Shift(code) \in BOOLEAN
      BY DEF Shift
    <3>3. typed' = Append(typed, [code |-> code, shift |-> Shift(code)])
      BY <1>4 DEF Store
    <3> QED
      BY <3>1, <3>2, <3>3
  <2>5. write_pos' \in Cells
    BY <1>4, Facts, FollowingInRing DEF Store
  <2>6. UNCHANGED <<read_pos, pc, want, got, shift_on, caps_lock_on, held>>
    BY <1>4 DEF Store, reader
  <2> QED
    BY <2>1, <2>2, <2>3, <2>4, <2>5, <2>6 DEF TypeOK
<1>5. ASSUME NEW len \in Lengths, ReadBegin(len)
      PROVE  TypeOK'
  <2>1. len \in Nat
    BY KeyboardAssumption
  <2> QED
    BY <1>5, <2>1 DEF ReadBegin, TypeOK, Numbers
<1>6. CASE GetKeyLoad
  <2>1. kb_buffer[read_pos] \in {EMPTY, NUL} \cup Numbers
    BY Facts
  <2> QED
    BY <1>6, <2>1 DEF GetKeyLoad, TypeOK, Numbers
<1>7. CASE GetKeyClear
  <2>1. delivered' \in Seq({NUL} \cup Numbers) /\ key' = EMPTY /\ UNCHANGED <<typed, overrun>>
    BY <1>7, Cleared
  <2>2. Numbers' = Numbers
    BY <2>1 DEF Numbers
  <2>3. kb_buffer' \in [Cells -> {EMPTY, NUL} \cup Numbers]
    BY <1>7, Facts DEF GetKeyClear
  <2>4. read_pos' \in Cells
    BY <1>7, Facts, FollowingInRing DEF GetKeyClear
  <2>5. want' \in Nat /\ got' \in 0..want' /\ pc' \in {"idle", "load", "clear"}
    BY <1>7 DEF GetKeyClear, Taken, TypeOK
  <2> QED
    BY <1>7, <2>1, <2>2, <2>3, <2>4, <2>5 DEF GetKeyClear, TypeOK
<1>8. CASE UNCHANGED vars
  BY <1>8 DEF vars, TypeOK, Numbers
<1> QED
  BY <1>1, <1>2, <1>3, <1>4, <1>5, <1>6, <1>7, <1>8 DEF Next, KeyboardHandler, Ignored

(***************************************************************************)
(* Keyboard: the characters.                                                *)
(***************************************************************************)
Characters == OncePlaced /\ OverrunGone /\ InHandOnly /\ DeliveredOnce

\* The handler stores a character: what it overwrites is gone, what it adds is new.
LEMMA StoreStep ==
  ASSUME TypeOK, Characters, NEW code \in Letters \cup Others, Store(code)
  PROVE  Characters'
<1> DEFINE new == Len(typed')
<1>0. /\ kb_buffer \in [Cells -> {EMPTY, NUL} \cup Numbers] /\ write_pos \in Cells
      /\ key \in {EMPTY, NUL} \cup Numbers /\ overrun \subseteq Numbers
      /\ EMPTY \notin Numbers /\ NUL \notin Numbers
  BY Facts
<1>1. /\ Numbers' = Numbers \cup {new} /\ new \notin Numbers /\ new # EMPTY /\ new # NUL
      /\ \A c \in Cells : kb_buffer'[c] = IF c = write_pos THEN new ELSE kb_buffer[c]
      /\ \A num \in overrun' : num \in overrun \/ (num = kb_buffer[write_pos] /\ num \in Numbers
                                               /\ ~InHand(write_pos))
      /\ UNCHANGED reader
  BY Stored
<1> HIDE DEF new
<1>2. key' = key /\ Delivered' = Delivered /\ UNCHANGED <<pc, read_pos, delivered>>
  BY <1>1 DEF reader, Delivered
<1>3. Delivered \subseteq {NUL} \cup Numbers
  BY DeliveredAreNumbers
<1>4. \A c \in Cells : kb_buffer[c] # new
  BY <1>0, <1>1
<1>5. OncePlaced'
  <2>1. ASSUME NEW c \in Cells, NEW d \in Cells,
               kb_buffer'[c] = kb_buffer'[d], kb_buffer'[c] \in Numbers'
        PROVE  c = d
    <3>1. CASE c = write_pos \/ d = write_pos
      BY <1>1, <1>4, <2>1, <3>1
    <3>2. CASE c # write_pos /\ d # write_pos
      BY <1>1, <1>4, <2>1, <3>2 DEF Characters, OncePlaced
    <3> QED
      BY <3>1, <3>2
  <2> QED
    BY <2>1 DEF OncePlaced
<1>6. OverrunGone'
  <2>1. ASSUME NEW num \in overrun'
        PROVE  num # key /\ \A c \in Cells : kb_buffer'[c] # num
    <3>1. CASE num \in overrun
      BY <1>0, <1>1, <3>1 DEF Characters, OverrunGone
    <3>2. CASE num = kb_buffer[write_pos] /\ num \in Numbers /\ ~InHand(write_pos)
      <4>1. num # key
        BY <1>0, <3>2 DEF Characters, InHandOnly, InHand
      <4>2. \A c \in Cells : c # write_pos => kb_buffer[c] # num
        BY <1>0, <3>2 DEF Characters, OncePlaced
      <4> QED
        BY <1>1, <3>2, <4>1, <4>2
    <3> QED
      BY <1>1, <2>1, <3>1, <3>2
  <2> QED
    BY <1>2, <2>1 DEF OverrunGone
<1>7. InHandOnly'
  <2>1. ASSUME key \in Numbers'
        PROVE  pc = "clear" /\ key \notin Delivered
               /\ \A c \in Cells : kb_buffer'[c] = key => c = read_pos
    <3>1. key \in Numbers
      BY <1>0, <1>1, <2>1
    <3> QED
      BY <1>1, <3>1 DEF Characters, InHandOnly
  <2> QED
    BY <1>2, <2>1 DEF InHandOnly
<1>8. DeliveredOnce'
  <2>1. ASSUME NEW num \in Delivered \ {NUL}
        PROVE  num \notin overrun' /\ \A c \in Cells : kb_buffer'[c] # num
    <3>1. num \in Numbers
      BY <1>3
    <3>2. num \notin overrun /\ \A c \in Cells : kb_buffer[c] # num
      BY DEF Characters, DeliveredOnce
    <3> QED
      BY <1>0, <1>1, <3>1, <3>2
  <2>2. \A j, k \in 1..Len(delivered) :
          delivered[j] = delivered[k] /\ delivered[j] # NUL => j = k
    BY DEF Characters, DeliveredOnce
  <2> QED
    BY <1>2, <2>1, <2>2 DEF DeliveredOnce
<1> QED
  BY <1>5, <1>6, <1>7, <1>8 DEF Characters

\* get_key takes a character into its hand.
LEMMA LoadStep ==
  ASSUME TypeOK, Characters, GetKeyLoad
  PROVE  Characters'
<1>1. /\ key' = kb_buffer[read_pos] /\ pc' = "clear"
      /\ UNCHANGED <<kb_buffer, read_pos, typed, delivered, overrun>>
  BY DEF GetKeyLoad
<1>2. Numbers' = Numbers /\ Delivered' = Delivered
  BY <1>1 DEF Numbers, Delivered
<1>3. read_pos \in Cells /\ NUL \notin Numbers
  BY Facts
<1>4. OncePlaced' /\ DeliveredOnce'
  BY <1>1, <1>2 DEF Characters, OncePlaced, DeliveredOnce
<1>5. OverrunGone'
  BY <1>1, <1>3 DEF Characters, OverrunGone
<1>6. InHandOnly'
  <2>1. ASSUME key' \in Numbers
        PROVE  key' \notin Delivered /\ \A c \in Cells : kb_buffer[c] = key' => c = read_pos
    <3>1. key' \notin Delivered
      BY <1>1, <1>3, <2>1 DEF Characters, DeliveredOnce
    <3>2. \A c \in Cells : kb_buffer[c] = key' => c = read_pos
      BY <1>1, <1>3, <2>1 DEF Characters, OncePlaced
    <3> QED
      BY <3>1, <3>2
  <2> QED
    BY <1>1, <1>2, <2>1 DEF InHandOnly
<1> QED
  BY <1>4, <1>5, <1>6 DEF Characters

\* get_key clears the cell and delivers what is in its hand.
LEMMA ClearStep ==
  ASSUME TypeOK, Characters, GetKeyClear
  PROVE  Characters'
<1>0. /\ kb_buffer \in [Cells -> {EMPTY, NUL} \cup Numbers] /\ read_pos \in Cells
      /\ key \in {EMPTY, NUL} \cup Numbers /\ overrun \subseteq Numbers
      /\ EMPTY \notin Numbers /\ NUL \notin Numbers /\ EMPTY # NUL
      /\ Len(delivered) \in Nat
  BY Facts
<1>1. /\ key # EMPTY => /\ Len(delivered') = Len(delivered) + 1
                        /\ delivered'[Len(delivered) + 1] = key
                        /\ \A j \in 1..Len(delivered) : delivered'[j] = delivered[j]
                        /\ Delivered' = Delivered \cup {key}
      /\ key = EMPTY => delivered' = delivered
      /\ \A c \in Cells : kb_buffer'[c] = IF c = read_pos THEN EMPTY ELSE kb_buffer[c]
      /\ key' = EMPTY /\ UNCHANGED <<typed, overrun>>
  BY Cleared
<1>2. Numbers' = Numbers
  BY <1>1 DEF Numbers
<1>3. Delivered \subseteq {NUL} \cup Numbers
  BY DeliveredAreNumbers
<1>4. OncePlaced'
  <2>1. ASSUME NEW c \in Cells, NEW d \in Cells,
               kb_buffer'[c] = kb_buffer'[d], kb_buffer'[c] \in Numbers
        PROVE  c = d
    <3>1. kb_buffer'[c] = kb_buffer[c] /\ kb_buffer'[d] = kb_buffer[d]
      BY <1>0, <1>1, <2>1
    <3> QED
      BY <2>1, <3>1 DEF Characters, OncePlaced
  <2> QED
    BY <1>2, <2>1 DEF OncePlaced
<1>5. OverrunGone'
  <2>1. ASSUME NEW num \in overrun
        PROVE  num # EMPTY /\ \A c \in Cells : kb_buffer'[c] # num
    BY <1>0, <1>1 DEF Characters, OverrunGone
  <2> QED
    BY <1>1, <2>1 DEF OverrunGone
<1>6. InHandOnly'
  BY <1>0, <1>1, <1>2 DEF InHandOnly
<1>7. DeliveredOnce'
  <2>1. CASE key = EMPTY
    <3>1. delivered' = delivered /\ Delivered' = Delivered /\ overrun' = overrun
      BY <1>1, <2>1 DEF Delivered
    <3>2. ASSUME NEW num \in Delivered \ {NUL}
          PROVE  num \notin overrun /\ \A c \in Cells : kb_buffer'[c] # num
      <4>1. num \in Numbers /\ num # EMPTY
        BY <1>0, <1>3
      <4>2. num \notin overrun /\ \A c \in Cells : kb_buffer[c] # num
        BY DEF Characters, DeliveredOnce
      <4> QED
        BY <1>1, <4>1, <4>2
    <3>3. \A j, k \in 1..Len(delivered) :
            delivered[j] = delivered[k] /\ delivered[j] # NUL => j = k
      BY DEF Characters, DeliveredOnce
    <3> QED
      BY <3>1, <3>2, <3>3 DEF DeliveredOnce
  <2>2. CASE key # EMPTY
    <3>1. key \in Numbers =>
            /\ key \notin Delivered /\ key \notin overrun
            /\ \A c \in Cells : kb_buffer[c] = key => c = read_pos
      BY DEF Characters, InHandOnly, OverrunGone
    <3>2. ASSUME NEW num \in Delivered' \ {NUL}
          PROVE  num \notin overrun /\ \A c \in Cells : kb_buffer'[c] # num
      <4>1. CASE num = key
        BY <1>0, <1>1, <2>2, <3>1, <3>2, <4>1
      <4>2. CASE num # key
        <5>1. num \in Delivered /\ num \in Numbers /\ num # EMPTY
          BY <1>0, <1>1, <1>3, <2>2, <3>2, <4>2
        <5>2. num \notin overrun /\ \A c \in Cells : kb_buffer[c] # num
          BY <3>2, <5>1 DEF Characters, DeliveredOnce
        <5> QED
          BY <1>1, <5>1, <5>2
      <4> QED
        BY <4>1, <4>2
    <3>3. ASSUME NEW j \in 1..Len(delivered'), NEW k \in 1..Len(delivered'),
                 delivered'[j] = delivered'[k], delivered'[j] # NUL
          PROVE  j = k
      <4>1. \A x \in 1..Len(delivered') : x \in 1..Len(delivered) \/ x = Len(delivered) + 1
        BY <1>0, <1>1, <2>2
      <4>2. \A x \in 1..Len(delivered) : delivered[x] = key => key = NUL
        <5>1. \A x \in 1..Len(delivered) : delivered[x] \in Delivered
          BY DEF Delivered
        <5> QED
          BY <1>0, <2>2, <3>1, <5>1
      <4>3. \A x, y \in 1..Len(delivered) :
              delivered[x] = delivered[y] /\ delivered[x] # NUL => x = y
        BY DEF Characters, DeliveredOnce
      <4> QED
        BY <1>1, <2>2, <3>3, <4>1, <4>2, <4>3
    <3> QED
      BY <1>1, <3>2, <3>3 DEF DeliveredOnce
  <2> QED
    BY <2>1, <2>2
<1> QED
  BY <1>4, <1>5, <1>6, <1>7 DEF Characters

\* Every step keeps Characters.
LEMMA CharactersStep ==
  TypeOK /\ Characters /\ [Next]_vars => Characters'
<1> SUFFICES ASSUME TypeOK, Characters, [Next]_vars
             PROVE  Characters'
  OBVIOUS
<1>1. ASSUME NEW code \in Letters \cup Others, Store(code)
      PROVE  Characters'
  BY <1>1, StoreStep
<1>2. CASE GetKeyLoad
  BY <1>2, LoadStep
<1>3. CASE GetKeyClear
  BY <1>3, ClearStep
<1>4. ASSUME NEW len \in Lengths, ReadBegin(len)
      PROVE  Characters'
  <2>1. UNCHANGED <<kb_buffer, read_pos, key, typed, delivered, overrun>> /\ pc # "clear"
    BY <1>4 DEF ReadBegin
  <2>2. Numbers' = Numbers /\ Delivered' = Delivered
    BY <2>1 DEF Numbers, Delivered
  <2> QED
    BY <2>1, <2>2 DEF Characters, OncePlaced, OverrunGone, InHandOnly, DeliveredOnce
<1>5. ASSUME UNCHANGED <<kb_buffer, read_pos, pc, key, typed, delivered, overrun>>
      PROVE  Characters'
  <2>1. Numbers' = Numbers /\ Delivered' = Delivered
    BY <1>5 DEF Numbers, Delivered
  <2> QED
    BY <1>5, <2>1 DEF Characters, OncePlaced, OverrunGone, InHandOnly, DeliveredOnce
<1> QED
  BY <1>1, <1>2, <1>3, <1>4, <1>5
     DEF Next, KeyboardHandler, Ignored, CapsLock, ShiftPressed, ShiftReleased, reader, vars

(***************************************************************************)
(* Keyboard: the theorems.                                                  *)
(***************************************************************************)
LEMMA ShiftStep ==
  ShiftNotStuck /\ [Next]_vars => ShiftNotStuck'
BY DEF ShiftNotStuck, Next, KeyboardHandler, CapsLock, ShiftPressed, ShiftReleased, Store,
       Ignored, ReadBegin, GetKeyLoad, GetKeyClear, reader, vars

\* An empty ring: nothing typed, nothing delivered.
LEMMA Start == Init => IInv
<1> SUFFICES ASSUME Init
             PROVE  IInv
  OBVIOUS
<1>1. /\ kb_buffer = [c \in Cells |-> IF c = 0 THEN EMPTY ELSE NUL]
      /\ typed = <<>> /\ delivered = <<>> /\ overrun = {} /\ key = EMPTY
      /\ shift_on = FALSE
  BY DEF Init
<1>2. 0 \in Cells
  BY KeyboardAssumption DEF Cells
<1>3. Numbers = {} /\ Delivered = {}
  BY <1>1 DEF Numbers, Delivered
<1>4. TypeOK
  BY <1>1, <1>2, <1>3 DEF Init, TypeOK
<1>5. Characters
  BY <1>1, <1>3 DEF Characters, OncePlaced, OverrunGone, InHandOnly, DeliveredOnce
<1> QED
  BY <1>1, <1>4, <1>5 DEF IInv, Characters, ShiftNotStuck

\* Every step of keyboard_handler, get_key and read_stdin keeps the ring's characters
\* apart from those that were read or overwritten.
THEOREM KeyboardInvariant == Spec => []IInv
<1>1. IInv /\ [Next]_vars => IInv'
  BY TypeStep, ShiftStep, CharactersStep DEF IInv, Characters
<1> QED
  BY Start, <1>1, PTL DEF Spec

\* The variables of keyboard.c and read_stdin keep their types: both positions stay in
\* the ring.
THEOREM TypesHold == Spec => []TypeOK
<1>1. IInv => TypeOK
  BY DEF IInv
<1> QED
  BY KeyboardInvariant, <1>1, PTL

\* get_key delivers a character at most once, wherever the handler's store falls
\* between its load and its store of EMPTY.
THEOREM DeliveredAtMostOnce == Spec => []DeliveredOnce
<1>1. IInv => DeliveredOnce
  BY DEF IInv
<1> QED
  BY KeyboardInvariant, <1>1, PTL

\* With both shift keys up, key_pressed has shift off.
THEOREM ShiftGoesOff == Spec => []ShiftNotStuck
<1>1. IInv => ShiftNotStuck
  BY DEF IInv
<1> QED
  BY KeyboardInvariant, <1>1, PTL

(***************************************************************************)
(* Loader: the image.                                                       *)
(***************************************************************************)
\* A module behind what was packed before: its size, and itself.
LEMMA Packing ==
  ASSUME NEW s \in Seq(Nat), NEW m \in Seq(Nat)
  PROVE  LET t == s \o <<Len(m)>> \o m
         IN  /\ t \in Seq(Nat) /\ Len(t) = Len(s) + 1 + Len(m)
             /\ \A k \in 1..Len(s) : t[k] = s[k]
             /\ t[Len(s) + 1] = Len(m)
             /\ \A k \in 1..Len(m) : t[Len(s) + 1 + k] = m[k]
<1> DEFINE u == s \o <<Len(m)>>
<1>1. Len(s) \in Nat /\ Len(m) \in Nat
  OBVIOUS
<1>2. /\ u \in Seq(Nat) /\ Len(u) = Len(s) + 1 /\ u[Len(s) + 1] = Len(m)
      /\ \A k \in 1..Len(s) : u[k] = s[k]
  BY <1>1
<1> HIDE DEF u
<1>3. /\ u \o m \in Seq(Nat) /\ Len(u \o m) = Len(u) + Len(m)
      /\ \A i \in 1..(Len(u) + Len(m)) :
            (u \o m)[i] = IF i <= Len(u) THEN u[i] ELSE m[i - Len(u)]
  BY <1>2, ConcatProperties
<1>4. \A k \in 1..Len(s) : (u \o m)[k] = s[k]
  BY <1>1, <1>2, <1>3
<1>5. (u \o m)[Len(s) + 1] = Len(m)
  BY <1>1, <1>2, <1>3
<1>6. \A k \in 1..Len(m) : (u \o m)[Len(s) + 1 + k] = m[k]
  <2> TAKE k \in 1..Len(m)
  <2>1. /\ Len(s) + 1 + k \in 1..(Len(u) + Len(m)) /\ ~(Len(s) + 1 + k <= Len(u))
        /\ Len(s) + 1 + k - Len(u) = k
    BY <1>1, <1>2
  <2> QED
    BY <1>3, <2>1
<1> QED
  BY <1>2, <1>3, <1>4, <1>5, <1>6 DEF u

\* The payload of the kernel's binary: the count, and each module after its size.
LEMMA ImageIs ==
  ASSUME NEW ms \in Seq(Seq(Nat)), Len(ms) = 2
  PROVE  LET image == Image(ms)
             e == Len(Kernel)
             f == e + 2 + Len(ms[1])
         IN  /\ Len(image) = f + 1 + Len(ms[2])
             /\ image[e + 1] = 2
             /\ image[e + 2] = Len(ms[1])
             /\ \A k \in 1..Len(ms[1]) : image[e + 2 + k] = ms[1][k]
             /\ image[f + 1] = Len(ms[2])
             /\ \A k \in 1..Len(ms[2]) : image[f + 1 + k] = ms[2][k]
<1> DEFINE F(g) == [j \in 0..Len(ms) |->
                      IF j = 0 THEN Kernel \o <<Len(ms)>>
                      ELSE g[j - 1] \o <<Len(ms[j])>> \o ms[j]]
           image == CHOOSE g : g = F(g)
           a == Kernel \o <<2>>
           b == a \o <<Len(ms[1])>> \o ms[1]
           c == b \o <<Len(ms[2])>> \o ms[2]
           h == [j \in 0..2 |-> IF j = 0 THEN a ELSE IF j = 1 THEN b ELSE c]
<1>1. Image(ms) = image[2]
  BY Zenon DEF Image
<1>2. h = F(h)
  <2>1. \A j \in 0..2 : h[j] = IF j = 0 THEN a ELSE h[j - 1] \o <<Len(ms[j])>> \o ms[j]
    <3>1. h[0] = a /\ h[1] = b /\ h[2] = c
      OBVIOUS
    <3> HIDE DEF h, a
    <3>2. \A j \in 0..2 : j = 0 \/ j = 1 \/ j = 2
      OBVIOUS
    <3>3. 1 - 1 = 0 /\ 2 - 1 = 1 /\ 1 # 0 /\ 2 # 0
      OBVIOUS
    <3> QED
      BY <3>1, <3>2, <3>3, Zenon
  <2>2. h = [j \in 0..2 |-> h[j]]
    OBVIOUS
  <2> HIDE DEF h
  <2>3. h = [j \in 0..2 |-> IF j = 0 THEN a ELSE h[j - 1] \o <<Len(ms[j])>> \o ms[j]]
    BY <2>1, <2>2, Zenon
  <2> QED
    BY <2>3, Zenon
<1> HIDE DEF h
<1>3. image = F(image)
  BY <1>2, Zenon
<1> HIDE DEF image
<1>4. \A j \in 0..2 : image[j] = IF j = 0 THEN a ELSE image[j - 1] \o <<Len(ms[j])>> \o ms[j]
  BY <1>3, Zenon
<1>5. image[2] = c
  <2>1. image[0] = a
    BY <1>4
  <2>2. image[1] = b
    <3>1. 1 \in 0..2 /\ 1 # 0 /\ 1 - 1 = 0
      OBVIOUS
    <3> QED
      BY <1>4, <2>1, <3>1, Zenon
  <2> HIDE DEF b
  <2>3. 2 \in 0..2 /\ 2 # 0 /\ 2 - 1 = 1
    OBVIOUS
  <2> QED
    BY <1>4, <2>2, <2>3, Zenon
<1>6. ms[1] \in Seq(Nat) /\ ms[2] \in Seq(Nat) /\ Len(ms[1]) \in Nat /\ Len(ms[2]) \in Nat
  BY 1 \in 1..Len(ms), 2 \in 1..Len(ms)
<1>7. Kernel \in Seq(Nat) /\ Len(Kernel) \in Nat
  BY LoaderAssumption
<1>8. a \in Seq(Nat) /\ Len(a) = Len(Kernel) + 1 /\ a[Len(Kernel) + 1] = 2
  BY <1>7
<1> HIDE DEF a
<1>9. /\ b \in Seq(Nat) /\ Len(b) = Len(a) + 1 + Len(ms[1])
      /\ \A k \in 1..Len(a) : b[k] = a[k]
      /\ b[Len(a) + 1] = Len(ms[1])
      /\ \A k \in 1..Len(ms[1]) : b[Len(a) + 1 + k] = ms[1][k]
  BY <1>6, <1>8, Packing
<1> HIDE DEF b
<1>10. /\ Len(c) = Len(b) + 1 + Len(ms[2])
       /\ \A k \in 1..Len(b) : c[k] = b[k]
       /\ c[Len(b) + 1] = Len(ms[2])
       /\ \A k \in 1..Len(ms[2]) : c[Len(b) + 1 + k] = ms[2][k]
  BY <1>6, <1>9, Packing
<1> HIDE DEF c
<1> DEFINE e == Len(Kernel)
           f == e + 2 + Len(ms[1])
<1>11. Len(a) = e + 1 /\ Len(b) = f /\ e \in Nat /\ f \in Nat
  BY <1>6, <1>7, <1>8, <1>9
<1>12. c[e + 1] = 2 /\ c[e + 2] = Len(ms[1])
  <2>1. e + 1 \in 1..Len(a) /\ e + 1 \in 1..Len(b) /\ e + 2 \in 1..Len(b) /\ Len(a) + 1 = e + 2
    BY <1>6, <1>11
  <2> QED
    BY <1>8, <1>9, <1>10, <2>1
<1>13. \A k \in 1..Len(ms[1]) : c[e + 2 + k] = ms[1][k]
  <2> TAKE k \in 1..Len(ms[1])
  <2>1. e + 2 + k \in 1..Len(b) /\ Len(a) + 1 + k = e + 2 + k
    BY <1>6, <1>11
  <2> QED
    BY <1>9, <1>10, <2>1
<1>14. Image(ms) = c
  BY <1>1, <1>5
<1> QED
  BY <1>10, <1>11, <1>12, <1>13, <1>14

\* What the assumptions say of what may be packed.
LEMMA PackedFacts ==
  ASSUME modules \in Packed
  PROVE  /\ modules \in Seq(Seq(Nat)) /\ Len(modules) = 2
         /\ modules[1] \in Seq(Nat) /\ modules[2] \in Seq(Nat)
         /\ Len(modules[1]) \in Nat /\ Len(modules[2]) \in Nat
         /\ endOfKernelBinary \in Nat
         /\ bss \in Nat /\ endOfKernel \in Nat /\ MemorySize \in Nat
         /\ codeModuleAddress \in Nat /\ dataModuleAddress \in Nat
         /\ targets[1] = codeModuleAddress /\ targets[2] = dataModuleAddress
         /\ endOfKernel <= codeModuleAddress
         /\ endOfKernelBinary + 3 + Len(modules[1]) + Len(modules[2]) <= codeModuleAddress
         /\ codeModuleAddress + Len(modules[1]) <= dataModuleAddress
         /\ dataModuleAddress + Len(modules[2]) <= MemorySize
         /\ CodeBss \subseteq (codeModuleAddress + Len(modules[1]))..(dataModuleAddress - 1)
<1>1. /\ modules \in Seq(Seq(Nat)) /\ Len(modules) = 2
      /\ Len(Image(modules)) <= codeModuleAddress
      /\ codeModuleAddress + Len(modules[1]) <= dataModuleAddress
      /\ dataModuleAddress + Len(modules[2]) <= MemorySize
      /\ CodeBss \subseteq (codeModuleAddress + Len(modules[1]))..(dataModuleAddress - 1)
  BY LoaderAssumption
<1>2. /\ modules[1] \in Seq(Nat) /\ modules[2] \in Seq(Nat)
      /\ Len(modules[1]) \in Nat /\ Len(modules[2]) \in Nat
  BY <1>1, 1 \in 1..Len(modules), 2 \in 1..Len(modules)
<1>3. /\ Kernel \in Seq(Nat) /\ endOfKernelBinary \in Nat
      /\ bss \in Nat /\ endOfKernel \in Nat /\ MemorySize \in Nat
      /\ codeModuleAddress \in Nat /\ dataModuleAddress \in Nat
      /\ endOfKernel <= codeModuleAddress
  BY LoaderAssumption DEF endOfKernelBinary
<1>4. Len(Image(modules)) = endOfKernelBinary + 3 + Len(modules[1]) + Len(modules[2])
  <2>1. Len(Image(modules)) = Len(Kernel) + 2 + Len(modules[1]) + 1 + Len(modules[2])
    BY <1>1, ImageIs, Zenon
  <2> DEFINE first == Len(modules[1])
             second == Len(modules[2])
  <2>2. first \in Nat /\ second \in Nat
    BY <1>2
  <2>3. Len(Image(modules)) = Len(Kernel) + 2 + first + 1 + second
    BY <2>1
  <2> HIDE DEF first, second
  <2>4. Len(Image(modules)) = endOfKernelBinary + 3 + first + second
    BY <1>3, <2>2, <2>3 DEF endOfKernelBinary
  <2> QED
    BY <2>4 DEF first, second
<1> QED
  BY <1>1, <1>2, <1>3, <1>4 DEF targets

(***************************************************************************)
(* Loader: the kernel's start.                                              *)
(***************************************************************************)
\* A module is where it belongs.
Placed(i) == \A k \in 1..Len(modules[i]) : mem[targets[i] + k - 1] = modules[i][k]

\* A module is still in the payload, at the address of its size.
InPayload(i, address) ==
  /\ mem[address] = Len(modules[i])
  /\ \A k \in 1..Len(modules[i]) : mem[address + k] = modules[i][k]

\* Where the modules are at each step of the start: the payload lies below both
\* targets, so copying the first leaves the second as it was.
Loading ==
  \/ /\ steps = Startup /\ currentModule = endOfKernelBinary /\ loaded = 0
     /\ mem[endOfKernelBinary] = 2
     /\ InPayload(1, endOfKernelBinary + 1)
     /\ InPayload(2, endOfKernelBinary + 2 + Len(modules[1]))
  \/ /\ steps = <<"load", "clear", "run">> /\ moduleCount = 2
     /\ loaded = 0 /\ currentModule = endOfKernelBinary + 1
     /\ InPayload(1, endOfKernelBinary + 1)
     /\ InPayload(2, endOfKernelBinary + 2 + Len(modules[1]))
  \/ /\ steps = <<"load", "clear", "run">> /\ moduleCount = 2
     /\ loaded = 1 /\ currentModule = endOfKernelBinary + 2 + Len(modules[1])
     /\ Placed(1)
     /\ InPayload(2, endOfKernelBinary + 2 + Len(modules[1]))
  \/ /\ steps = <<"load", "clear", "run">> /\ moduleCount = 2
     /\ loaded = 2 /\ Placed(1) /\ Placed(2)
  \/ /\ steps \in {<<"clear", "run">>, <<"run">>, <<>>}
     /\ Placed(1) /\ Placed(2)

LoadInv == modules \in Packed /\ Loading

\* Pure64 has put the image in memory: the payload is behind the kernel's binary.
LEMMA LoadInitially ==
  LoaderInit => LoadInv
<1> SUFFICES ASSUME LoaderInit
             PROVE  LoadInv
  OBVIOUS
<1> DEFINE e == endOfKernelBinary
           m1 == modules[1]
           m2 == modules[2]
<1>1. modules \in Packed
  BY DEF LoaderInit
<1>2. /\ modules \in Seq(Seq(Nat)) /\ Len(modules) = 2
      /\ m1 \in Seq(Nat) /\ m2 \in Seq(Nat) /\ Len(m1) \in Nat /\ Len(m2) \in Nat
      /\ e \in Nat /\ MemorySize \in Nat
      /\ codeModuleAddress \in Nat /\ dataModuleAddress \in Nat
      /\ e + 3 + Len(m1) + Len(m2) <= codeModuleAddress
      /\ codeModuleAddress + Len(m1) <= dataModuleAddress
      /\ dataModuleAddress + Len(m2) <= MemorySize
  BY <1>1, PackedFacts
<1> HIDE DEF m1, m2
<1> DEFINE image == Image(modules)
<1>5. /\ Len(image) = e + 3 + Len(m1) + Len(m2)
      /\ image[e + 1] = 2
      /\ image[e + 2] = Len(m1)
      /\ \A k \in 1..Len(m1) : image[e + 2 + k] = m1[k]
      /\ image[e + 3 + Len(m1)] = Len(m2)
      /\ \A k \in 1..Len(m2) : image[e + 3 + Len(m1) + k] = m2[k]
  <2>1. LET f == e + 2 + Len(m1)
        IN  /\ Len(image) = f + 1 + Len(m2)
            /\ image[e + 1] = 2
            /\ image[e + 2] = Len(m1)
            /\ \A k \in 1..Len(m1) : image[e + 2 + k] = m1[k]
            /\ image[f + 1] = Len(m2)
            /\ \A k \in 1..Len(m2) : image[f + 1 + k] = m2[k]
    BY <1>2, ImageIs, Zenon DEF m1, m2, endOfKernelBinary
  <2>2. e + 2 + Len(m1) + 1 = e + 3 + Len(m1)
    BY <1>2
  <2> HIDE DEF e, image
  <2> QED
    BY <1>2, <2>1, <2>2
<1> HIDE DEF image
<1>6. \A x \in 0..(Len(image) - 1) : mem[x] = image[x + 1]
  <2>1. mem = [x \in Memory |-> IF x < Len(image) THEN image[x + 1] ELSE Junk]
    BY DEF LoaderInit, image
  <2>2. \A x \in 0..(Len(image) - 1) : x \in Memory /\ x < Len(image)
    BY <1>2, <1>5 DEF Memory
  <2> QED
    BY <2>1, <2>2
<1> HIDE DEF e
<1>7. mem[e] = 2 /\ mem[e + 1] = Len(m1) /\ mem[e + 2 + Len(m1)] = Len(m2)
  BY <1>2, <1>5, <1>6
<1>8. \A k \in 1..Len(m1) : mem[e + 1 + k] = m1[k]
  <2> TAKE k \in 1..Len(m1)
  <2>1. e + 1 + k \in 0..(Len(image) - 1) /\ (e + 1 + k) + 1 = e + 2 + k
    BY <1>2, <1>5
  <2> QED
    BY <1>5, <1>6, <2>1
<1>9. \A k \in 1..Len(m2) : mem[e + 2 + Len(m1) + k] = m2[k]
  <2> TAKE k \in 1..Len(m2)
  <2>1. /\ e + 2 + Len(m1) + k \in 0..(Len(image) - 1)
        /\ (e + 2 + Len(m1) + k) + 1 = e + 3 + Len(m1) + k
    BY <1>2, <1>5
  <2> QED
    BY <1>5, <1>6, <2>1
<1> QED
  BY <1>1, <1>7, <1>8, <1>9 DEF LoadInv, Loading, LoaderInit, InPayload, e, m1, m2

\* loadModules reads the count.
LEMMA ReadCountStep ==
  ASSUME LoadInv, ReadCount
  PROVE  LoadInv'
<1>1. modules \in Packed /\ modules' = modules /\ mem' = mem
  BY DEF LoadInv, ReadCount
<1>2. /\ steps = Startup /\ currentModule = endOfKernelBinary /\ loaded = 0
      /\ mem[endOfKernelBinary] = 2
      /\ InPayload(1, endOfKernelBinary + 1)
      /\ InPayload(2, endOfKernelBinary + 2 + Len(modules[1]))
  BY DEF LoadInv, Loading, ReadCount, AtStep
<1>3. steps' = <<"load", "clear", "run">>
  BY <1>2 DEF ReadCount, Startup
<1>4. moduleCount' = 2 /\ loaded' = 0 /\ currentModule' = endOfKernelBinary + 1
  BY <1>2 DEF ReadCount
<1> QED
  BY <1>1, <1>2, <1>3, <1>4 DEF LoadInv, Loading, InPayload

\* loadModules copies a module to its target: it is placed, and what ends before the
\* target stays as it was.
LEMMA Copied ==
  ASSUME LoadInv, NEW i \in 1..2, InPayload(i, currentModule), currentModule \in Nat,
         currentModule + Len(modules[i]) < codeModuleAddress,
         modules' = modules,
         mem' = memcpy(mem, targets[i], currentModule + 1, mem[currentModule])
  PROVE  /\ Placed(i)'
         /\ \A x \in Memory : x < targets[i] => mem'[x] = mem[x]
<1> DEFINE m == modules[i]
           d == targets[i]
           size == Len(m)
<1>1. /\ size \in Nat /\ d \in Nat /\ codeModuleAddress \in Nat /\ MemorySize \in Nat
      /\ codeModuleAddress <= d /\ d + size <= MemorySize
  <2>1. CASE i = 1
    BY <2>1, PackedFacts DEF LoadInv
  <2>2. CASE i = 2
    BY <2>2, PackedFacts DEF LoadInv
  <2> QED
    BY <2>1, <2>2
<1>2. /\ mem[currentModule] = size
      /\ \A k \in 1..size : mem[currentModule + k] = m[k]
  BY DEF InPayload
<1>3. mem' = [x \in Memory |-> IF x - d \in 0..(size - 1)
                              THEN mem[currentModule + 1 + x - d] ELSE mem[x]]
  BY <1>2 DEF memcpy
<1> HIDE DEF m, d, size
<1>4. \A k \in 1..size : mem'[d + k - 1] = m[k]
  <2> TAKE k \in 1..size
  <2> DEFINE x == d + k - 1
  <2>1. x \in Memory /\ x - d \in 0..(size - 1)
    BY <1>1 DEF Memory
  <2>2. currentModule + 1 + x - d = currentModule + k
    BY <1>1
  <2> HIDE DEF x
  <2>3. mem'[x] = mem[currentModule + k]
    BY <1>3, <2>1, <2>2, Zenon
  <2> QED
    BY <1>2, <2>3 DEF x
<1>5. \A x \in Memory : x < d => mem'[x] = mem[x]
  <2> TAKE x \in Memory
  <2>1. x < d => ~(x - d \in 0..(size - 1))
    BY <1>1 DEF Memory
  <2> QED
    BY <1>3, <2>1
<1> QED
  BY <1>4, <1>5 DEF Placed, m, d, size

\* A module is copied: those placed before it and those behind it in the payload stay.
LEMMA LoadModuleStep ==
  ASSUME LoadInv, LoadModule
  PROVE  LoadInv'
<1> DEFINE e == endOfKernelBinary
           first == Len(modules[1])
           second == Len(modules[2])
<1>0. /\ first \in Nat /\ second \in Nat /\ e \in Nat /\ MemorySize \in Nat
      /\ codeModuleAddress \in Nat /\ dataModuleAddress \in Nat
      /\ e + 3 + first + second <= codeModuleAddress
      /\ codeModuleAddress + first <= dataModuleAddress
      /\ dataModuleAddress + second <= MemorySize
      /\ targets[1] = codeModuleAddress /\ targets[2] = dataModuleAddress
  BY PackedFacts DEF LoadInv
<1>1. /\ modules \in Packed /\ modules' = modules /\ steps' = steps
      /\ moduleCount' = moduleCount
      /\ mem' = memcpy(mem, targets[loaded + 1], currentModule + 1, mem[currentModule])
      /\ currentModule' = currentModule + 1 + mem[currentModule]
      /\ loaded' = loaded + 1
      /\ steps # <<>> /\ Head(steps) = "load" /\ loaded < moduleCount
  BY DEF LoadInv, LoadModule, AtStep
<1>2. CASE /\ steps = <<"load", "clear", "run">> /\ moduleCount = 2
           /\ loaded = 0 /\ currentModule = e + 1
           /\ InPayload(1, e + 1)
           /\ InPayload(2, e + 2 + first)
  <2>1. mem' = memcpy(mem, targets[1], currentModule + 1, mem[currentModule])
    BY <1>1, <1>2
  <2>2. /\ Placed(1)'
        /\ \A x \in Memory : x < targets[1] => mem'[x] = mem[x]
    <3>1. /\ 1 \in 1..2 /\ InPayload(1, currentModule) /\ currentModule \in Nat
          /\ currentModule + Len(modules[1]) < codeModuleAddress
      <4>1. InPayload(1, currentModule) /\ currentModule = e + 1
        BY <1>2
      <4> HIDE DEF e, first
      <4>2. currentModule \in Nat /\ currentModule + first < codeModuleAddress
        <5> HIDE DEF second
        <5> QED
          BY <1>0, <4>1
      <4> QED
        BY <4>1, <4>2 DEF first
    <3> QED
      BY <1>1, <2>1, <3>1, Copied
  <2>5. \A x \in 0..(codeModuleAddress - 1) : mem'[x] = mem[x]
    <3>1. codeModuleAddress <= MemorySize
      BY <1>0
    <3> QED
      BY <1>0, <2>2, <3>1 DEF Memory
  <2>3. InPayload(2, e + 2 + first)'
    <3> HIDE DEF e, first, second
    <3>1. /\ mem[e + 2 + first] = second
          /\ \A k \in 1..second : mem[e + 2 + first + k] = modules[2][k]
      BY <1>2 DEF InPayload, first, second
    <3>2. \A k \in 0..second : e + 2 + first + k \in 0..(codeModuleAddress - 1)
      BY <1>0
    <3>3. e + 2 + first \in 0..(codeModuleAddress - 1)
      BY <1>0
    <3>4. mem'[e + 2 + first] = second
      BY <1>0, <2>5, <3>1, <3>3
    <3>5. \A k \in 1..second : mem'[e + 2 + first + k] = modules[2][k]
      BY <2>5, <3>1, <3>2
    <3>6. (e + 2 + first)' = e + 2 + first
      BY <1>1 DEF e, first, endOfKernelBinary
    <3> QED
      BY <1>1, <3>4, <3>5, <3>6, Zenon DEF InPayload, second
  <2>4. loaded' = 1 /\ currentModule' = (e + 2 + first)'
    BY <1>0, <1>1, <1>2 DEF InPayload
  <2> QED
    BY <1>1, <1>2, <2>2, <2>3, <2>4 DEF LoadInv, Loading
<1>3. CASE /\ steps = <<"load", "clear", "run">> /\ moduleCount = 2
           /\ loaded = 1 /\ currentModule = e + 2 + first
           /\ Placed(1)
           /\ InPayload(2, e + 2 + first)
  <2>1. mem' = memcpy(mem, targets[2], currentModule + 1, mem[currentModule])
    BY <1>1, <1>3
  <2>2. /\ Placed(2)'
        /\ \A x \in Memory : x < targets[2] => mem'[x] = mem[x]
    <3>1. /\ 2 \in 1..2 /\ InPayload(2, currentModule) /\ currentModule \in Nat
          /\ currentModule + Len(modules[2]) < codeModuleAddress
      <4>1. InPayload(2, currentModule) /\ currentModule = e + 2 + first
        BY <1>3
      <4> HIDE DEF e, first, second
      <4>2. currentModule \in Nat /\ currentModule + second < codeModuleAddress
        BY <1>0, <4>1
      <4> QED
        BY <4>1, <4>2 DEF second
    <3> QED
      BY <1>1, <2>1, <3>1, Copied
  <2>3. Placed(1)'
    <3>1. \A k \in 1..first : codeModuleAddress + k - 1 \in Memory
                                /\ codeModuleAddress + k - 1 < dataModuleAddress
      BY <1>0 DEF Memory
    <3> QED
      BY <1>0, <1>1, <1>3, <2>2, <3>1 DEF Placed
  <2>4. loaded' = 2
    BY <1>1, <1>3
  <2> QED
    BY <1>1, <1>3, <2>2, <2>3, <2>4 DEF LoadInv, Loading
<1>4. /\ steps = <<"load", "clear", "run">> /\ moduleCount = 2
      /\ loaded \in {0, 1}
  BY <1>1 DEF LoadInv, Loading, Startup
<1> QED
  BY <1>1, <1>2, <1>3, <1>4 DEF LoadInv, Loading, Startup

\* Clearing memory outside the modules leaves them in their places.
LEMMA ClearingKeepsPlaced ==
  ASSUME LoadInv, Placed(1), Placed(2), modules' = modules, NEW where,
         mem' = memset(mem, where, 0),
         \A x \in where : x < codeModuleAddress
                          \/ x \in (codeModuleAddress + Len(modules[1]))..(dataModuleAddress - 1),
         where \subseteq Int
  PROVE  Placed(1)' /\ Placed(2)'
<1>0. /\ Len(modules[1]) \in Nat /\ Len(modules[2]) \in Nat /\ MemorySize \in Nat
      /\ codeModuleAddress \in Nat /\ dataModuleAddress \in Nat
      /\ codeModuleAddress + Len(modules[1]) <= dataModuleAddress
      /\ dataModuleAddress + Len(modules[2]) <= MemorySize
      /\ targets[1] = codeModuleAddress /\ targets[2] = dataModuleAddress
  BY PackedFacts DEF LoadInv
<1>1. \A x \in Memory : x \notin where => mem'[x] = mem[x]
  BY DEF memset
<1>2. \A k \in 1..Len(modules[1]) :
        codeModuleAddress + k - 1 \in Memory /\ codeModuleAddress + k - 1 \notin where
  BY <1>0 DEF Memory
<1>3. \A k \in 1..Len(modules[2]) :
        dataModuleAddress + k - 1 \in Memory /\ dataModuleAddress + k - 1 \notin where
  BY <1>0 DEF Memory
<1> QED
  BY <1>0, <1>1, <1>2, <1>3 DEF Placed

\* Every step of the start and of the readers keeps LoadInv.
LEMMA LoadingStep ==
  LoadInv /\ [LoaderNext]_loaderVars => LoadInv'
<1> SUFFICES ASSUME LoadInv, [LoaderNext]_loaderVars
             PROVE  LoadInv'
  OBVIOUS
<1>1. CASE ReadCount
  BY <1>1, ReadCountStep
<1>2. CASE LoadModule
  BY <1>2, LoadModuleStep
<1>3. CASE AllLoaded
  <2>1. /\ modules' = modules /\ mem' = mem /\ loaded = moduleCount
        /\ steps # <<>> /\ Head(steps) = "load" /\ steps' = Tail(steps)
    BY <1>3 DEF AllLoaded, AtStep
  <2>2. /\ steps = <<"load", "clear", "run">> /\ Placed(1) /\ Placed(2)
    BY <2>1 DEF LoadInv, Loading, Startup
  <2>3. steps' = <<"clear", "run">>
    BY <2>1, <2>2
  <2> QED
    BY <2>1, <2>2, <2>3 DEF LoadInv, Loading, Placed
<1>4. CASE ClearBSS
  <2>1. /\ modules' = modules /\ mem' = memset(mem, bss..(endOfKernel - 1), 0)
        /\ steps # <<>> /\ Head(steps) = "clear" /\ steps' = Tail(steps)
    BY <1>4 DEF ClearBSS, AtStep
  <2>2. steps = <<"clear", "run">> /\ Placed(1) /\ Placed(2)
    BY <2>1 DEF LoadInv, Loading, Startup
  <2>3. steps' = <<"run">>
    BY <2>1, <2>2
  <2>4. \A x \in bss..(endOfKernel - 1) : x < codeModuleAddress
    BY PackedFacts DEF LoadInv
  <2>5. bss..(endOfKernel - 1) \subseteq Int
    BY PackedFacts DEF LoadInv
  <2>6. Placed(1)' /\ Placed(2)'
    BY <2>1, <2>2, <2>4, <2>5, ClearingKeepsPlaced
  <2> QED
    BY <2>1, <2>3, <2>6 DEF LoadInv, Loading
<1>5. CASE Run
  <2>1. /\ modules' = modules /\ mem' = memset(mem, CodeBss, 0)
        /\ steps # <<>> /\ Head(steps) = "run" /\ steps' = Tail(steps)
    BY <1>5 DEF Run, AtStep
  <2>2. steps = <<"run">> /\ Placed(1) /\ Placed(2)
    BY <2>1 DEF LoadInv, Loading, Startup
  <2>3. steps' = <<>>
    BY <2>1, <2>2
  <2>4. CodeBss \subseteq (codeModuleAddress + Len(modules[1]))..(dataModuleAddress - 1)
    BY PackedFacts DEF LoadInv
  <2>5. CodeBss \subseteq Int
    BY PackedFacts DEF LoadInv
  <2>6. Placed(1)' /\ Placed(2)'
    BY <2>1, <2>2, <2>4, <2>5, ClearingKeepsPlaced
  <2> QED
    BY <2>1, <2>3, <2>6 DEF LoadInv, Loading
<1>6. CASE UNCHANGED <<modules, mem, start>>
  BY <1>6 DEF LoadInv, Loading, Placed, InPayload, start
<1>7. CASE Read
  BY <1>6, <1>7 DEF Read, FgetsBegin, FgetsChar, FgetsEnd
<1>8. CASE UNCHANGED loaderVars
  BY <1>6, <1>8 DEF loaderVars, start
<1> QED
  BY <1>1, <1>2, <1>3, <1>4, <1>5, <1>7, <1>8 DEF LoaderNext

\* When the shell runs, loadModules has put both modules in their places as they were
\* packed, whatever .bss and the code module's own memory cover.
THEOREM LoadsAsPacked == LoaderSpec => []LoadedAsPacked
<1>1. LoadInv => LoadedAsPacked
  <2> SUFFICES ASSUME LoadInv, steps = <<>>
               PROVE  Placed(1) /\ Placed(2)
    BY DEF LoadedAsPacked, Placed
  <2> QED
    BY DEF LoadInv, Loading, Startup
<1> QED
  BY LoadInitially, LoadingStep, <1>1, PTL DEF LoaderSpec

(***************************************************************************)
(* Loader: the lines of the text.                                           *)
(***************************************************************************)
\* What the assumptions say of the data module.
LEMMA TextFacts ==
  ASSUME modules \in Packed
  PROVE  /\ Text \in Seq(Nat) /\ Len(Text) \in Nat
         /\ Len(modules[2]) = Len(Text) + 1
         /\ \A k \in 1..Len(Text) : Text[k] = modules[2][k] /\ Text[k] \in 1..127
         /\ modules[2][Len(Text) + 1] = 0
         /\ Len(Text) > 0 => Text[Len(Text)] = Newline
<1> DEFINE data == modules[2]
<1>1. data \in Seq(Nat) /\ Len(data) \in Nat
  BY PackedFacts
<1>2. TextFile(data)
  BY LoaderAssumption
<1>3. Text = SubSeq(data, 1, Len(data) - 1)
  BY DEF Text
<1> HIDE DEF data
<1>4. Len(data) >= 1
  BY <1>1, <1>2 DEF TextFile
<1>5. /\ data[Len(data)] = 0
      /\ \A k \in 1..(Len(data) - 1) : data[k] \in 1..127
      /\ Len(data) > 1 => data[Len(data) - 1] = Newline
  BY <1>2 DEF TextFile, Last
<1>6. \A i \in 1..(Len(data) - 1) : data[i] \in Nat
  BY <1>1
<1>7. /\ Text \in Seq(Nat) /\ Len(Text) = Len(data) - 1
      /\ \A i \in 1..(Len(data) - 1) : Text[i] = data[i]
  <2> DEFINE m == Len(data) - 1
  <2>1. m \in Nat /\ 1 \in Int /\ m \in Int
    BY <1>1, <1>4
  <2>2. \A i \in 1..m : data[i] \in Nat
    BY <1>6
  <2>3. Text = SubSeq(data, 1, m)
    BY <1>3
  <2> HIDE DEF m
  <2>4. /\ Text \in Seq(Nat)
        /\ Len(Text) = IF 1 <= m THEN m - 1 + 1 ELSE 0
        /\ \A i \in 1..(m - 1 + 1) : Text[i] = data[1 + i - 1]
    <3>1. /\ SubSeq(data, 1, m) \in Seq(Nat)
          /\ Len(SubSeq(data, 1, m)) = IF 1 <= m THEN m - 1 + 1 ELSE 0
          /\ \A i \in 1..(m - 1 + 1) : SubSeq(data, 1, m)[i] = data[1 + i - 1]
      BY <2>1, <2>2, SubSeqProperties
    <3> QED
      BY <2>3, <3>1, Zenon
  <2>5. Len(Text) = m
    BY <2>1, <2>4
  <2>6. ASSUME NEW i \in 1..m
        PROVE  Text[i] = data[i]
    <3>1. i \in 1..(m - 1 + 1) /\ 1 + i - 1 = i
      BY <2>1
    <3> QED
      BY <2>4, <3>1, Zenon
  <2> QED
    BY <2>4, <2>5, <2>6 DEF m
<1>8. Len(data) = Len(Text) + 1 /\ Len(Text) = Len(data) - 1
  BY <1>1, <1>4, <1>7
<1>9. \A k \in 1..Len(Text) : Text[k] = data[k] /\ Text[k] \in 1..127
  BY <1>5, <1>7, <1>8, Zenon
<1>10. data[Len(Text) + 1] = 0
  BY <1>5, <1>8, Zenon
<1>11. Len(Text) \in Nat
  BY <1>7
<1>12. Len(Text) > 0 => Text[Len(Text)] = Newline
  BY <1>5, <1>8, <1>9, <1>11
<1> QED
  BY <1>7, <1>8, <1>9, <1>10, <1>11, <1>12 DEF data

\* The ends of lines are finitely many.
LEMMA EndsAreFinite ==
  ASSUME modules \in Packed
  PROVE  /\ Ended \subseteq 1..Len(Text) /\ IsFiniteSet(Ended) /\ Cardinality(Ended) \in Nat
         /\ \A p \in Nat : /\ IsFiniteSet({k \in Ended : k <= p})
                           /\ EndedBy(p) \in Nat /\ EndedBy(p) <= Cardinality(Ended)
<1>1. Len(Text) \in Nat
  BY TextFacts
<1>2. Ended \in SUBSET (1..Len(Text))
  BY DEF Ended
<1>3. IsFiniteSet(Ended) /\ Cardinality(Ended) \in Nat
  <2>1. IsFiniteSet(1..Len(Text))
    BY <1>1, FS_Interval
  <2> QED
    BY <1>2, <2>1, FS_Subset, FS_CardinalityType
<1>4. ASSUME NEW p \in Nat
      PROVE  /\ IsFiniteSet({k \in Ended : k <= p})
             /\ EndedBy(p) \in Nat /\ EndedBy(p) <= Cardinality(Ended)
  <2>1. {k \in Ended : k <= p} \in SUBSET Ended
    OBVIOUS
  <2> QED
    BY <1>3, <2>1, FS_Subset, FS_CardinalityType DEF EndedBy
<1> QED
  BY <1>2, <1>3, <1>4

\* Where no line ends, none more has ended.
LEMMA NoneEnded ==
  ASSUME modules \in Packed, NEW q \in Nat, NEW p \in Nat, q <= p,
         \A k \in Ended : ~(q < k /\ k <= p)
  PROVE  EndedBy(p) = EndedBy(q)
<1>1. \A k \in Ended : k \in Nat
  BY EndsAreFinite, TextFacts
<1>2. {k \in Ended : k <= p} = {k \in Ended : k <= q}
  BY <1>1
<1> QED
  BY <1>2 DEF EndedBy

\* One more has ended at the next end.
LEMMA NextEnd ==
  ASSUME modules \in Packed, NEW q \in {0} \cup Ended, NEW k \in Ended, q < k,
         \A i \in Ended : ~(q < i /\ i < k)
  PROVE  EndedBy(k) = EndedBy(q) + 1
<1>1. q \in Nat /\ \A i \in Ended : i \in Nat
  BY EndsAreFinite, TextFacts
<1> DEFINE before == {i \in Ended : i <= q}
<1>2. {i \in Ended : i <= k} = before \cup {k}
  BY <1>1
<1>3. k \notin before /\ IsFiniteSet(before)
  BY <1>1, EndsAreFinite
<1> HIDE DEF before
<1>4. Cardinality(before \cup {k}) = Cardinality(before) + 1
  BY <1>3, FS_AddElement
<1> QED
  BY <1>2, <1>4 DEF EndedBy, before

\* Of two ends the later one counts more.
LEMMA EndsAreCounted ==
  ASSUME modules \in Packed, NEW k \in Ended, NEW i \in Ended, i < k
  PROVE  EndedBy(i) < EndedBy(k)
<1>1. \A l \in Ended : l \in Nat
  BY EndsAreFinite, TextFacts
<1> DEFINE before == {l \in Ended : l <= i}
           all == {l \in Ended : l <= k}
<1>2. before \in SUBSET all /\ k \in all /\ k \notin before
  BY <1>1
<1>3. IsFiniteSet(all) /\ EndedBy(i) \in Nat /\ EndedBy(k) \in Nat
  BY <1>1, EndsAreFinite
<1>4. EndedBy(i) = Cardinality(before) /\ EndedBy(k) = Cardinality(all)
  BY DEF EndedBy
<1> HIDE DEF before, all
<1>5. Cardinality(before) <= Cardinality(all) /\ Cardinality(before) # Cardinality(all)
  BY <1>2, <1>3, FS_Subset
<1> QED
  BY <1>3, <1>4, <1>5

\* The place of an end among the ends determines it.
LEMMA LineEndIs ==
  ASSUME modules \in Packed
  PROVE  /\ EndedBy(0) = 0 /\ LineEnd(0) = 0
         /\ \A k \in Ended : EndedBy(k) >= 1 /\ LineEnd(EndedBy(k)) = k
<1>1. EndedBy(0) = 0
  <2>1. {k \in Ended : k <= 0} = {}
    BY EndsAreFinite, TextFacts
  <2> QED
    BY <2>1, FS_EmptySet DEF EndedBy
<1>2. ASSUME NEW k \in Ended
      PROVE  EndedBy(k) >= 1 /\ LineEnd(EndedBy(k)) = k
  <2>0. \A i \in Ended : i \in Nat
    BY EndsAreFinite, TextFacts
  <2>1. k \in Nat /\ EndedBy(k) \in Nat /\ \A i \in Ended : i \in Nat /\ EndedBy(i) \in Nat
    BY <2>0, EndsAreFinite, Zenon
  <2>2. EndedBy(k) # 0
    <3>1. k \in {i \in Ended : i <= k} /\ IsFiniteSet({i \in Ended : i <= k})
      BY <2>1, EndsAreFinite
    <3> QED
      BY <3>1, FS_EmptySet DEF EndedBy
  <2>3. \A i \in Ended : EndedBy(i) = EndedBy(k) => i = k
    <3> TAKE i \in Ended
    <3>1. i < k => EndedBy(i) < EndedBy(k)
      BY EndsAreCounted
    <3>2. k < i => EndedBy(k) < EndedBy(i)
      BY EndsAreCounted
    <3> QED
      BY <2>1, <3>1, <3>2
  <2>4. LineEnd(EndedBy(k)) = CHOOSE i \in Ended : EndedBy(i) = EndedBy(k)
    BY <2>2 DEF LineEnd
  <2> DEFINE found == CHOOSE i \in Ended : EndedBy(i) = EndedBy(k)
  <2>5. found \in Ended /\ EndedBy(found) = EndedBy(k)
    BY Zenon
  <2> QED
    BY <2>1, <2>2, <2>3, <2>4, <2>5
<1> QED
  BY <1>1, <1>2 DEF LineEnd

\* A line lies between two ends that follow one another.
LEMMA LineBetween ==
  ASSUME modules \in Packed, NEW q \in {0} \cup Ended, NEW k \in Ended, q < k,
         \A i \in Ended : ~(q < i /\ i < k)
  PROVE  /\ EndedBy(k) = EndedBy(q) + 1
         /\ EndedBy(k) \in 1..Cardinality(Ended)
         /\ LinesOfText[EndedBy(k)] = SubSeq(Text, q + 1, k - 1)
<1>1. /\ k \in Nat /\ q \in Nat /\ EndedBy(k) \in Nat /\ EndedBy(q) \in Nat
      /\ Cardinality(Ended) \in Nat /\ EndedBy(k) <= Cardinality(Ended)
  <2>1. k \in Nat /\ q \in Nat
    BY EndsAreFinite, TextFacts
  <2> QED
    BY <2>1, EndsAreFinite, Zenon
<1>2. EndedBy(k) = EndedBy(q) + 1
  BY NextEnd
<1>3. EndedBy(k) \in 1..Cardinality(Ended) /\ EndedBy(k) - 1 = EndedBy(q)
  BY <1>1, <1>2
<1>4. LineEnd(EndedBy(k)) = k /\ LineEnd(EndedBy(q)) = q
  BY LineEndIs
<1> QED
  BY <1>2, <1>3, <1>4, Zenon DEF LinesOfText

\* A text that does not end here has a next end.
LEMMA NextEndExists ==
  ASSUME modules \in Packed, NEW p \in 0..(Len(Text) - 1)
  PROVE  \E k \in Ended : p < k /\ \A i \in Ended : ~(p < i /\ i < k)
<1>1. /\ Len(Text) \in Nat /\ p \in Nat /\ \A k \in Ended : k \in Nat
      /\ Len(Text) \in Ended /\ p < Len(Text)
  BY EndsAreFinite, TextFacts DEF Ended
<1> DEFINE S == {k \in Ended : p < k}
<1>2. S \subseteq Nat /\ S # {}
  BY <1>1
<1>3. PICK k \in S : \A i \in S : ~(<<i, k>> \in OpToRel(<, Nat))
  BY <1>2, NatLessThanWellFounded, WFMin
<1>4. \A i \in Ended : p < i /\ i < k => <<i, k>> \in OpToRel(<, Nat)
  <2>1. k \in Nat
    BY <1>2
  <2> QED
    BY <1>1, <2>1, Zenon DEF OpToRel
<1> QED
  BY <1>3, <1>4

\* The lines, in whatever set they lie.
LEMMA LinesAreSeq ==
  ASSUME modules \in Packed
  PROVE  \E S : LinesOfText \in Seq(S) /\ Len(LinesOfText) = Cardinality(Ended)
<1>1. Cardinality(Ended) \in Nat
  BY EndsAreFinite
<1> DEFINE S == {LinesOfText[j] : j \in 1..Cardinality(Ended)}
<1>2. LinesOfText \in [1..Cardinality(Ended) -> S]
  BY Zenon DEF LinesOfText
<1> HIDE DEF S
<1>3. LinesOfText \in Seq(S)
  BY <1>1, <1>2
<1>4. Len(LinesOfText) = Cardinality(Ended)
  BY <1>1, <1>2, <1>3
<1> QED
  BY <1>3, <1>4, Zenon

(***************************************************************************)
(* Loader: reading.                                                         *)
(***************************************************************************)
\* No line is longer than what any program asks for.
Fits ==
  \A j \in 1..Len(LinesOfText), size \in Sizes : Len(LinesOfText[j]) <= size

\* The reader is in the line that begins behind q, and has returned those before it.
ReadFrom(q) ==
  /\ q <= read_index
  /\ str = SubSeq(Text, q + 1, read_index)
  /\ \A k \in Ended : ~(q < k /\ k <= read_index)
  /\ lines = SubSeq(LinesOfText, 1, EndedBy(read_index))

\* A reader is in some line, if the lines fit; nothing is read before the shell runs.
Reading ==
  /\ read_index \in 0..Len(Text)
  /\ n \in Sizes \cup {0}
  /\ steps # <<>> => n = 0
  /\ n = 0 => str = <<>>
  /\ Fits => \E q \in {0} \cup Ended : ReadFrom(q)

ReadInv == LoadInv /\ Reading

\* Nothing is read.
LEMMA ReadInitially ==
  LoaderInit => ReadInv
<1> SUFFICES ASSUME LoaderInit
             PROVE  Reading
  BY LoadInitially DEF ReadInv
<1>1. modules \in Packed
  BY DEF LoaderInit
<1>2. read_index = 0 /\ str = <<>> /\ lines = <<>> /\ n = 0
  BY DEF LoaderInit
<1>3. SubSeq(Text, 0 + 1, 0) = <<>> /\ SubSeq(LinesOfText, 1, 0) = <<>>
  BY SubSeqEmpty
<1>4. ReadFrom(0)
  <2>1. \A k \in Ended : ~(0 < k /\ k <= 0)
    BY <1>1, EndsAreFinite, TextFacts
  <2>2. EndedBy(0) = 0
    BY <1>1, LineEndIs
  <2> QED
    BY <1>2, <1>3, <2>1, <2>2 DEF ReadFrom
<1> QED
  BY <1>1, <1>2, <1>4, TextFacts DEF Reading

\* No character of a text is taken for its end.
LEMMA NoEndInText ==
  ASSUME NEW c \in 1..127
  PROVE  c # 0 /\ c # EOF
BY DEF EOF

\* What read_stddata finds: the character at the index, or the 0 behind the text.
LEMMA CharIs ==
  ASSUME LoadInv, steps = <<>>, read_index \in 0..Len(Text)
  PROVE  /\ read_index < Len(Text) =>
              /\ Char = Text[read_index + 1] /\ Char # EOF
              /\ NextIndex = read_index + 1
              /\ Char = Newline <=> read_index + 1 \in Ended
         /\ read_index = Len(Text) => Char = EOF /\ NextIndex = 0
<1>1. modules \in Packed /\ Placed(2)
  BY DEF LoadInv, Loading, Startup
<1>2. /\ Len(Text) \in Nat /\ Len(modules[2]) = Len(Text) + 1
      /\ \A k \in 1..Len(Text) : Text[k] = modules[2][k] /\ Text[k] \in 1..127
      /\ modules[2][Len(Text) + 1] = 0
      /\ targets[2] = dataModuleAddress /\ dataModuleAddress \in Nat
  BY <1>1, TextFacts, PackedFacts
<1>3. Stddata = modules[2][read_index + 1]
  <2>1. read_index + 1 \in 1..Len(modules[2])
    BY <1>2
  <2>2. mem[dataModuleAddress + (read_index + 1) - 1] = modules[2][read_index + 1]
    BY <1>1, <1>2, <2>1 DEF Placed
  <2>3. dataModuleAddress + (read_index + 1) - 1 = dataModuleAddress + read_index
    BY <1>2
  <2> QED
    BY <2>2, <2>3 DEF Stddata
<1>4. CASE read_index < Len(Text)
  <2>1. read_index + 1 \in 1..Len(Text)
    BY <1>2, <1>4
  <2>2. Stddata = Text[read_index + 1] /\ Stddata \in 1..127
    BY <1>2, <1>3, <2>1
  <2>3. Char = Text[read_index + 1] /\ Char # EOF /\ NextIndex = read_index + 1
    <3>1. Stddata # 0 /\ Stddata # EOF
      BY <2>2, NoEndInText, Zenon
    <3> QED
      BY <2>2, <3>1, Zenon DEF Char, NextIndex
  <2>4. Char = Newline <=> read_index + 1 \in Ended
    BY <2>1, <2>3 DEF Ended
  <2>5. read_index # Len(Text)
    BY <1>2, <1>4
  <2> QED
    BY <2>3, <2>4, <2>5
<1>5. CASE read_index = Len(Text)
  <2>1. Stddata = 0
    BY <1>2, <1>3, <1>5
  <2>2. ~(read_index < Len(Text))
    BY <1>2, <1>5
  <2> QED
    BY <2>1, <2>2 DEF Char, NextIndex
<1>6. read_index < Len(Text) \/ read_index = Len(Text)
  BY <1>2
<1> QED
  BY <1>4, <1>5, <1>6

\* The kernel's start, before anything reads.
LEMMA StartStep ==
  ASSUME ReadInv, steps # <<>> \/ steps' = steps, modules' = modules, UNCHANGED reading
  PROVE  Reading'
<1>1. /\ read_index' = read_index /\ n' = n /\ str' = str /\ lines' = lines
  BY DEF reading
<1>2. Text' = Text /\ Ended' = Ended /\ LinesOfText' = LinesOfText
  BY DEF Text, Ended, LinesOfText, EndedBy, LineEnd
<1>3. /\ read_index \in 0..Len(Text) /\ n \in Sizes \cup {0} /\ (steps # <<>> => n = 0)
      /\ n = 0 => str = <<>>
      /\ Fits => \E q \in {0} \cup Ended : ReadFrom(q)
  BY DEF ReadInv, Reading
<1>4. (Fits' <=> Fits) /\ EndedBy(read_index)' = EndedBy(read_index)
  BY <1>1, <1>2 DEF Fits, EndedBy
<1>5. \A q : ReadFrom(q)' <=> ReadFrom(q)
  BY <1>1, <1>2, <1>4, Zenon DEF ReadFrom
<1>6. steps' # <<>> => n' = 0
  BY <1>1, <1>3
<1> QED
  BY <1>1, <1>2, <1>3, <1>4, <1>5, <1>6, Zenon DEF Reading

\* What lies in the lines stays while the reader moves.
LEMMA SameText ==
  ASSUME modules' = modules
  PROVE  /\ Text' = Text /\ Ended' = Ended /\ LinesOfText' = LinesOfText
         /\ Fits' <=> Fits
         /\ EndedBy(read_index)' = EndedBy(read_index')
<1>1. Text' = Text /\ Ended' = Ended /\ LinesOfText' = LinesOfText
  BY DEF Text, Ended, LinesOfText, EndedBy, LineEnd
<1> QED
  BY <1>1 DEF Fits, EndedBy

\* fgets begins with an empty string.
LEMMA BeginStep ==
  ASSUME ReadInv, NEW size \in Sizes, FgetsBegin(size)
  PROVE  Reading'
<1>1. /\ modules' = modules /\ steps = <<>> /\ steps' = steps /\ n = 0 /\ n' = size
      /\ str' = <<>> /\ read_index' = read_index /\ lines' = lines
  BY DEF FgetsBegin, start
<1>2. /\ read_index \in 0..Len(Text) /\ (n = 0 => str = <<>>)
      /\ Fits => \E q \in {0} \cup Ended : ReadFrom(q)
  BY DEF ReadInv, Reading
<1>3. size # 0
  BY LoaderAssumption
<1>4. str' = str
  BY <1>1, <1>2
<1>5. \A q : ReadFrom(q)' <=> ReadFrom(q)
  BY <1>1, <1>4, SameText, Zenon DEF ReadFrom
<1> QED
  BY <1>1, <1>2, <1>3, <1>5, SameText, Zenon DEF Reading

\* A sequence and the element behind it.
LEMMA OneMore ==
  ASSUME NEW S, NEW s \in Seq(S), NEW q \in Nat, NEW p \in Nat, q <= p, p < Len(s)
  PROVE  SubSeq(s, q + 1, p + 1) = Append(SubSeq(s, q + 1, p), s[p + 1])
<1>1. /\ Len(s) \in Nat /\ q + 1 \in 1..Len(s) /\ p + 1 \in (q + 1)..Len(s)
      /\ p + 1 - 1 = p /\ p + 1 \in 1..Len(s) /\ q + 1 \in Int /\ p \in Int
  OBVIOUS
<1>2. SubSeq(s, q + 1, p + 1) = SubSeq(s, q + 1, p) \o <<s[p + 1]>>
  <2>1. SubSeq(s, q + 1, p + 1) = SubSeq(s, q + 1, p + 1 - 1) \o <<s[p + 1]>>
    BY <1>1, SubSeqRecursiveSecond
  <2> QED
    BY <1>1, <2>1, Zenon
<1>3. \A i \in (q + 1)..p : s[i] \in S
  BY <1>1
<1>4. SubSeq(s, q + 1, p) \in Seq(S)
  BY <1>1, <1>3, SubSeqProperties
<1>5. s[p + 1] \in S
  BY <1>1
<1> QED
  BY <1>2, <1>4, <1>5, AppendIsConcat, Zenon

\* A character of the line.
LEMMA CharStep ==
  ASSUME ReadInv, FgetsChar
  PROVE  Reading'
<1> DEFINE p == read_index
<1>1. /\ modules' = modules /\ steps' = steps /\ n # 0 /\ n' = n /\ lines' = lines
      /\ str' = Append(str, Char) /\ read_index' = NextIndex
      /\ Char # EOF /\ Char # Newline
  <2>1. n > 0 => n # 0
    OBVIOUS
  <2> QED
    BY <2>1, Zenon DEF FgetsChar, Ends, start
<1>2. /\ p \in 0..Len(Text) /\ n \in Sizes \cup {0} /\ steps = <<>>
      /\ Fits => \E q \in {0} \cup Ended : ReadFrom(q)
  BY <1>1 DEF ReadInv, Reading
<1>3. LoadInv /\ modules \in Packed
  BY DEF ReadInv, LoadInv
<1>4. /\ Text \in Seq(Nat) /\ Len(Text) \in Nat
      /\ \A k \in Ended : k \in Nat
      /\ p \in Nat /\ p + 1 \in Nat
  BY <1>2, <1>3, TextFacts, EndsAreFinite
<1>5. p < Len(Text) \/ p = Len(Text)
  BY <1>2, <1>4
<1>6. /\ p < Len(Text) /\ Char = Text[p + 1] /\ read_index' = p + 1 /\ p + 1 \notin Ended
  BY <1>1, <1>2, <1>3, <1>5, CharIs, Zenon
<1>7. read_index' \in 0..Len(Text')
  BY <1>1, <1>4, <1>6, SameText
<1>8. ASSUME NEW q \in {0} \cup Ended, ReadFrom(q)
      PROVE  ReadFrom(q)'
  <2>1. /\ q <= p /\ str = SubSeq(Text, q + 1, p)
        /\ \A k \in Ended : ~(q < k /\ k <= p)
        /\ lines = SubSeq(LinesOfText, 1, EndedBy(p))
    BY <1>8 DEF ReadFrom
  <2>2. q \in Nat
    BY <1>4
  <2>3. str' = SubSeq(Text, q + 1, p + 1)
    BY <1>1, <1>4, <1>6, <2>1, <2>2, OneMore
  <2>4. \A k \in Ended : ~(q < k /\ k <= p + 1)
    BY <1>4, <1>6, <2>1, <2>2
  <2>5. EndedBy(p + 1) = EndedBy(p)
    <3>1. \A k \in Ended : ~(p < k /\ k <= p + 1)
      BY <1>4, <1>6
    <3>2. p <= p + 1
      BY <1>4
    <3> QED
      BY <1>3, <1>4, <3>1, <3>2, NoneEnded
  <2>6. q <= p + 1
    BY <1>4, <2>1, <2>2
  <2> QED
    BY <1>1, <1>6, <2>1, <2>3, <2>4, <2>5, <2>6, SameText, Zenon DEF ReadFrom
<1> QED
  BY <1>1, <1>2, <1>7, <1>8, SameText, Zenon DEF Reading

\* The end of a line, of a text, or of what was asked for; the last only where the
\* line has ended too.
LEMMA EndStep ==
  ASSUME ReadInv, FgetsEnd
  PROVE  Reading'
<1> DEFINE p == read_index
<1>1. /\ modules' = modules /\ steps' = steps /\ n # 0 /\ n' = 0
      /\ str' = <<>> /\ read_index' = NextIndex
      /\ lines' = IF Char = EOF /\ str = <<>> THEN <<>> ELSE Append(lines, str)
      /\ Char = EOF \/ Char = Newline \/ Len(str) = n
  <2>1. n > 0 => n # 0
    OBVIOUS
  <2> QED
    BY <2>1, Zenon DEF FgetsEnd, Ends, start
<1>2. /\ p \in 0..Len(Text) /\ n \in Sizes \cup {0} /\ steps = <<>>
      /\ Fits => \E q \in {0} \cup Ended : ReadFrom(q)
  BY <1>1 DEF ReadInv, Reading
<1>3. LoadInv /\ modules \in Packed
  BY DEF ReadInv, LoadInv
<1>4. /\ Text \in Seq(Nat) /\ Len(Text) \in Nat
      /\ \A k \in Ended : k \in Nat
      /\ p \in Nat /\ p + 1 \in Nat
  BY <1>2, <1>3, TextFacts, EndsAreFinite
<1>5. p < Len(Text) \/ p = Len(Text)
  BY <1>2, <1>4
<1>6. read_index' \in 0..Len(Text)
  <2>1. (read_index' = p + 1 /\ p < Len(Text)) \/ read_index' = 0
    BY <1>1, <1>2, <1>3, <1>5, CharIs, Zenon
  <2> QED
    BY <1>4, <2>1
<1>7. ASSUME NEW q \in {0} \cup Ended, ReadFrom(q), Fits
      PROVE  \E r \in {0} \cup Ended : ReadFrom(r)'
  <2>1. /\ q <= p /\ str = SubSeq(Text, q + 1, p)
        /\ \A k \in Ended : ~(q < k /\ k <= p)
        /\ lines = SubSeq(LinesOfText, 1, EndedBy(p))
    BY <1>7 DEF ReadFrom
  <2>2. q \in Nat
    BY <1>4
  <2>3. Len(str) = p - q
    <3>1. \A i \in (q + 1)..p : Text[i] \in Nat
      BY <1>2, <1>4, <2>2
    <3>2. Len(SubSeq(Text, q + 1, p)) = IF q + 1 <= p THEN p - (q + 1) + 1 ELSE 0
      BY <1>4, <2>2, <3>1, SubSeqProperties
    <3> QED
      BY <1>4, <2>1, <2>2, <3>2
  <2>4. EndedBy(p) = EndedBy(q)
    BY <1>3, <1>4, <2>1, <2>2, NoneEnded
  \* fgets returns NULL: the text ends with a newline, so no line is open.
  <2>5. CASE p = Len(Text)
    <3>1. Char = EOF /\ read_index' = 0
      BY <1>1, <1>2, <1>3, <2>5, CharIs, Zenon
    <3>2. q = p
      <4>1. p > 0 => p \in Ended
        BY <1>3, <1>4, <2>5, TextFacts DEF Ended
      <4> QED
        BY <1>4, <2>1, <2>2, <4>1
    <3>3. str = <<>>
      BY <1>4, <2>1, <3>2, SubSeqEmpty
    <3>4. ReadFrom(0)'
      <4>1. 0 <= 0 /\ \A k \in Ended : ~(0 < k /\ k <= 0)
        BY <1>4
      <4>2. SubSeq(Text, 0 + 1, 0) = <<>> /\ SubSeq(LinesOfText, 1, 0) = <<>>
        BY SubSeqEmpty
      <4>3. EndedBy(0) = 0
        BY <1>3, LineEndIs
      <4>4. lines' = <<>>
        BY <1>1, <3>1, <3>3
      <4> QED
        BY <1>1, <3>1, <4>1, <4>2, <4>3, <4>4, SameText, Zenon DEF ReadFrom
    <3> QED
      BY <3>4
  \* A newline: the line is the next one.
  <2>6. CASE p < Len(Text) /\ Char = Newline
    <3>1. p + 1 \in Ended /\ read_index' = p + 1 /\ Char # EOF
      BY <1>1, <1>2, <1>3, <2>6, CharIs, Zenon
    <3>2. PICK r \in Ended : r = p + 1
      BY <3>1
    <3>3. /\ EndedBy(r) = EndedBy(q) + 1
          /\ EndedBy(r) \in 1..Cardinality(Ended)
          /\ LinesOfText[EndedBy(r)] = SubSeq(Text, q + 1, r - 1)
      <4>1. q < r /\ \A i \in Ended : ~(q < i /\ i < r)
        BY <1>4, <2>1, <2>2, <3>2
      <4> QED
        BY <1>3, <4>1, LineBetween
    <3>4. str = LinesOfText[EndedBy(p) + 1]
      <4>1. r - 1 = p
        BY <1>4, <3>2
      <4> QED
        BY <2>1, <2>4, <3>3, <4>1, Zenon
    <3>5. lines' = Append(lines, str)
      BY <1>1, <3>1
    <3>6. SubSeq(LinesOfText, 1, EndedBy(p) + 1)
            = Append(SubSeq(LinesOfText, 1, EndedBy(p)), LinesOfText[EndedBy(p) + 1])
      <4>1. PICK S : LinesOfText \in Seq(S) /\ Len(LinesOfText) = Cardinality(Ended)
        BY <1>3, LinesAreSeq, Zenon
      <4>2. EndedBy(p) \in Nat /\ Cardinality(Ended) \in Nat
        BY <1>3, <1>4, EndsAreFinite
      <4> DEFINE j == EndedBy(p)
      <4>3. j \in Nat /\ 0 \in Nat /\ 0 <= j /\ j < Cardinality(Ended) /\ 0 + 1 = 1
        BY <2>4, <3>3, <4>2
      <4> HIDE DEF j
      <4>4. j < Len(LinesOfText)
        BY <4>1, <4>3, Zenon
      <4>5. SubSeq(LinesOfText, 0 + 1, j + 1)
              = Append(SubSeq(LinesOfText, 0 + 1, j), LinesOfText[j + 1])
        BY <4>1, <4>3, <4>4, OneMore
      <4> QED
        BY <4>3, <4>5, Zenon DEF j
    <3>7. lines' = SubSeq(LinesOfText, 1, EndedBy(r))
      BY <2>1, <2>4, <3>3, <3>4, <3>5, <3>6, Zenon
    <3>8. SubSeq(Text, r + 1, r) = <<>> /\ r <= r /\ \A k \in Ended : ~(r < k /\ k <= r)
      BY <1>4, SubSeqEmpty
    <3>9. read_index' = r
      BY <3>1, <3>2
    <3> QED
      BY <1>1, <3>7, <3>8, <3>9, SameText, Zenon DEF ReadFrom
  \* The line would be longer than what was asked for.
  <2>7. CASE p < Len(Text) /\ Char # Newline
    <3>1. Len(str) = n /\ n \in Sizes /\ p + 1 \notin Ended
      BY <1>1, <1>2, <1>3, <2>7, CharIs, Zenon
    <3>2. PICK k \in Ended : p < k /\ \A i \in Ended : ~(p < i /\ i < k)
      <4>1. p \in 0..(Len(Text) - 1)
        BY <1>4, <2>7
      <4> QED
        BY <1>3, <4>1, NextEndExists
    <3>3. k \in 1..Len(Text) /\ k # p + 1
      BY <1>3, <3>1, EndsAreFinite
    <3>4. /\ EndedBy(k) \in 1..Cardinality(Ended)
          /\ LinesOfText[EndedBy(k)] = SubSeq(Text, q + 1, k - 1)
      <4>1. q < k /\ \A i \in Ended : ~(q < i /\ i < k)
        BY <1>4, <2>1, <2>2, <3>2
      <4> QED
        BY <1>3, <4>1, LineBetween
    <3>5. Len(LinesOfText[EndedBy(k)]) <= n
      <4>1. Len(LinesOfText) = Cardinality(Ended)
        BY <1>3, LinesAreSeq, Zenon
      <4> QED
        BY <1>7, <3>1, <3>4, <4>1, Zenon DEF Fits
    <3>6. Len(SubSeq(Text, q + 1, k - 1)) = k - 1 - q
      <4>1. q + 1 <= k - 1 /\ k - 1 \in Int /\ q + 1 \in Int
        BY <1>4, <2>1, <2>2, <3>2, <3>3
      <4>2. \A i \in (q + 1)..(k - 1) : Text[i] \in Nat
        BY <1>4, <2>2, <3>3
      <4>3. Len(SubSeq(Text, q + 1, k - 1))
              = IF q + 1 <= k - 1 THEN (k - 1) - (q + 1) + 1 ELSE 0
        BY <4>1, <4>2, SubSeqProperties
      <4> QED
        BY <1>4, <2>2, <4>1, <4>3
    <3>7. k - 1 - q <= p - q
      BY <2>3, <3>1, <3>4, <3>5, <3>6
    <3>8. FALSE
      BY <1>4, <2>2, <3>2, <3>3, <3>7
    <3> QED
      BY <3>8
  <2> QED
    BY <1>5, <2>5, <2>6, <2>7
<1>8. Fits => \E q \in {0} \cup Ended : ReadFrom(q)'
  BY <1>2, <1>7
<1> QED
  BY <1>1, <1>2, <1>6, <1>8, SameText, Zenon DEF Reading

\* Every step keeps ReadInv.
LEMMA ReadStep ==
  ReadInv /\ [LoaderNext]_loaderVars => ReadInv'
<1> SUFFICES ASSUME ReadInv, [LoaderNext]_loaderVars
             PROVE  Reading'
  BY LoadingStep DEF ReadInv
<1>1. CASE ReadCount \/ LoadModule \/ AllLoaded \/ ClearBSS \/ Run
  BY <1>1, StartStep DEF ReadCount, LoadModule, AllLoaded, ClearBSS, Run, AtStep
<1>2. ASSUME NEW size \in Sizes, FgetsBegin(size)
      PROVE  Reading'
  BY <1>2, BeginStep
<1>3. CASE FgetsChar
  BY <1>3, CharStep
<1>4. CASE FgetsEnd
  BY <1>4, EndStep
<1>5. CASE UNCHANGED loaderVars
  BY <1>5, StartStep DEF loaderVars, reading
<1> QED
  BY <1>1, <1>2, <1>3, <1>4, <1>5, Zenon DEF LoaderNext, Read

\* A prefix, as far as any place in a sequence.
LEMMA PrefixUpTo ==
  ASSUME NEW S, NEW s \in Seq(S), NEW j \in 0..Len(s)
  PROVE  IsPrefix(SubSeq(s, 1, j), s)
<1>1. Len(s) \in Nat /\ j \in Nat /\ j <= Len(s)
  OBVIOUS
<1> DEFINE t == SubSeq(s, 1, j)
<1>2. t \in Seq(S) /\ Len(t) = j
  BY <1>1, SubSeqProperties
<1>3. SubSeq(t, 1, Len(t)) = t
  BY <1>2, SubSeqFull
<1> QED
  BY <1>1, <1>2, <1>3 DEF IsPrefix

\* fgets on the data module returns the lines that were packed, each once and in order,
\* however many programs read with whatever lengths, if no line is too long for them.
THEOREM ReadsAsPacked == LoaderSpec => []LinesArePacked
<1>1. ReadInv => LinesArePacked
  <2> SUFFICES ASSUME ReadInv, Fits
               PROVE  IsPrefix(lines, LinesOfText)
    BY DEF LinesArePacked, Fits
  <2>1. modules \in Packed /\ read_index \in 0..Len(Text)
    BY DEF ReadInv, LoadInv, Reading
  <2>2. lines = SubSeq(LinesOfText, 1, EndedBy(read_index))
    BY DEF ReadInv, Reading, ReadFrom
  <2>3. PICK S : LinesOfText \in Seq(S) /\ Len(LinesOfText) = Cardinality(Ended)
    BY <2>1, LinesAreSeq, Zenon
  <2>4. EndedBy(read_index) \in 0..Cardinality(Ended)
    <3>1. read_index \in Nat
      BY <2>1
    <3>2. /\ EndedBy(read_index) \in Nat /\ Cardinality(Ended) \in Nat
          /\ EndedBy(read_index) <= Cardinality(Ended)
      BY <2>1, <3>1, EndsAreFinite
    <3> QED
      BY <3>2
  <2> QED
    BY <2>2, <2>3, <2>4, PrefixUpTo
<1> QED
  BY ReadInitially, ReadStep, <1>1, PTL DEF LoaderSpec
=============================================================================
