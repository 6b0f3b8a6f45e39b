--------------------------- MODULE TerminalProofs ---------------------------
(***************************************************************************)
(* video.c under the shell, for a screen of any size, any texts and any     *)
(* commands: the cursor stays on the screen, nothing stands behind it, the  *)
(* line that is typed stands before it, and the clock keeps to its corner.  *)
(***************************************************************************)
EXTENDS Terminal, NaturalsInduction, WellFoundedInduction, TLAPS

\* A set of numbers up to m has a last one.
LEMMA LastExists ==
  ASSUME NEW m \in Nat, NEW S, S \subseteq 0..m, S # {}
  PROVE  \E i \in S : \A j \in S : i >= j
<1> DEFINE T == {m - i : i \in S}
<1>1. T \subseteq Nat /\ T # {}
  <2>1. \A i \in S : m - i \in Nat
    OBVIOUS
  <2> QED
    BY <2>1
<1>2. PICK t \in T : \A u \in T : ~(<<u, t>> \in OpToRel(<, Nat))
  BY <1>1, NatLessThanWellFounded, WFMin
<1>3. PICK i \in S : t = m - i
  OBVIOUS
<1>4. ASSUME NEW j \in S
      PROVE  i >= j
  <2>1. m - j \in T /\ m - j \in Nat /\ t \in Nat
    BY <1>1
  <2>2. ~(m - j < t)
    <3>1. m - j < t => <<m - j, t>> \in OpToRel(<, Nat)
      BY <2>1, Zenon DEF OpToRel
    <3> QED
      BY <1>2, <2>1, <3>1
  <2>3. i \in Int /\ j \in Int
    OBVIOUS
  <2> QED
    BY <1>3, <2>1, <2>2, <2>3
<1> QED
  BY <1>4

\* A quotient and its remainder make up the number.
LEMMA Quotient ==
  ASSUME NEW a \in Nat, NEW p \in Nat \ {0}
  PROVE  a \div p \in Nat /\ a % p \in 0..(p - 1) /\ a = p * (a \div p) + (a % p)
OBVIOUS

\* Multiples of p lie p apart.
LEMMA Multiples ==
  ASSUME NEW p \in Nat \ {0}, NEW m \in Nat, NEW n \in Nat, m < n
  PROVE  p * m + p <= p * n
<1>1. PICK d \in Nat : n = m + 1 + d
  <2>1. n - m - 1 \in Nat /\ n = m + 1 + (n - m - 1)
    OBVIOUS
  <2> QED
    BY <2>1
<1>2. p * n = p * m + p + p * d
  BY <1>1
<1>3. p * d \in Nat /\ p * m \in Nat
  OBVIOUS
<1> QED
  BY <1>2, <1>3

Consoles == [video : [Cells -> Printable], loc : Cells]

Clean(c) == \A i \in Cells \ StatusLine : i >= c.loc => c.video[i] = Blank

\* The name as far as it is typed has only letters.
NameTyped == phase = "name" => \A p \in 0..(current_pos - 1) : buffer[p] \in Letters

IInv == TypeOK /\ NameTyped /\ NothingAhead

(***************************************************************************)
(* Places on the screen.                                                   *)
(***************************************************************************)
\* The status line and one row more fit the screen.
LEMMA Screen ==
  /\ ROWS \in Nat /\ COLS \in Nat \ {0}
  /\ SCREENSIZE \in Nat /\ 2 * COLS < SCREENSIZE
<1>1. ROWS \in Nat /\ ROWS > 2 /\ COLS \in Nat /\ COLS > 0
  BY ConsoleAssumption
<1>2. SCREENSIZE \in Nat /\ SCREENSIZE = COLS * ROWS
  BY <1>1 DEF SCREENSIZE
<1>3. COLS * 2 + COLS <= COLS * ROWS
  BY <1>1, Multiples
<1> QED
  BY <1>1, <1>2, <1>3

\* A newline goes to the next row, or just past the last.
LEMMA NextRow ==
  ASSUME NEW loc \in Cells
  PROVE  COLS - (loc % COLS) \in 1..COLS /\ loc + (COLS - (loc % COLS)) <= SCREENSIZE
<1> DEFINE q == loc \div COLS
           s == loc % COLS
<1>0. COLS \in Nat \ {0} /\ ROWS \in Nat /\ SCREENSIZE \in Nat
      /\ loc \in Nat /\ loc < SCREENSIZE
  BY Screen DEF Cells
<1>1. q \in Nat /\ s \in 0..(COLS - 1) /\ loc = COLS * q + s
  BY <1>0, Quotient
<1> HIDE DEF q, s
<1>2. SCREENSIZE = COLS * ROWS /\ COLS * q \in Nat /\ COLS * ROWS \in Nat
  BY <1>0, <1>1 DEF SCREENSIZE
<1>3. q < ROWS
  <2>1. CASE q = ROWS
    BY <1>0, <1>1, <1>2, <2>1
  <2>2. CASE ROWS < q
    <3>1. COLS * ROWS + COLS <= COLS * q
      BY <1>0, <1>1, <2>2, Multiples
    <3> QED
      BY <1>0, <1>1, <1>2, <3>1
  <2> QED
    BY <1>0, <1>1, <2>1, <2>2
<1>4. COLS * q + COLS <= COLS * ROWS
  BY <1>0, <1>1, <1>3, Multiples
<1> QED
  BY <1>0, <1>1, <1>2, <1>4 DEF s

\* Between delete's new place and its old one there are only blanks.
LEMMA TakenBack ==
  ASSUME NEW c \in Consoles
  PROVE  /\ TextEnd(c) \in 0..c.loc
         /\ \A l \in 1..c.loc : l > TextEnd(c) => c.video[l - 1] = Blank
<1> DEFINE S == {l \in 0..c.loc : l = 0 \/ c.video[l - 1] # Blank}
<1>1. c.loc \in Nat
  BY DEF Consoles, Cells
<1>2. S \subseteq 0..c.loc /\ 0 \in S
  BY <1>1
<1>3. \E x \in S : \A y \in S : x >= y
  BY <1>1, <1>2, LastExists
<1>4. TextEnd(c) = Max(S)
  BY DEF TextEnd
<1>5. ASSUME NEW l \in 1..c.loc, c.video[l - 1] # Blank
      PROVE  l \in S
  BY <1>1, <1>5
<1> HIDE DEF S
<1>6. Max(S) \in S /\ \A y \in S : Max(S) >= y
  BY <1>3 DEF Max
<1>7. ASSUME NEW l \in 1..c.loc, l > TextEnd(c), c.video[l - 1] # Blank
      PROVE  FALSE
  <2>1. TextEnd(c) >= l
    BY <1>4, <1>5, <1>6, <1>7
  <2>2. TextEnd(c) \in Nat /\ l \in Nat
    <3>1. TextEnd(c) \in 0..c.loc
      BY <1>2, <1>4, <1>6
    <3> QED
      BY <1>1, <3>1
  <2> QED
    BY <1>7, <2>1, <2>2
<1> QED
  BY <1>2, <1>4, <1>6, <1>7

(***************************************************************************)
(* video.c.                                                                *)
(***************************************************************************)
\* A backspace leaves blanks behind the cursor.
LEMMA DeletedClean ==
  ASSUME NEW c \in Consoles, Clean(c)
  PROVE  Deleted(c) \in Consoles /\ Clean(Deleted(c))
<1>0. /\ c.video \in [Cells -> Printable] /\ c.loc \in Cells /\ Blank \in Printable
      /\ c = [video |-> c.video, loc |-> c.loc]
  BY DEF Consoles, Printable
<1>00. SCREENSIZE \in Nat /\ \A l : l \in Cells <=> l \in Nat /\ l < SCREENSIZE
  BY Screen DEF Cells
<1>1. CASE c.loc = 0
  BY <1>1 DEF Deleted
<1>2. CASE c.loc > 0 /\ c.loc % COLS = 0 /\ c.video[c.loc - 1] = Blank
  <2>1. Deleted(c) = [c EXCEPT !.loc = TextEnd(c)]
    BY <1>0, <1>00, <1>2 DEF Deleted
  <2>2. /\ TextEnd(c) \in 0..c.loc
        /\ \A l \in 1..c.loc : l > TextEnd(c) => c.video[l - 1] = Blank
    BY TakenBack
  <2>3. Deleted(c) \in Consoles /\ Deleted(c).video = c.video /\ Deleted(c).loc = TextEnd(c)
    BY <1>0, <1>00, <2>1, <2>2 DEF Consoles
  <2>4. ASSUME NEW k \in Cells \ StatusLine, k >= TextEnd(c)
        PROVE  c.video[k] = Blank
    <3>1. CASE k >= c.loc
      BY <3>1 DEF Clean
    <3>2. CASE k < c.loc
      <4>1. k + 1 \in 1..c.loc /\ k + 1 > TextEnd(c) /\ (k + 1) - 1 = k
        BY <1>0, <1>00, <2>2, <2>4, <3>2
      <4> QED
        BY <2>2, <4>1
    <3> QED
      BY <1>0, <1>00, <3>1, <3>2
  <2> QED
    BY <2>3, <2>4 DEF Clean
<1>3. CASE /\ c.loc # 0
           /\ ~(c.loc > 0 /\ c.loc % COLS = 0 /\ c.video[c.loc - 1] = Blank)
  <2>1. Deleted(c) = [video |-> [c.video EXCEPT ![c.loc - 1] = Blank], loc |-> c.loc - 1]
    BY <1>0, <1>00, <1>3 DEF Deleted
  <2>2. c.loc - 1 \in Cells
    BY <1>0, <1>00, <1>3
  <2>3. Deleted(c) \in Consoles
    BY <1>0, <2>1, <2>2 DEF Consoles
  <2>4. ASSUME NEW k \in Cells \ StatusLine, k >= c.loc - 1
        PROVE  Deleted(c).video[k] = Blank
    <3>1. CASE k = c.loc - 1
      BY <1>0, <2>1, <2>2, <3>1
    <3>2. CASE k # c.loc - 1
      <4>1. k >= c.loc /\ k \in Cells
        BY <1>0, <1>00, <2>2, <2>4, <3>2
      <4>2. c.video[k] = Blank
        BY <4>1 DEF Clean
      <4> QED
        BY <1>0, <2>1, <3>2, <4>1, <4>2
    <3> QED
      BY <3>1, <3>2
  <2>5. Deleted(c).loc = c.loc - 1
    BY <2>1
  <2> QED
    BY <2>3, <2>4, <2>5 DEF Clean
<1> QED
  BY <1>0, <1>00, <1>1, <1>2, <1>3

\* The console between putchar's switch and its test for the screen's end.
LEMMA TypedClean ==
  ASSUME NEW c \in Consoles, Clean(c), NEW ch \in Printable \cup {NL, BS}
  PROVE  /\ Typed(c, ch) \in [video : [Cells -> Printable], loc : 0..SCREENSIZE]
         /\ Clean(Typed(c, ch))
<1>0. /\ c.video \in [Cells -> Printable] /\ c.loc \in Cells
      /\ c = [video |-> c.video, loc |-> c.loc]
  BY DEF Consoles
<1>00. SCREENSIZE \in Nat /\ COLS \in Nat /\ \A l : l \in Cells <=> l \in Nat /\ l < SCREENSIZE
  BY Screen DEF Cells
<1>1. CASE ch = NL
  <2> DEFINE l == c.loc + (COLS - (c.loc % COLS))
  <2>1. COLS - (c.loc % COLS) \in 1..COLS /\ l <= SCREENSIZE
    BY <1>0, NextRow
  <2>2. l \in 0..SCREENSIZE /\ l >= c.loc
    BY <1>0, <1>00, <2>1
  <2>3. Typed(c, ch) = [c EXCEPT !.loc = l]
    BY <1>1 DEF Typed, NL, BS
  <2> HIDE DEF l
  <2>4. Typed(c, ch) = [video |-> c.video, loc |-> l]
    BY <1>0, <2>3
  <2>5. \A k \in Cells \ StatusLine : k >= l => k >= c.loc
    BY <1>0, <1>00, <2>2
  <2> QED
    BY <1>0, <2>2, <2>4, <2>5 DEF Clean
<1>2. CASE ch = BS
  <2>1. Typed(c, ch) = Deleted(c)
    BY <1>2 DEF Typed, NL, BS
  <2>2. Cells \subseteq 0..SCREENSIZE
    BY <1>00
  <2> QED
    BY <2>1, <2>2, DeletedClean DEF Consoles
<1>3. CASE ch # NL /\ ch # BS
  <2>1. Typed(c, ch) = [video |-> [c.video EXCEPT ![c.loc] = ch], loc |-> c.loc + 1]
    BY <1>3 DEF Typed
  <2>2. ch \in Printable
    BY <1>3
  <2>3. Typed(c, ch) \in [video : [Cells -> Printable], loc : 0..SCREENSIZE]
    BY <1>0, <1>00, <2>1, <2>2
  <2>4. ASSUME NEW k \in Cells \ StatusLine, k >= c.loc + 1
        PROVE  Typed(c, ch).video[k] = Blank
    <3>1. k >= c.loc /\ k # c.loc /\ k \in Cells
      BY <1>0, <1>00, <2>4
    <3> QED
      BY <1>0, <2>1, <3>1 DEF Clean
  <2>5. Typed(c, ch).loc = c.loc + 1
    BY <2>1
  <2> QED
    BY <2>3, <2>4, <2>5 DEF Clean
<1> QED
  BY <1>1, <1>2, <1>3

\* A scroll brings the cursor back onto the screen, on a row of blanks.
LEMMA SettledClean ==
  ASSUME NEW c \in [video : [Cells -> Printable], loc : 0..SCREENSIZE], Clean(c)
  PROVE  Settled(c) \in Consoles /\ Clean(Settled(c))
<1>0. /\ c.video \in [Cells -> Printable] /\ c.loc \in 0..SCREENSIZE
      /\ c = [video |-> c.video, loc |-> c.loc] /\ Blank \in Printable
  BY DEF Printable
<1>00. /\ SCREENSIZE \in Nat /\ COLS \in Nat /\ COLS > 0 /\ 2 * COLS < SCREENSIZE
       /\ \A l : l \in Cells <=> l \in Nat /\ l < SCREENSIZE
       /\ \A l : l \in StatusLine <=> l \in Nat /\ l < COLS
  BY Screen DEF Cells, StatusLine
<1>1. CASE c.loc < SCREENSIZE
  <2>1. Settled(c) = c
    BY <1>0, <1>00, <1>1 DEF Settled
  <2>2. c.loc \in Cells
    BY <1>0, <1>00, <1>1
  <2> QED
    BY <1>0, <2>1, <2>2 DEF Consoles
<1>2. CASE ~(c.loc < SCREENSIZE)
  <2> DEFINE v == [k \in Cells |-> CASE k \in StatusLine -> c.video[k]
                                     [] k + COLS \notin Cells -> Blank
                                     [] OTHER -> c.video[k + COLS]]
  <2>1. c.loc = SCREENSIZE /\ Settled(c) = Scrolled(c)
    BY <1>0, <1>00, <1>2 DEF Settled
  <2>2. Scrolled(c) = [video |-> v, loc |-> c.loc - COLS]
    BY DEF Scrolled
  <2>3. \A k \in Cells : v[k] \in Printable
    <3>1. ASSUME NEW k \in Cells
          PROVE  v[k] \in Printable
      <4>1. CASE k \in StatusLine
        BY <1>0, <4>1
      <4>2. CASE k \notin StatusLine /\ k + COLS \notin Cells
        BY <1>0, <4>2
      <4>3. CASE k \notin StatusLine /\ k + COLS \in Cells
        BY <1>0, <4>3
      <4> QED
        BY <4>1, <4>2, <4>3
    <3> QED
      BY <3>1
  <2>4. v \in [Cells -> Printable] /\ c.loc - COLS \in Cells
    BY <1>0, <1>00, <2>1, <2>3
  <2>5. ASSUME NEW k \in Cells \ StatusLine, k >= c.loc - COLS
        PROVE  v[k] = Blank
    <3>1. k + COLS \notin Cells
      BY <1>0, <1>00, <2>1, <2>5
    <3> QED
      BY <3>1
  <2> HIDE DEF v
  <2> QED
    BY <2>1, <2>2, <2>4, <2>5 DEF Consoles, Clean
<1> QED
  BY <1>1, <1>2

\* One character that putchar writes.
LEMMA PutClean ==
  ASSUME NEW c \in Consoles, Clean(c), NEW ch \in Printable \cup {NL, BS}
  PROVE  Put(c, ch) \in Consoles /\ Clean(Put(c, ch))
BY TypedClean, SettledClean DEF Put

\* A tab writes its four blanks as four characters, each of which may scroll.
LEMMA PutcharClean ==
  ASSUME NEW c \in Consoles, Clean(c), NEW ch \in Characters
  PROVE  Putchar(c, ch) \in Consoles /\ Clean(Putchar(c, ch))
<1>1. CASE ch = Tab
  <2> DEFINE c1 == Put(c, Blank)
             c2 == Put(c1, Blank)
             c3 == Put(c2, Blank)
  <2>0. Blank \in Printable
    BY DEF Printable
  <2>1. c1 \in Consoles /\ Clean(c1)
    BY <2>0, PutClean
  <2> HIDE DEF c1
  <2>2. c2 \in Consoles /\ Clean(c2)
    BY <2>0, <2>1, PutClean
  <2> HIDE DEF c2
  <2>3. c3 \in Consoles /\ Clean(c3)
    BY <2>0, <2>2, PutClean
  <2> HIDE DEF c3
  <2>4. Put(c3, Blank) \in Consoles /\ Clean(Put(c3, Blank))
    BY <2>0, <2>3, PutClean
  <2> QED
    BY <1>1, <2>4 DEF Putchar, c1, c2, c3
<1>2. CASE ch # Tab
  <2>1. ch \in Printable \cup {NL, BS}
    BY <1>2 DEF Characters
  <2>2. Putchar(c, ch) = Put(c, ch)
    BY <1>2 DEF Putchar
  <2> QED
    BY <2>1, <2>2, PutClean
<1> QED
  BY <1>1, <1>2

\* A text that fits the status line leaves the console below it alone.
LEMMA StatusClean ==
  ASSUME NEW c \in Consoles, Clean(c), NEW str \in Seq(Printable), NEW col \in Nat,
         col + Len(str) <= COLS
  PROVE  PutsAt(c, str, 0, col) \in Consoles /\ Clean(PutsAt(c, str, 0, col))
<1>0. /\ c.video \in [Cells -> Printable] /\ c.loc \in Cells
      /\ c = [video |-> c.video, loc |-> c.loc]
      /\ Len(str) \in Nat /\ \A j \in 1..Len(str) : str[j] \in Printable
  BY DEF Consoles
<1>00. /\ COLS \in Nat /\ \A l \in Cells : l \in Nat
       /\ \A l : l \in StatusLine <=> l \in Nat /\ l < COLS
  BY Screen DEF Cells, StatusLine
<1>1. 0 * COLS + col = col
  BY <1>00
<1> DEFINE v == [k \in Cells |->
                   IF k - col + 1 \in 1..Len(str) THEN str[k - col + 1] ELSE c.video[k]]
<1>2. PutsAt(c, str, 0, col) = [c EXCEPT !.video = v]
  BY <1>1 DEF PutsAt
<1>3. v \in [Cells -> Printable]
  BY <1>0
<1>4. ASSUME NEW k \in Cells \ StatusLine
      PROVE  v[k] = c.video[k]
  <2>1. k \in Nat /\ k >= COLS
    BY <1>00
  <2>2. k - col + 1 \notin 1..Len(str)
    BY <1>0, <1>00, <2>1
  <2> QED
    BY <2>2
<1> HIDE DEF v
<1>5. PutsAt(c, str, 0, col) = [video |-> v, loc |-> c.loc]
  BY <1>0, <1>2
<1> QED
  BY <1>0, <1>3, <1>4, <1>5 DEF Consoles, Clean

\* Both ways to clear put the cursor below the status line, before blanks.
LEMMA ClearedClean ==
  ASSUME NEW c \in Consoles
  PROVE  /\ ClearScreen \in Consoles /\ Clean(ClearScreen)
         /\ ClearConsole(c) \in Consoles /\ Clean(ClearConsole(c))
<1>0. c.video \in [Cells -> Printable] /\ Blank \in Printable
  BY DEF Consoles, Printable
<1>1. COLS \in Cells
  BY Screen DEF Cells
<1>2. ClearScreen \in Consoles /\ Clean(ClearScreen)
  BY <1>0, <1>1 DEF ClearScreen, Consoles, Clean
<1>3. ClearConsole(c) \in Consoles /\ Clean(ClearConsole(c))
  BY <1>0, <1>1 DEF ClearConsole, Consoles, Clean
<1> QED
  BY <1>2, <1>3

\* The clock's text fits the status line, drawn or blanked.
LEMMA ClockClean ==
  ASSUME NEW c \in Consoles, Clean(c)
  PROVE  /\ ShowTime(c) \in Consoles /\ Clean(ShowTime(c))
         /\ HideTime(c) \in Consoles /\ Clean(HideTime(c))
<1>0. Clock \in Seq(Printable) /\ Title \in Seq(Printable) /\ Len(Title) + Len(Clock) <= COLS
  BY TerminalAssumption
<1>1. Len(Clock) \in Nat /\ Len(Title) \in Nat /\ COLS \in Nat
  BY <1>0, Screen
<1>2. ClockCol \in Nat /\ ClockCol + Len(Clock) <= COLS
  BY <1>0, <1>1 DEF ClockCol
<1> DEFINE blanks == [j \in 1..Len(Clock) |-> Blank]
<1>3. blanks \in Seq(Printable) /\ Len(blanks) = Len(Clock)
  <2>1. Blank \in Printable
    BY DEF Printable
  <2>2. blanks \in [1..Len(Clock) -> Printable]
    BY <2>1
  <2> QED
    BY <1>1, <2>2
<1>4. ShowTime(c) \in Consoles /\ Clean(ShowTime(c))
  BY <1>0, <1>2, StatusClean DEF ShowTime
<1> HIDE DEF blanks
<1>5. HideTime(c) = PutsAt(c, blanks, 0, ClockCol)
  BY DEF HideTime, blanks
<1>6. HideTime(c) \in Consoles /\ Clean(HideTime(c))
  BY <1>2, <1>3, <1>5, StatusClean
<1> QED
  BY <1>4, <1>6

(***************************************************************************)
(* The steps.                                                              *)
(***************************************************************************)

\* The screen stays within its types and clean behind the cursor.
LEMMA ScreenStep ==
  ASSUME console \in Consoles, NothingAhead, [Next]_vars
  PROVE  console' \in Consoles /\ NothingAhead'
<1> SUFFICES console' \in Consoles /\ Clean(console')
  BY DEF NothingAhead, Clean
<1>0. Clean(console)
  BY DEF NothingAhead, Clean
<1>1. ASSUME NEW ch \in Characters, Write(ch)
      PROVE  console' \in Consoles /\ Clean(console')
  <2>1. console' = Putchar(console, ch)
    BY <1>1 DEF Write
  <2> QED
    BY <1>0, <2>1, PutcharClean
<1>2. CASE Clear
  <2>1. console' = ClearConsole(console)
    BY <1>2 DEF Clear
  <2> QED
    BY <2>1, ClearedClean
<1>3. CASE Time
  <2>1. console' = ShowTime(console) \/ console' = HideTime(console)
    BY <1>3 DEF Time
  <2> QED
    BY <1>0, <2>1, ClockClean
<1>4. CASE Exit
  <2>1. console' = PutsAt(ClearScreen, Farewell, 0, 0)
    BY <1>4 DEF Exit
  <2>2. Farewell \in Seq(Printable) /\ 0 + Len(Farewell) <= COLS
    BY TerminalAssumption
  <2> QED
    BY <2>1, <2>2, ClearedClean, StatusClean
<1>5. CASE Tick
  <2>1. console' = ShowTime(console)
    BY <1>5 DEF Tick
  <2> QED
    BY <1>0, <2>1, ClockClean
<1>6. CASE UNCHANGED console
  BY <1>0, <1>6 DEF Clean
<1> QED
  BY <1>1, <1>2, <1>3, <1>4, <1>5, <1>6
     DEF Next, Erase, TypeName, TypeChar, NameAgain, NameGiven, Enter, vars

\* What the shell prints.
LEMMA Texts ==
  /\ \A s \in Seq(Printable) : s \in Seq(Calls)
  /\ <<NL>> \in Seq(Calls) /\ <<BS>> \in Seq(Calls) /\ <<>> \in Seq(Calls)
  /\ \A ch \in Characters : <<ch>> \in Seq(Calls)
  /\ \A s, t \in Seq(Calls) : s \o t \in Seq(Calls)
  /\ Letters \subseteq Printable /\ Printable \subseteq Characters /\ Tab \in Characters
  /\ \A c \in Commands : c \in Seq(Calls)
<1>1. /\ Printable \subseteq Calls /\ NL \in Calls /\ BS \in Calls
      /\ \A ch \in Characters : ch \in Calls
      /\ Letters \subseteq Printable /\ Printable \subseteq Characters /\ Tab \in Characters
  BY DEF Calls, Characters, Printable
<1>2. \A s \in Seq(Printable) : s \in Seq(Calls)
  BY <1>1
<1>3. /\ <<NL>> \in Seq(Calls) /\ <<BS>> \in Seq(Calls) /\ <<>> \in Seq(Calls)
      /\ \A ch \in Characters : <<ch>> \in Seq(Calls)
  BY <1>1
<1>4. \A c \in Commands : c \in Seq(Calls)
  <2>1. ASSUME NEW c \in Commands
        PROVE  c \in Seq(Calls)
    <3>1. c \in Seq(Calls \ {BS})
      BY TerminalAssumption
    <3> QED
      BY <3>1
  <2> QED
    BY <2>1
<1> QED
  BY <1>1, <1>2, <1>3, <1>4

\* A name's prompt is text for the screen.
LEMMA PromptPrinted ==
  ASSUME NEW name \in Seq(Letters)
  PROVE  Prompt(name) \in Seq(Calls)
<1>1. Host \in Seq(Printable) /\ Letters \subseteq Printable
  BY TerminalAssumption, Texts
<1>2. name \in Seq(Printable)
  BY <1>1
<1>3. Prompt(name) \in Seq(Printable)
  BY <1>1, <1>2 DEF Prompt
<1> QED
  BY <1>3, Texts

\* A system call leaves the shell's variables alone, and todo a call shorter.
LEMMA CallTypes ==
  ASSUME TypeOK, NEW call, Make(call), clock' \in BOOLEAN, console' \in Consoles,
         phase' \in {phase, "off"}, UNCHANGED <<buffer, current_pos, username, plain>>
  PROVE  TypeOK'
<1>1. todo \in Seq(Calls) /\ todo # <<>> /\ todo' = Tail(todo)
  BY DEF TypeOK, Make
<1>2. todo' \in Seq(Calls)
  BY <1>1
<1> QED
  BY <1>2 DEF TypeOK, Consoles

\* The shell's variables keep their types, the name its letters.
LEMMA TypeStep ==
  ASSUME TypeOK, NameTyped, console' \in Consoles, [Next]_vars
  PROVE  TypeOK' /\ NameTyped'
<1>0. /\ console \in Consoles /\ clock \in BOOLEAN
      /\ buffer \in [0..(BUFFER_SIZE - 1) -> Letters \cup {Blank, Tab, NUL}]
      /\ current_pos \in 0..BUFFER_SIZE
      /\ username \in Seq(Letters) /\ Len(username) <= MAX_USERNAME_SIZE
      /\ phase \in {"name", "line", "off"} /\ todo \in Seq(Calls) /\ plain \in BOOLEAN
      /\ BUFFER_SIZE \in Nat \ {0}
  BY TerminalAssumption DEF TypeOK, Consoles
<1>00. CleanBuffer \in [0..(BUFFER_SIZE - 1) -> Letters \cup {Blank, Tab, NUL}]
  BY DEF CleanBuffer
<1>1. ASSUME NEW p \in {"name", "line"}, Erase(p)
      PROVE  TypeOK' /\ NameTyped'
  <2>1. current_pos - 1 \in 0..(BUFFER_SIZE - 1) /\ current_pos' = current_pos - 1
    BY <1>0, <1>1 DEF Erase
  <2>2. buffer' \in [0..(BUFFER_SIZE - 1) -> Letters \cup {Blank, Tab, NUL}]
    BY <1>0, <1>1, <2>1 DEF Erase
  <2>3. todo' \in Seq(Calls)
    BY <1>1, Texts DEF Erase
  <2>4. UNCHANGED <<console, clock, username, phase, plain>>
    BY <1>1 DEF Erase
  <2>5. TypeOK'
    BY <1>0, <2>1, <2>2, <2>3, <2>4 DEF TypeOK
  <2>6. \A q \in 0..(current_pos' - 1) : q \in 0..(current_pos - 1) /\ buffer'[q] = buffer[q]
    BY <1>0, <1>1, <2>1 DEF Erase
  <2> QED
    BY <2>4, <2>5, <2>6 DEF NameTyped
<1>2. ASSUME NEW ch \in Letters, TypeName(ch)
      PROVE  TypeOK' /\ NameTyped'
  <2>1. current_pos \in 0..(BUFFER_SIZE - 1) /\ current_pos' = current_pos + 1
    BY <1>0, <1>2 DEF TypeName
  <2>2. buffer' \in [0..(BUFFER_SIZE - 1) -> Letters \cup {Blank, Tab, NUL}]
    BY <1>0, <1>2, <2>1 DEF TypeName
  <2>3. todo' \in Seq(Calls)
    BY <1>2, Texts DEF TypeName
  <2>4. UNCHANGED <<console, clock, username, phase, plain>> /\ phase = "name"
    BY <1>2 DEF TypeName, Reading
  <2>5. TypeOK'
    BY <1>0, <2>1, <2>2, <2>3, <2>4 DEF TypeOK
  <2>6. ASSUME NEW q \in 0..(current_pos' - 1)
        PROVE  buffer'[q] \in Letters
    <3>1. CASE q = current_pos
      BY <1>0, <1>2, <2>1, <3>1 DEF TypeName
    <3>2. CASE q # current_pos
      <4>1. q \in 0..(current_pos - 1) /\ buffer'[q] = buffer[q]
        BY <1>0, <1>2, <2>1, <3>2 DEF TypeName
      <4> QED
        BY <2>4, <4>1 DEF NameTyped
    <3> QED
      BY <3>1, <3>2
  <2> QED
    BY <2>5, <2>6 DEF NameTyped
<1>3. ASSUME NEW ch \in Printable \cup {Tab}, TypeChar(ch)
      PROVE  TypeOK' /\ NameTyped'
  <2> DEFINE pos == IF current_pos = BUFFER_SIZE THEN 0 ELSE current_pos
  <2>1. pos \in 0..(BUFFER_SIZE - 1)
    BY <1>0
  <2>2. /\ buffer' = [buffer EXCEPT ![pos] = ch] /\ current_pos' = pos + 1 /\ todo' = <<ch>>
        /\ UNCHANGED <<console, clock, username, phase>> /\ phase = "line"
        /\ plain' \in BOOLEAN
    BY <1>3 DEF TypeChar, Reading
  <2> HIDE DEF pos
  <2>3. ch \in Letters \cup {Blank, Tab, NUL} /\ ch \in Characters
    BY <1>3, Texts DEF Printable
  <2>4. buffer' \in [0..(BUFFER_SIZE - 1) -> Letters \cup {Blank, Tab, NUL}]
    BY <1>0, <2>1, <2>2, <2>3
  <2>5. todo' \in Seq(Calls)
    BY <2>2, <2>3, Texts
  <2>6. current_pos' \in 0..BUFFER_SIZE
    BY <1>0, <2>1, <2>2
  <2> QED
    BY <1>0, <2>2, <2>4, <2>5, <2>6 DEF TypeOK, NameTyped
<1>4. CASE NameAgain
  <2>1. todo' \in Seq(Calls)
    <3>1. Question \in Seq(Calls) /\ TooLong \in Seq(Calls)
      BY Texts, TerminalAssumption
    <3>2. <<NL>> \o TooLong \in Seq(Calls)
      BY <3>1, Texts
    <3>3. (<<NL>> \o TooLong) \o <<NL>> \in Seq(Calls)
      BY <3>2, Texts
    <3>4. /\ <<NL>> \o Question \in Seq(Calls)
          /\ ((<<NL>> \o TooLong) \o <<NL>>) \o Question \in Seq(Calls)
      BY <3>1, <3>3, Texts
    <3>5. \/ todo' = <<NL>> \o Question
          \/ todo' = ((<<NL>> \o TooLong) \o <<NL>>) \o Question
      BY <1>4 DEF NameAgain
    <3> QED
      BY <3>4, <3>5
  <2>2. /\ buffer' = CleanBuffer /\ current_pos' = 0
        /\ UNCHANGED <<console, clock, username, phase, plain>>
    BY <1>4 DEF NameAgain
  <2> QED
    BY <1>0, <1>00, <2>1, <2>2 DEF TypeOK, NameTyped
<1>5. CASE NameGiven
  <2>1. /\ current_pos \in 1..MAX_USERNAME_SIZE /\ phase = "name"
        /\ username' = [j \in 1..current_pos |-> buffer[j - 1]]
        /\ todo' = <<NL>> \o Prompt(username')
        /\ buffer' = CleanBuffer /\ current_pos' = 0 /\ phase' = "line"
        /\ UNCHANGED <<console, clock, plain>>
    BY <1>5 DEF NameGiven, Reading
  <2>2. \A j \in 1..current_pos : j - 1 \in 0..(current_pos - 1)
    BY <1>0
  <2>3. username' \in [1..current_pos -> Letters]
    BY <2>1, <2>2 DEF NameTyped
  <2>4. username' \in Seq(Letters)
    BY <1>0, <2>3
  <2>5. todo' \in Seq(Calls)
    BY <2>1, <2>4, PromptPrinted, Texts
  <2>6. Len(username') <= MAX_USERNAME_SIZE
    BY <1>0, <2>1
  <2> QED
    BY <1>0, <1>00, <2>1, <2>4, <2>5, <2>6 DEF TypeOK, NameTyped
<1>6. ASSUME NEW command \in Commands, Enter(command)
      PROVE  TypeOK' /\ NameTyped'
  <2>1. /\ todo' = ((IF current_pos # 0 THEN <<NL>> ELSE <<>>)
                     \o (IF buffer[0] = NUL THEN <<NL>> ELSE command))
                    \o Prompt(username)
        /\ buffer' = CleanBuffer /\ current_pos' = 0 /\ plain' = TRUE /\ phase = "line"
        /\ UNCHANGED <<console, clock, username, phase>>
    BY <1>6 DEF Enter, Reading
  <2>2. /\ (IF current_pos # 0 THEN <<NL>> ELSE <<>>) \in Seq(Calls)
        /\ (IF buffer[0] = NUL THEN <<NL>> ELSE command) \in Seq(Calls)
    BY Texts
  <2>3. (IF current_pos # 0 THEN <<NL>> ELSE <<>>)
          \o (IF buffer[0] = NUL THEN <<NL>> ELSE command) \in Seq(Calls)
    BY <2>2, Texts
  <2>4. todo' \in Seq(Calls)
    BY <1>0, <2>1, <2>3, PromptPrinted, Texts
  <2> QED
    BY <1>0, <1>00, <2>1, <2>4 DEF TypeOK, NameTyped
<1>7. ASSUME NEW call, Make(call), clock' \in BOOLEAN, phase' \in {phase, "off"},
             UNCHANGED <<buffer, current_pos, username, plain>>
      PROVE  TypeOK' /\ NameTyped'
  <2>1. TypeOK'
    BY <1>7, CallTypes
  <2>2. NameTyped'
    BY <1>7 DEF NameTyped
  <2> QED
    BY <2>1, <2>2
<1>8. ASSUME NEW ch \in Characters, Write(ch)
      PROVE  TypeOK' /\ NameTyped'
  BY <1>0, <1>7, <1>8 DEF Write
<1>9. CASE Clear
  BY <1>0, <1>7, <1>9 DEF Clear
<1>10. CASE Time
  BY <1>0, <1>7, <1>10 DEF Time
<1>11. CASE Exit
  BY <1>0, <1>7, <1>11 DEF Exit
<1>12. CASE Tick
  BY <1>0, <1>12 DEF Tick, TypeOK, NameTyped, Consoles
<1>13. CASE UNCHANGED vars
  BY <1>0, <1>13 DEF vars, TypeOK, NameTyped, Consoles
<1> QED
  BY <1>1, <1>2, <1>3, <1>4, <1>5, <1>6, <1>8, <1>9, <1>10, <1>11, <1>12, <1>13 DEF Next

(***************************************************************************)
(* The theorems.                                                           *)
(***************************************************************************)
\* What main and init_shell leave before the first key.
LEMMA Start == Init => IInv
<1> SUFFICES ASSUME Init
             PROVE  IInv
  OBVIOUS
<1>1. Title \in Seq(Printable) /\ Len(Title) <= COLS /\ Question \in Seq(Calls)
  <2>1. /\ Title \in Seq(Printable) /\ Clock \in Seq(Printable) /\ COLS \in Nat
        /\ Len(Title) + Len(Clock) <= COLS
    BY TerminalAssumption, Screen
  <2>2. Len(Title) \in Nat /\ Len(Clock) \in Nat
    BY <2>1
  <2>3. Len(Title) <= COLS
    BY <2>1, <2>2
  <2>4. Question \in Seq(Calls)
    BY TerminalAssumption, Texts
  <2> QED
    BY <2>1, <2>3, <2>4
<1>2. \E c \in Consoles : TRUE
  <2>1. 0 \in Cells /\ Blank \in Printable
    BY Screen DEF Cells, Printable
  <2>2. [video |-> [k \in Cells |-> Blank], loc |-> 0] \in Consoles
    BY <2>1 DEF Consoles
  <2> QED
    BY <2>2
<1>3. ClearScreen \in Consoles /\ Clean(ClearScreen)
  BY <1>2, ClearedClean
<1>4. 0 + Len(Title) <= COLS
  BY <1>1
<1>5. console \in Consoles /\ Clean(console)
  BY <1>1, <1>3, <1>4, StatusClean DEF Init
<1>6. BUFFER_SIZE \in Nat \ {0}
  BY TerminalAssumption
<1>7. CleanBuffer \in [0..(BUFFER_SIZE - 1) -> Letters \cup {Blank, Tab, NUL}]
  BY DEF CleanBuffer
<1>8. TypeOK
  <2>1. /\ clock = FALSE /\ buffer = CleanBuffer /\ current_pos = 0 /\ username = <<>>
        /\ phase = "name" /\ todo = Question /\ plain = TRUE
    BY DEF Init
  <2>2. /\ <<>> \in Seq(Letters) /\ Len(<<>>) <= MAX_USERNAME_SIZE
        /\ 0 \in 0..BUFFER_SIZE
    BY <1>6, TerminalAssumption
  <2>3. console \in [video : [Cells -> Printable], loc : Cells]
    BY <1>5 DEF Consoles
  <2> QED
    BY <1>1, <1>7, <2>1, <2>2, <2>3 DEF TypeOK
<1>9. NameTyped
  BY DEF Init, NameTyped
<1> QED
  BY <1>5, <1>8, <1>9 DEF IInv, NothingAhead, Clean

\* Every step of the shell, the system calls and the clock's interrupt keeps the screen
\* clean behind the cursor, and the cursor on it.
THEOREM TerminalInvariant == Spec => []IInv
<1>1. IInv /\ [Next]_vars => IInv'
  <2> SUFFICES ASSUME IInv, [Next]_vars
               PROVE  IInv'
    OBVIOUS
  <2>1. console \in Consoles
    BY DEF IInv, TypeOK, Consoles
  <2>2. console' \in Consoles /\ NothingAhead'
    BY <2>1, ScreenStep DEF IInv
  <2>3. TypeOK' /\ NameTyped'
    BY <2>2, TypeStep DEF IInv
  <2> QED
    BY <2>2, <2>3 DEF IInv
<1> QED
  BY Start, <1>1, PTL DEF Spec

\* current_loc never leaves the screen between two calls of putchar, whatever is written,
\* scrolled and taken back, and the line's position stays within the shell's buffer.
THEOREM CursorOnScreen == Spec => []TypeOK
<1>1. IInv => TypeOK
  BY DEF IInv
<1> QED
  BY TerminalInvariant, <1>1, PTL

\* What is printed never runs into the remains of another text.
THEOREM CleanAhead == Spec => []NothingAhead
<1>1. IInv => NothingAhead
  BY DEF IInv
<1> QED
  BY TerminalInvariant, <1>1, PTL

(***************************************************************************)
(* The line that is typed, and the status line above it.                   *)
(***************************************************************************)

\* The first n characters of text lie before the cursor, below the status line.
Shown(c, text, n) ==
  c.loc >= COLS + n /\ \A p \in 1..n : c.video[c.loc - p] = text[n + 1 - p]

\* The question or the prompt, and what is typed behind it.
LineOf(asked, buf, pos) == asked \o [j \in 1..pos |-> buf[j - 1]]

Line == LineOf(Asked, buffer, current_pos)

\* The calls to make end with the characters of Line from the n-th on; if n < 0 then
\* other calls come before all of them.
Follows(n) ==
  /\ Len(todo) = Len(Line) - n
  /\ \A j \in 1..Len(todo) :
       IF n + j >= 1 THEN todo[j] = Line[n + j] ELSE todo[j] \in Calls \ {BS}

\* An empty line begins with 0, and one that is plain has letters only.
PlainBuffer ==
  /\ current_pos = 0 => buffer[0] = NUL
  /\ plain => \A p \in 0..(current_pos - 1) : buffer[p] \in Letters

\* A backspace is about to take a letter behind the first n characters of text.
ShownBefore(c, text, n) ==
  /\ c.loc > 0 /\ c.video[c.loc - 1] \in Letters
  /\ Shown([video |-> c.video, loc |-> c.loc - 1], text, n)

\* A line without blanks is on the screen as far as it is not still to be written:
\* with the letter that a backspace is about to take, or up to its n-th character, or
\* not at all, and then from below the status line on or after a newline.
LineKept ==
  plain /\ phase # "off" =>
    \/ todo = <<BS>> /\ ShownBefore(console, Line, Len(Line))
    \/ \E n \in 0..Len(Line) : Follows(n) /\ Shown(console, Line, n)
    \/ \E n \in Nat \ {0} :
         /\ Follows(-n) /\ current_pos = 0
         /\ console.loc >= COLS \/ todo[1] = NL

SameStatus(c, d) == \A i \in StatusLine : d.video[i] = c.video[i]

\* Cells and rows as numbers.
LEMMA Room ==
  /\ COLS \in Nat \ {0} /\ SCREENSIZE \in Nat /\ 2 * COLS < SCREENSIZE
  /\ BUFFER_SIZE \in Nat \ {0}
  /\ \A i : i \in Cells <=> i \in Nat /\ i < SCREENSIZE
  /\ \A i : i \in StatusLine <=> i \in Nat /\ i < COLS
BY Screen, TerminalAssumption DEF Cells, StatusLine

\* Scrolling, at the screen's end, moves what lies below the status line up a row.
LEMMA SettledPlaces ==
  ASSUME NEW c \in [video : [Cells -> Printable], loc : 0..SCREENSIZE], c.loc >= COLS
  PROVE  /\ Settled(c).loc >= COLS /\ SameStatus(c, Settled(c))
         /\ \/ Settled(c) = c
            \/ /\ c.loc = SCREENSIZE /\ Settled(c).loc = SCREENSIZE - COLS
               /\ \A i \in Cells \ StatusLine : i + COLS \in Cells =>
                    Settled(c).video[i] = c.video[i + COLS]
<1>0. c.loc \in 0..SCREENSIZE /\ c.video \in [Cells -> Printable]
  OBVIOUS
<1>1. CASE c.loc < SCREENSIZE
  <2>1. Settled(c) = c
    BY <1>0, <1>1, Room DEF Settled
  <2> QED
    BY <2>1 DEF SameStatus
<1>2. CASE ~(c.loc < SCREENSIZE)
  <2>1. c.loc = SCREENSIZE /\ Settled(c) = Scrolled(c)
    BY <1>0, <1>2, Room DEF Settled
  <2>2. Settled(c).loc = SCREENSIZE - COLS /\ SCREENSIZE - COLS >= COLS
    BY <2>1, Room DEF Scrolled
  <2> DEFINE v == [k \in Cells |-> CASE k \in StatusLine -> c.video[k]
                                     [] k + COLS \notin Cells -> Blank
                                     [] OTHER -> c.video[k + COLS]]
  <2>3. Settled(c).video = v
    BY <2>1 DEF Scrolled
  <2>4. \A i \in StatusLine : v[i] = c.video[i]
    <3>1. ASSUME NEW i \in StatusLine
          PROVE  v[i] = c.video[i]
      <4>1. i \in Cells /\ i + COLS \in Cells
        BY Room
      <4> QED
        BY <4>1
    <3> QED
      BY <3>1
  <2>5. \A i \in Cells \ StatusLine : i + COLS \in Cells => v[i] = c.video[i + COLS]
    OBVIOUS
  <2> HIDE DEF v
  <2>6. SameStatus(c, Settled(c))
    BY <2>3, <2>4 DEF SameStatus
  <2> QED
    BY <2>1, <2>2, <2>3, <2>5, <2>6
<1> QED
  BY <1>1, <1>2

\* A character below the status line, and a newline anywhere, stay out of it.
LEMMA PutBelow ==
  ASSUME NEW c \in Consoles, NEW ch \in Printable \cup {NL}, c.loc >= COLS \/ ch = NL
  PROVE  Put(c, ch).loc >= COLS /\ SameStatus(c, Put(c, ch))
<1>0. /\ c.video \in [Cells -> Printable] /\ c.loc \in Cells
      /\ c = [video |-> c.video, loc |-> c.loc]
  BY DEF Consoles
<1>1. CASE ch = NL
  <2> DEFINE l == c.loc + (COLS - (c.loc % COLS))
  <2>1. l \in 0..SCREENSIZE /\ l >= COLS
    <3>1. c.loc = COLS * (c.loc \div COLS) + (c.loc % COLS) /\ c.loc \div COLS \in Nat
          /\ c.loc % COLS \in 0..(COLS - 1)
      BY <1>0, Room, Quotient
    <3>2. COLS * (c.loc \div COLS) \in Nat
      BY <3>1, Room
    <3>3. l <= SCREENSIZE /\ COLS - (c.loc % COLS) \in 1..COLS
      BY <1>0, NextRow
    <3>4. c.loc \in Nat /\ c.loc % COLS \in Nat /\ c.loc % COLS <= c.loc
      BY <1>0, <3>1, <3>2, Room
    <3> QED
      BY <3>3, <3>4, Room
  <2>2. Typed(c, ch) = [c EXCEPT !.loc = l]
    BY <1>1 DEF Typed, NL, BS
  <2> HIDE DEF l
  <2>3. Typed(c, ch) = [video |-> c.video, loc |-> l]
    BY <1>0, <2>2
  <2>4. Typed(c, ch) \in [video : [Cells -> Printable], loc : 0..SCREENSIZE]
    BY <1>0, <2>1, <2>3
  <2>5. /\ Settled(Typed(c, ch)).loc >= COLS
        /\ SameStatus(Typed(c, ch), Settled(Typed(c, ch)))
    BY <2>1, <2>3, <2>4, SettledPlaces
  <2> QED
    BY <2>3, <2>5 DEF Put, SameStatus
<1>2. CASE ch \in Printable /\ c.loc >= COLS /\ ch # NL
  <2>1. ch # BS
    BY <1>2, TerminalAssumption DEF Printable, Blank, BS
  <2>2. Typed(c, ch) = [video |-> [c.video EXCEPT ![c.loc] = ch], loc |-> c.loc + 1]
    BY <1>2, <2>1 DEF Typed
  <2>3. /\ Typed(c, ch) \in [video : [Cells -> Printable], loc : 0..SCREENSIZE]
        /\ Typed(c, ch).loc >= COLS
    BY <1>0, <1>2, <2>2, Room
  <2>4. SameStatus(c, Typed(c, ch))
    BY <1>0, <1>2, <2>2, Room DEF SameStatus
  <2>5. /\ Settled(Typed(c, ch)).loc >= COLS
        /\ SameStatus(Typed(c, ch), Settled(Typed(c, ch)))
    BY <2>3, SettledPlaces
  <2> QED
    BY <2>4, <2>5 DEF Put, SameStatus
<1> QED
  BY <1>1, <1>2

\* A tab and every other character that is not a backspace.
LEMMA PutcharBelow ==
  ASSUME NEW c \in Consoles, Clean(c), NEW ch \in Characters \ {BS}, c.loc >= COLS \/ ch = NL
  PROVE  Putchar(c, ch).loc >= COLS /\ SameStatus(c, Putchar(c, ch))
<1>1. CASE ch = Tab
  <2> DEFINE c1 == Put(c, Blank)
             c2 == Put(c1, Blank)
             c3 == Put(c2, Blank)
  <2>0. Blank \in Printable /\ c.loc >= COLS
    BY <1>1 DEF Printable, Tab, NL
  <2>1. c1 \in Consoles /\ Clean(c1) /\ c1.loc >= COLS /\ SameStatus(c, c1)
    BY <2>0, PutClean, PutBelow
  <2> HIDE DEF c1
  <2>2. c2 \in Consoles /\ Clean(c2) /\ c2.loc >= COLS /\ SameStatus(c1, c2)
    BY <2>0, <2>1, PutClean, PutBelow
  <2> HIDE DEF c2
  <2>3. c3 \in Consoles /\ Clean(c3) /\ c3.loc >= COLS /\ SameStatus(c2, c3)
    BY <2>0, <2>2, PutClean, PutBelow
  <2> HIDE DEF c3
  <2>4. Put(c3, Blank).loc >= COLS /\ SameStatus(c3, Put(c3, Blank))
    BY <2>0, <2>3, PutBelow
  <2>5. SameStatus(c, Put(c3, Blank))
    BY <2>1, <2>2, <2>3, <2>4 DEF SameStatus
  <2> QED
    BY <1>1, <2>4, <2>5 DEF Putchar, c1, c2, c3
<1>2. CASE ch # Tab
  <2>1. ch \in Printable \cup {NL}
    BY <1>2 DEF Characters
  <2>2. Putchar(c, ch) = Put(c, ch)
    BY <1>2 DEF Putchar
  <2> QED
    BY <2>1, <2>2, PutBelow
<1> QED
  BY <1>1, <1>2

\* A character joins those before the cursor, and a scroll leaves room for them all.
LEMMA PutShown ==
  ASSUME NEW c \in Consoles, NEW text, NEW n \in Nat, Shown(c, text, n),
         text[n + 1] \in Printable, (n + 1) + 2 * COLS <= SCREENSIZE
  PROVE  Shown(Put(c, text[n + 1]), text, n + 1)
<1> DEFINE ch == text[n + 1]
<1>0. /\ c.video \in [Cells -> Printable] /\ c.loc \in Cells /\ c.loc \in Nat
      /\ c.loc < SCREENSIZE /\ c.loc >= COLS + n
      /\ c = [video |-> c.video, loc |-> c.loc]
  BY Room DEF Consoles, Shown
<1>1. ch # NL /\ ch # BS /\ ch \in Printable
  BY TerminalAssumption DEF Printable, Blank, NL, BS
<1> DEFINE t == Typed(c, ch)
<1> HIDE DEF ch
<1>2. t = [video |-> [c.video EXCEPT ![c.loc] = ch], loc |-> c.loc + 1]
  BY <1>1 DEF Typed
<1>3. t \in [video : [Cells -> Printable], loc : 0..SCREENSIZE] /\ t.loc = c.loc + 1
  BY <1>0, <1>1, <1>2, Room
<1>4. ASSUME NEW p \in 1..(n + 1)
      PROVE  t.video[t.loc - p] = text[(n + 1) + 1 - p]
  <2>1. CASE p = 1
    <3>1. t.loc - p = c.loc /\ (n + 1) + 1 - p = n + 1
      BY <1>0, <1>3, <2>1
    <3> QED
      BY <1>0, <1>2, <3>1 DEF ch
  <2>2. CASE p # 1
    <3>1. p - 1 \in 1..n /\ t.loc - p = c.loc - (p - 1) /\ t.loc - p # c.loc
          /\ t.loc - p \in Cells /\ (n + 1) + 1 - p = n + 1 - (p - 1)
      BY <1>0, <1>3, <2>2, Room
    <3>2. t.video[t.loc - p] = c.video[c.loc - (p - 1)]
      BY <1>0, <1>2, <3>1
    <3>3. c.video[c.loc - (p - 1)] = text[n + 1 - (p - 1)]
      BY <3>1 DEF Shown
    <3> QED
      BY <3>1, <3>2, <3>3
  <2> QED
    BY <2>1, <2>2
<1> HIDE DEF t
<1>5. t.loc >= COLS + (n + 1)
  BY <1>0, <1>3, Room
<1>6. t.loc >= COLS /\ t.loc \in Nat
  BY <1>0, <1>3, Room
<1>7. CASE Settled(t) = t
  BY <1>4, <1>5, <1>7 DEF Put, Shown, t, ch
<1>8. CASE /\ t.loc = SCREENSIZE /\ Settled(t).loc = SCREENSIZE - COLS
           /\ \A i \in Cells \ StatusLine : i + COLS \in Cells =>
                Settled(t).video[i] = t.video[i + COLS]
  <2>1. SCREENSIZE - COLS >= COLS + (n + 1)
    BY Room
  <2>2. ASSUME NEW p \in 1..(n + 1)
        PROVE  Settled(t).video[Settled(t).loc - p] = text[(n + 1) + 1 - p]
    <3>1. /\ (SCREENSIZE - COLS) - p \in Cells \ StatusLine
          /\ ((SCREENSIZE - COLS) - p) + COLS = SCREENSIZE - p
          /\ SCREENSIZE - p \in Cells
      BY <2>1, Room
    <3>2. Settled(t).video[Settled(t).loc - p] = t.video[t.loc - p]
      BY <1>8, <3>1
    <3> QED
      BY <1>4, <3>2
  <2> QED
    BY <1>8, <2>1, <2>2 DEF Put, Shown, t, ch
<1> QED
  BY <1>3, <1>6, <1>7, <1>8, SettledPlaces

\* A backspace behind a letter takes that letter and no more.
LEMMA EraseShown ==
  ASSUME NEW c \in Consoles, NEW text, NEW n \in Nat, ShownBefore(c, text, n)
  PROVE  Shown(Put(c, BS), text, n) /\ SameStatus(c, Put(c, BS))
<1> DEFINE b == [video |-> c.video, loc |-> c.loc - 1]
<1>0. /\ c.video \in [Cells -> Printable] /\ c.loc \in Nat /\ c.loc < SCREENSIZE
      /\ c.loc # 0 /\ c.loc - 1 >= COLS + n /\ c.loc - 1 \in Nat
      /\ c.video[c.loc - 1] \in Letters
      /\ \A p \in 1..n : c.video[(c.loc - 1) - p] = text[n + 1 - p]
  BY Room DEF Consoles, ShownBefore, Shown
<1>1. c.video[c.loc - 1] # Blank
  BY <1>0, TerminalAssumption
<1>2. Typed(c, BS) = Deleted(c)
  BY DEF Typed, NL, BS
<1>3. Deleted(c) = [video |-> [c.video EXCEPT ![c.loc - 1] = Blank], loc |-> c.loc - 1]
  BY <1>0, <1>1 DEF Deleted
<1>4. Put(c, BS) = Deleted(c)
  BY <1>0, <1>2, <1>3, Room DEF Put, Settled
<1>5. SameStatus(c, Deleted(c))
  BY <1>0, <1>3, Room DEF SameStatus
<1>6. ASSUME NEW p \in 1..n
      PROVE  Deleted(c).video[Deleted(c).loc - p] = text[n + 1 - p]
  <2>1. /\ Deleted(c).loc - p = (c.loc - 1) - p
        /\ (c.loc - 1) - p # c.loc - 1 /\ (c.loc - 1) - p \in Cells
    BY <1>0, <1>3, Room
  <2>2. Deleted(c).video[Deleted(c).loc - p] = c.video[(c.loc - 1) - p]
    BY <1>0, <1>3, <2>1
  <2> QED
    BY <1>0, <2>2
<1> QED
  BY <1>0, <1>3, <1>4, <1>5, <1>6 DEF Shown

\* The clock draws in its corner, and nowhere else.
LEMMA CornerOnly ==
  ASSUME NEW c \in Consoles
  PROVE  /\ ShowTime(c).loc = c.loc /\ HideTime(c).loc = c.loc
         /\ \A i \in Cells : ShowTime(c).video[i] =
              IF i \in Corner THEN Clock[i - ClockCol + 1] ELSE c.video[i]
         /\ \A i \in Cells : HideTime(c).video[i] =
              IF i \in Corner THEN Blank ELSE c.video[i]
<1>0. /\ c.video \in [Cells -> Printable] /\ c = [video |-> c.video, loc |-> c.loc]
      /\ \A i \in Cells : i \in Nat
  BY Room DEF Consoles
<1>1. Len(Clock) \in Nat /\ Len(Title) \in Nat /\ Len(Title) + Len(Clock) <= COLS
      /\ COLS \in Nat
  BY TerminalAssumption, Room
<1>2. ClockCol \in Nat /\ ClockCol = COLS - Len(Clock) /\ 0 * COLS + ClockCol = ClockCol
  BY <1>1 DEF ClockCol
<1>3. \A i \in Cells : i \in Corner <=> i - ClockCol + 1 \in 1..Len(Clock)
  BY <1>0, <1>1, <1>2 DEF Corner
<1> DEFINE blanks == [j \in 1..Len(Clock) |-> Blank]
<1>4. Len(blanks) = Len(Clock) /\ \A j \in 1..Len(Clock) : blanks[j] = Blank
  BY <1>1
<1>5. /\ ShowTime(c).loc = c.loc
      /\ \A i \in Cells : ShowTime(c).video[i] =
           IF i - ClockCol + 1 \in 1..Len(Clock) THEN Clock[i - ClockCol + 1] ELSE c.video[i]
  BY <1>0, <1>2 DEF ShowTime, PutsAt
<1> HIDE DEF blanks
<1>6. HideTime(c) = PutsAt(c, blanks, 0, ClockCol)
  BY DEF HideTime, blanks
<1>7. /\ HideTime(c).loc = c.loc
      /\ \A i \in Cells : HideTime(c).video[i] =
           IF i - ClockCol + 1 \in 1..Len(Clock) THEN blanks[i - ClockCol + 1] ELSE c.video[i]
  BY <1>0, <1>2, <1>4, <1>6 DEF PutsAt
<1> QED
  BY <1>3, <1>4, <1>5, <1>7

\* The clock's corner is above every text that is shown.
LEMMA ClockShown ==
  ASSUME NEW c \in Consoles, NEW text, NEW n \in Nat, Shown(c, text, n)
  PROVE  Shown(ShowTime(c), text, n) /\ Shown(HideTime(c), text, n)
<1>0. c.loc \in Nat /\ c.loc < SCREENSIZE /\ c.loc >= COLS + n
  BY Room DEF Consoles, Shown
<1>1. ASSUME NEW p \in 1..n
      PROVE  c.loc - p \in Cells /\ c.loc - p \notin Corner
  BY <1>0, <1>1, Room DEF Corner
<1> QED
  BY <1>0, <1>1, CornerOnly DEF Shown

\* The same with a letter that is to be taken.
LEMMA ClockShownBefore ==
  ASSUME NEW c \in Consoles, NEW text, NEW n \in Nat, ShownBefore(c, text, n)
  PROVE  ShownBefore(ShowTime(c), text, n) /\ ShownBefore(HideTime(c), text, n)
<1>0. /\ c.loc \in Nat /\ c.loc < SCREENSIZE /\ c.loc - 1 >= COLS + n /\ c.loc > 0
      /\ c.video[c.loc - 1] \in Letters
      /\ \A p \in 1..n : c.video[(c.loc - 1) - p] = text[n + 1 - p]
  BY Room DEF Consoles, ShownBefore, Shown
<1>1. ASSUME NEW p \in 0..n
      PROVE  (c.loc - 1) - p \in Cells /\ (c.loc - 1) - p \notin Corner
  BY <1>0, <1>1, Room DEF Corner
<1>2. c.loc - 1 \in Cells /\ c.loc - 1 \notin Corner
  BY <1>0, Room DEF Corner
<1> QED
  BY <1>0, <1>1, <1>2, CornerOnly DEF Shown, ShownBefore

\* Two texts that begin alike are shown alike.
LEMMA ShownAlike ==
  ASSUME NEW c, NEW text, NEW other, NEW n \in Nat, Shown(c, text, n),
         \A j \in 1..n : other[j] = text[j]
  PROVE  Shown(c, other, n)
<1>1. \A p \in 1..n : n + 1 - p \in 1..n
  OBVIOUS
<1> QED
  BY <1>1 DEF Shown

\* What is printed of the texts has no backspace.
LEMMA QuietTexts ==
  /\ \A s \in Seq(Printable) : s \in Seq(Calls \ {BS})
  /\ \A s, t \in Seq(Calls \ {BS}) : s \o t \in Seq(Calls \ {BS})
  /\ <<>> \in Seq(Calls \ {BS}) /\ <<NL>> \in Seq(Calls \ {BS})
  /\ \A ch \in Printable \cup {Tab} : <<ch>> \in Seq(Calls \ {BS})
  /\ <<BS>> \notin Seq(Calls \ {BS})
  /\ \A ch \in Letters : ch \notin {Blank, NL, BS, Tab, "clear", "time", "exit"}
<1>1. \A ch \in Letters : ch \notin {Blank, NL, BS, Tab, "clear", "time", "exit"}
  BY TerminalAssumption
<1>2. Printable \cup {Tab, NL} \subseteq Calls \ {BS}
  BY <1>1 DEF Printable, Calls, Characters, Blank, Tab, NL, BS
<1>3. /\ \A s \in Seq(Printable) : s \in Seq(Calls \ {BS})
      /\ \A ch \in Printable \cup {Tab} : <<ch>> \in Seq(Calls \ {BS})
      /\ <<>> \in Seq(Calls \ {BS}) /\ <<NL>> \in Seq(Calls \ {BS})
  BY <1>2
<1>4. ASSUME <<BS>> \in Seq(Calls \ {BS})
      PROVE  FALSE
  <2>1. <<BS>>[1] \in Calls \ {BS}
    BY <1>4
  <2> QED
    BY <2>1
<1> QED
  BY <1>1, <1>3, <1>4

\* Nor has the prompt.
LEMMA QuietPrompt ==
  ASSUME NEW name \in Seq(Letters)
  PROVE  Prompt(name) \in Seq(Calls \ {BS})
<1>1. Host \in Seq(Printable) /\ name \in Seq(Printable)
  BY TerminalAssumption DEF Printable
<1>2. Prompt(name) \in Seq(Printable)
  BY <1>1 DEF Prompt
<1> QED
  BY <1>2, QuietTexts

(***************************************************************************)
(* The line on the screen.                                                 *)
(***************************************************************************)

\* Two sequences joined.
LEMMA Joined ==
  ASSUME NEW S, NEW s \in Seq(S), NEW t \in Seq(S)
  PROVE  /\ Len(s \o t) = Len(s) + Len(t)
         /\ \A j \in 1..Len(s) : (s \o t)[j] = s[j]
         /\ \A j \in (Len(s) + 1)..(Len(s) + Len(t)) : (s \o t)[j] = t[j - Len(s)]
OBVIOUS

\* What a line consists of.
LEMMA LineOfIs ==
  ASSUME NEW asked \in Seq(Printable), NEW buf, NEW pos \in Nat
  PROVE  /\ Len(LineOf(asked, buf, pos)) = Len(asked) + pos
         /\ \A j \in 1..Len(asked) : LineOf(asked, buf, pos)[j] = asked[j]
         /\ \A j \in (Len(asked) + 1)..(Len(asked) + pos) :
              LineOf(asked, buf, pos)[j] = buf[j - Len(asked) - 1]
<1> DEFINE typed == [j \in 1..pos |-> buf[j - 1]]
           all == {buf[p] : p \in 0..(pos - 1)} \cup Printable
<1>0. pos \in Nat
  OBVIOUS
<1>1. typed \in Seq(all) /\ Len(typed) = pos
      /\ \A j \in 1..pos : typed[j] = buf[j - 1]
  <2>1. \A j \in 1..pos : buf[j - 1] \in all
    <3>1. \A j \in 1..pos : j - 1 \in 0..(pos - 1)
      BY <1>0
    <3> QED
      BY <3>1
  <2>2. typed \in [1..pos -> all]
    BY <2>1
  <2>3. \A j \in 1..pos : typed[j] = buf[j - 1]
    OBVIOUS
  <2> HIDE DEF typed, all
  <2>4. typed \in Seq(all)
    BY <1>0, <2>2
  <2>5. DOMAIN typed = 1..pos
    BY <2>2
  <2>6. Len(typed) = pos
    BY <1>0, <2>4, <2>5
  <2> QED
    BY <2>3, <2>4, <2>6
<1>2. asked \in Seq(all) /\ Len(asked) \in Nat
  OBVIOUS
<1> HIDE DEF typed, all
<1>3. LineOf(asked, buf, pos) = asked \o typed
  BY DEF LineOf, typed
<1>4. /\ Len(asked \o typed) = Len(asked) + pos
      /\ \A j \in 1..Len(asked) : (asked \o typed)[j] = asked[j]
      /\ \A j \in (Len(asked) + 1)..(Len(asked) + pos) :
           (asked \o typed)[j] = typed[j - Len(asked)]
  <2>1. /\ Len(asked \o typed) = Len(asked) + Len(typed)
        /\ \A j \in 1..Len(asked) : (asked \o typed)[j] = asked[j]
        /\ \A j \in (Len(asked) + 1)..(Len(asked) + Len(typed)) :
             (asked \o typed)[j] = typed[j - Len(asked)]
    BY <1>1, <1>2, Joined
  <2> QED
    BY <1>1, <2>1
<1>5. ASSUME NEW j \in (Len(asked) + 1)..(Len(asked) + pos)
      PROVE  (asked \o typed)[j] = buf[j - Len(asked) - 1]
  <2>1. j - Len(asked) \in 1..pos
    BY <1>2
  <2> QED
    BY <1>1, <1>4, <2>1
<1> QED
  BY <1>3, <1>4, <1>5

\* What the shell has asked, before this step or after it.
LEMMA AskedIs ==
  ASSUME NEW ph, NEW name \in Seq(Letters), Len(name) <= MAX_USERNAME_SIZE
  PROVE  LET asked == IF ph = "name" THEN Question ELSE Prompt(name)
         IN  /\ asked \in Seq(Printable) /\ Len(asked) \in Nat
             /\ Len(asked) + BUFFER_SIZE + 2 * COLS <= SCREENSIZE
<1>0. /\ Question \in Seq(Printable) /\ Host \in Seq(Printable)
      /\ BUFFER_SIZE \in Nat /\ MAX_USERNAME_SIZE \in 1..BUFFER_SIZE
      /\ Len(Question) + BUFFER_SIZE + 2 * COLS <= SCREENSIZE
      /\ MAX_USERNAME_SIZE + Len(Host) + BUFFER_SIZE + 2 * COLS <= SCREENSIZE
  BY TerminalAssumption
<1>1. /\ Len(Question) \in Nat /\ Len(Host) \in Nat /\ Len(name) \in Nat
      /\ MAX_USERNAME_SIZE \in Nat
  BY <1>0
<1>2. name \in Seq(Printable)
  BY DEF Printable
<1>3. Prompt(name) \in Seq(Printable) /\ Len(Prompt(name)) = Len(name) + Len(Host)
  BY <1>0, <1>1, <1>2 DEF Prompt
<1>4. /\ Len(Prompt(name)) \in Nat
      /\ Len(Prompt(name)) + BUFFER_SIZE + 2 * COLS <= SCREENSIZE
  BY <1>0, <1>1, <1>3, Room
<1> QED
  BY <1>0, <1>1, <1>3, <1>4

\* Line fits below the status line with a row to scroll.
LEMMA LineIs ==
  ASSUME TypeOK
  PROVE  /\ Asked \in Seq(Printable) /\ Len(Asked) \in Nat
         /\ current_pos \in 0..BUFFER_SIZE /\ current_pos \in Nat
         /\ Len(Line) = Len(Asked) + current_pos
         /\ \A j \in 1..Len(Asked) : Line[j] = Asked[j]
         /\ \A j \in (Len(Asked) + 1)..Len(Line) : Line[j] = buffer[j - Len(Asked) - 1]
         /\ Len(Line) + 2 * COLS <= SCREENSIZE
<1>1. /\ username \in Seq(Letters) /\ Len(username) <= MAX_USERNAME_SIZE
      /\ current_pos \in 0..BUFFER_SIZE /\ BUFFER_SIZE \in Nat
  BY Room DEF TypeOK
<1>2. /\ Asked \in Seq(Printable) /\ Len(Asked) \in Nat
      /\ Len(Asked) + BUFFER_SIZE + 2 * COLS <= SCREENSIZE
  BY <1>1, AskedIs DEF Asked
<1>3. current_pos \in Nat /\ current_pos <= BUFFER_SIZE
  BY <1>1
<1>4. /\ Len(Line) = Len(Asked) + current_pos
      /\ \A j \in 1..Len(Asked) : Line[j] = Asked[j]
      /\ \A j \in (Len(Asked) + 1)..(Len(Asked) + current_pos) :
           Line[j] = buffer[j - Len(Asked) - 1]
  BY <1>2, <1>3, LineOfIs DEF Line
<1>5. Len(Line) + 2 * COLS <= SCREENSIZE
  BY <1>1, <1>2, <1>3, <1>4, Room
<1> QED
  BY <1>1, <1>2, <1>3, <1>4, <1>5

\* The same of the line after a step.
LEMMA NextLineIs ==
  ASSUME TypeOK'
  PROVE  /\ Asked' \in Seq(Printable) /\ Len(Asked') \in Nat
         /\ current_pos' \in Nat
         /\ Len(Line') = Len(Asked') + current_pos'
         /\ \A j \in 1..Len(Asked') : Line'[j] = Asked'[j]
         /\ \A j \in (Len(Asked') + 1)..Len(Line') : Line'[j] = buffer'[j - Len(Asked') - 1]
<1>1. /\ username' \in Seq(Letters) /\ Len(username') <= MAX_USERNAME_SIZE
      /\ current_pos' \in 0..BUFFER_SIZE /\ BUFFER_SIZE \in Nat
  BY Room DEF TypeOK
<1>2. Asked' \in Seq(Printable) /\ Len(Asked') \in Nat
  BY <1>1, AskedIs DEF Asked
<1>3. current_pos' \in Nat
  BY <1>1
<1> QED
  BY <1>2, <1>3, LineOfIs DEF Line

\* A line without blanks has no newline, tab or backspace either.
LEMMA LinePrintable ==
  ASSUME TypeOK, PlainBuffer, plain, NEW j \in 1..Len(Line)
  PROVE  Line[j] \in Printable
<1>0. /\ Asked \in Seq(Printable) /\ Len(Asked) \in Nat /\ current_pos \in Nat
      /\ Len(Line) = Len(Asked) + current_pos
      /\ \A i \in 1..Len(Asked) : Line[i] = Asked[i]
      /\ \A i \in (Len(Asked) + 1)..Len(Line) : Line[i] = buffer[i - Len(Asked) - 1]
  BY LineIs
<1>1. CASE j <= Len(Asked)
  BY <1>0, <1>1
<1>2. CASE j > Len(Asked)
  <2>1. j \in (Len(Asked) + 1)..Len(Line) /\ j - Len(Asked) - 1 \in 0..(current_pos - 1)
    BY <1>0, <1>2
  <2>2. Line[j] \in Letters
    BY <1>0, <2>1 DEF PlainBuffer
  <2> QED
    BY <2>2 DEF Printable
<1> QED
  BY <1>0, <1>1, <1>2

\* A call made is the next of the line or one before it.
LEMMA FollowsOn ==
  ASSUME TypeOK, NEW call, Make(call), NEW n \in Int, Follows(n),
         UNCHANGED <<buffer, current_pos, username, phase>>
  PROVE  /\ n < Len(Line) /\ Line' = Line /\ Follows(n + 1)'
         /\ IF n >= 0 THEN call = Line[n + 1] ELSE call \in Calls \ {BS}
<1>0. /\ todo \in Seq(Calls) /\ todo # <<>> /\ call = todo[1] /\ todo' = Tail(todo)
      /\ Len(Line) \in Nat
  BY LineIs DEF TypeOK, Make
<1>1. Line' = Line
  BY DEF Line, Asked
<1>2. /\ Len(todo) = Len(Line) - n /\ Len(todo) \in Nat /\ Len(todo) > 0
      /\ \A j \in 1..Len(todo) :
           IF n + j >= 1 THEN todo[j] = Line[n + j] ELSE todo[j] \in Calls \ {BS}
  BY <1>0 DEF Follows
<1>3. Len(todo') = Len(todo) - 1 /\ \A j \in 1..Len(todo') : todo'[j] = todo[j + 1]
  BY <1>0
<1>4. Len(todo') = Len(Line) - (n + 1)
  BY <1>0, <1>2, <1>3
<1>5. ASSUME NEW j \in 1..Len(todo')
      PROVE  IF (n + 1) + j >= 1 THEN todo'[j] = Line[(n + 1) + j]
                                 ELSE todo'[j] \in Calls \ {BS}
  <2>1. j + 1 \in 1..Len(todo) /\ n + (j + 1) = (n + 1) + j
    BY <1>2, <1>3
  <2> QED
    BY <1>2, <1>3, <2>1
<1>6. Follows(n + 1)'
  BY <1>1, <1>4, <1>5 DEF Follows
<1>7. IF n >= 0 THEN call = Line[n + 1] ELSE call \in Calls \ {BS}
  <2>1. 1 \in 1..Len(todo)
    BY <1>2
  <2> QED
    BY <1>0, <1>2, <2>1
<1>8. n < Len(Line)
  BY <1>0, <1>2
<1> QED
  BY <1>1, <1>6, <1>7, <1>8

\* Every step leaves the buffer as PlainBuffer says.
LEMMA BufferStep ==
  ASSUME TypeOK, PlainBuffer, [Next]_vars
  PROVE  PlainBuffer'
<1>0. /\ buffer \in [0..(BUFFER_SIZE - 1) -> Letters \cup {Blank, Tab, NUL}]
      /\ current_pos \in 0..BUFFER_SIZE /\ current_pos \in Nat
      /\ BUFFER_SIZE \in Nat \ {0}
  BY TerminalAssumption DEF TypeOK
<1>1. ASSUME NEW p \in {"name", "line"}, Erase(p)
      PROVE  PlainBuffer'
  <2>1. /\ current_pos > 0 /\ current_pos' = current_pos - 1 /\ UNCHANGED plain
        /\ buffer' = [buffer EXCEPT ![current_pos - 1] = NUL]
    BY <1>1 DEF Erase
  <2>2. current_pos' = 0 => buffer'[0] = NUL
    BY <1>0, <2>1
  <2>3. \A q \in 0..(current_pos' - 1) : q \in 0..(current_pos - 1) /\ buffer'[q] = buffer[q]
    BY <1>0, <2>1
  <2> QED
    BY <2>1, <2>2, <2>3 DEF PlainBuffer
<1>2. ASSUME NEW ch \in Letters, current_pos < BUFFER_SIZE, current_pos' = current_pos + 1,
             buffer' = [buffer EXCEPT ![current_pos] = ch], plain' => plain
      PROVE  PlainBuffer'
  <2>1. current_pos' # 0
    BY <1>0, <1>2
  <2>2. ASSUME plain', NEW q \in 0..(current_pos' - 1)
        PROVE  buffer'[q] \in Letters
    <3>1. CASE q = current_pos
      BY <1>0, <1>2, <3>1
    <3>2. CASE q # current_pos
      <4>1. q \in 0..(current_pos - 1) /\ buffer'[q] = buffer[q]
        BY <1>0, <1>2, <2>2, <3>2
      <4> QED
        BY <1>2, <2>2, <4>1 DEF PlainBuffer
    <3> QED
      BY <3>1, <3>2
  <2> QED
    BY <2>1, <2>2 DEF PlainBuffer
<1>3. ASSUME NEW ch \in Letters, TypeName(ch)
      PROVE  PlainBuffer'
  BY <1>2, <1>3 DEF TypeName
<1>4. ASSUME NEW ch \in Printable \cup {Tab}, TypeChar(ch)
      PROVE  PlainBuffer'
  <2> DEFINE pos == IF current_pos = BUFFER_SIZE THEN 0 ELSE current_pos
  <2>1. /\ buffer' = [buffer EXCEPT ![pos] = ch] /\ current_pos' = pos + 1
        /\ plain' = (plain /\ ch \in Letters /\ current_pos < BUFFER_SIZE)
    BY <1>4 DEF TypeChar
  <2>2. CASE plain'
    <3>1. plain /\ ch \in Letters /\ current_pos < BUFFER_SIZE
      BY <2>1, <2>2
    <3>2. pos = current_pos
      BY <1>0, <3>1
    <3> QED
      BY <1>2, <2>1, <3>1, <3>2
  <2>3. CASE ~plain'
    <3>1. current_pos' # 0
      BY <1>0, <2>1
    <3> QED
      BY <2>3, <3>1 DEF PlainBuffer
  <2> QED
    BY <2>2, <2>3
<1>5. ASSUME buffer' = CleanBuffer, current_pos' = 0
      PROVE  PlainBuffer'
  <2>1. CleanBuffer[0] = NUL
    BY <1>0 DEF CleanBuffer
  <2>2. \A q \in 0..(current_pos' - 1) : FALSE
    BY <1>5
  <2> QED
    BY <1>5, <2>1, <2>2 DEF PlainBuffer
<1>6. CASE NameAgain \/ NameGiven \/ \E command \in Commands : Enter(command)
  BY <1>5, <1>6 DEF NameAgain, NameGiven, Enter
<1>7. CASE UNCHANGED <<buffer, current_pos, plain>>
  BY <1>7 DEF PlainBuffer
<1>8. ASSUME NEW ch \in Characters, Write(ch)
      PROVE  PlainBuffer'
  BY <1>7, <1>8 DEF Write
<1>9. CASE Clear
  BY <1>7, <1>9 DEF Clear
<1>10. CASE Time
  BY <1>7, <1>10 DEF Time
<1>11. CASE Exit
  BY <1>7, <1>11 DEF Exit
<1>12. CASE Tick \/ UNCHANGED vars
  BY <1>7, <1>12 DEF Tick, vars
<1> QED
  BY <1>1, <1>3, <1>4, <1>6, <1>8, <1>9, <1>10, <1>11, <1>12 DEF Next

\* When nothing is to be written the whole line is there.
LEMMA WholeLine ==
  ASSUME TypeOK, LineKept, plain, phase # "off", todo = <<>>
  PROVE  Shown(console, Line, Len(Line))
<1>0. Len(Line) \in Nat /\ Len(todo) = 0 /\ todo # <<BS>>
  BY LineIs
<1>1. ASSUME NEW n \in 0..Len(Line), Follows(n), Shown(console, Line, n)
      PROVE  Shown(console, Line, Len(Line))
  <2>1. n = Len(Line)
    BY <1>0, <1>1 DEF Follows
  <2> QED
    BY <1>1, <2>1
<1>2. ASSUME NEW n \in Nat \ {0}, Follows(-n)
      PROVE  FALSE
  BY <1>0, <1>2 DEF Follows
<1> QED
  BY <1>0, <1>1, <1>2 DEF LineKept

\* What a key does to the line on the screen: nothing yet.
LEMMA EraseLine ==
  ASSUME TypeOK, TypeOK', PlainBuffer, LineKept, NEW p \in {"name", "line"}, Erase(p)
  PROVE  LineKept'
<1> SUFFICES ASSUME plain', phase' # "off"
             PROVE  LineKept'
  BY DEF LineKept
<1>0. /\ todo = <<>> /\ todo' = <<BS>> /\ current_pos > 0 /\ current_pos' = current_pos - 1
      /\ buffer' = [buffer EXCEPT ![current_pos - 1] = NUL]
      /\ UNCHANGED <<console, username, phase, plain>>
      /\ buffer \in [0..(BUFFER_SIZE - 1) -> Letters \cup {Blank, Tab, NUL}]
      /\ BUFFER_SIZE \in Nat
  BY TerminalAssumption DEF Erase, Reading, TypeOK
<1>1. /\ Len(Asked) \in Nat /\ current_pos \in 0..BUFFER_SIZE /\ current_pos \in Nat
      /\ Len(Line) = Len(Asked) + current_pos
      /\ \A j \in 1..Len(Asked) : Line[j] = Asked[j]
      /\ \A j \in (Len(Asked) + 1)..Len(Line) : Line[j] = buffer[j - Len(Asked) - 1]
  BY LineIs
<1>2. /\ Asked' = Asked /\ current_pos' \in Nat
      /\ Len(Line') = Len(Asked) + current_pos'
      /\ \A j \in 1..Len(Asked) : Line'[j] = Asked[j]
      /\ \A j \in (Len(Asked) + 1)..Len(Line') : Line'[j] = buffer'[j - Len(Asked) - 1]
  <2>1. Asked' = Asked
    BY <1>0 DEF Asked
  <2> QED
    BY <2>1, NextLineIs
<1>3. Len(Line) = Len(Line') + 1 /\ Len(Line') \in Nat
  BY <1>0, <1>1, <1>2
<1>4. ASSUME NEW j \in 1..Len(Line')
      PROVE  Line'[j] = Line[j]
  <2>1. CASE j <= Len(Asked)
    BY <1>1, <1>2, <2>1
  <2>2. CASE j > Len(Asked)
    <3>1. j \in (Len(Asked) + 1)..Len(Line') /\ j \in (Len(Asked) + 1)..Len(Line)
      BY <1>1, <1>3, <2>2
    <3>2. /\ j - Len(Asked) - 1 \in 0..(BUFFER_SIZE - 1)
          /\ j - Len(Asked) - 1 # current_pos - 1
      BY <1>0, <1>1, <1>2, <3>1
    <3>3. buffer'[j - Len(Asked) - 1] = buffer[j - Len(Asked) - 1]
      BY <1>0, <3>2
    <3> QED
      BY <1>1, <1>2, <3>1, <3>3
  <2> QED
    BY <1>1, <1>3, <2>1, <2>2
<1>5. Line[Len(Line)] \in Letters
  <2>1. /\ Len(Line) \in (Len(Asked) + 1)..Len(Line)
        /\ Len(Line) - Len(Asked) - 1 \in 0..(current_pos - 1)
    BY <1>0, <1>1
  <2> QED
    BY <1>0, <1>1, <2>1 DEF PlainBuffer
<1>6. /\ console.loc >= COLS + Len(Line) /\ console.loc \in Nat
      /\ \A q \in 1..Len(Line) : console.video[console.loc - q] = Line[Len(Line) + 1 - q]
  BY <1>0, WholeLine, Room DEF Shown, TypeOK
<1>7. console.loc > 0 /\ console.video[console.loc - 1] \in Letters
  <2>1. 1 \in 1..Len(Line) /\ Len(Line) + 1 - 1 = Len(Line)
    BY <1>3
  <2>2. console.video[console.loc - 1] = Line[Len(Line)]
    BY <1>6, <2>1
  <2>3. console.loc > 0
    BY <1>3, <1>6, Room
  <2> QED
    BY <1>5, <2>2, <2>3
<1>8. ASSUME NEW q \in 1..Len(Line')
      PROVE  console.video[(console.loc - 1) - q] = Line'[Len(Line') + 1 - q]
  <2>1. /\ q + 1 \in 1..Len(Line) /\ (console.loc - 1) - q = console.loc - (q + 1)
        /\ Len(Line) + 1 - (q + 1) = Len(Line') + 1 - q
        /\ Len(Line') + 1 - q \in 1..Len(Line')
    <3>1. /\ q \in Nat /\ q > 0 /\ q <= Len(Line') /\ Len(Line') \in Nat
          /\ Len(Line) = Len(Line') + 1 /\ console.loc \in Nat
      BY <1>3, <1>6
    <3> QED
      BY <3>1
  <2>2. console.video[console.loc - (q + 1)] = Line[Len(Line) + 1 - (q + 1)]
    BY <1>6, <2>1
  <2> QED
    BY <1>4, <2>1, <2>2
<1>9. ShownBefore(console, Line', Len(Line'))
  BY <1>3, <1>6, <1>7, <1>8, Room DEF ShownBefore, Shown
<1> QED
  BY <1>0, <1>9 DEF LineKept

\* A character typed goes behind the line, which is still to show it.
LEMMA TypedLine ==
  ASSUME TypeOK, TypeOK', LineKept, plain, phase # "off", todo = <<>>, NEW ch,
         todo' = <<ch>>, buffer' = [buffer EXCEPT ![current_pos] = ch],
         current_pos < BUFFER_SIZE, current_pos' = current_pos + 1,
         UNCHANGED <<console, username, phase>>
  PROVE  LineKept'
<1>0. /\ buffer \in [0..(BUFFER_SIZE - 1) -> Letters \cup {Blank, Tab, NUL}]
      /\ BUFFER_SIZE \in Nat
  BY TerminalAssumption DEF TypeOK
<1>1. /\ Len(Asked) \in Nat /\ current_pos \in Nat
      /\ Len(Line) = Len(Asked) + current_pos
      /\ \A j \in 1..Len(Asked) : Line[j] = Asked[j]
      /\ \A j \in (Len(Asked) + 1)..Len(Line) : Line[j] = buffer[j - Len(Asked) - 1]
  BY LineIs
<1>2. /\ Len(Line') = Len(Asked) + current_pos'
      /\ \A j \in 1..Len(Asked) : Line'[j] = Asked[j]
      /\ \A j \in (Len(Asked) + 1)..Len(Line') : Line'[j] = buffer'[j - Len(Asked) - 1]
  <2>1. Asked' = Asked
    BY DEF Asked
  <2> QED
    BY <2>1, NextLineIs
<1>3. Len(Line') = Len(Line) + 1 /\ Len(Line) \in Nat
  BY <1>1, <1>2
<1>4. ASSUME NEW j \in 1..Len(Line)
      PROVE  Line'[j] = Line[j]
  <2>1. CASE j <= Len(Asked)
    BY <1>1, <1>2, <2>1
  <2>2. CASE j > Len(Asked)
    <3>1. j \in (Len(Asked) + 1)..Len(Line') /\ j \in (Len(Asked) + 1)..Len(Line)
      BY <1>1, <1>3, <2>2
    <3>2. /\ j - Len(Asked) - 1 \in 0..(BUFFER_SIZE - 1)
          /\ j - Len(Asked) - 1 # current_pos
      BY <1>0, <1>1, <3>1
    <3>3. buffer'[j - Len(Asked) - 1] = buffer[j - Len(Asked) - 1]
      BY <1>0, <3>2
    <3> QED
      BY <1>1, <1>2, <3>1, <3>3
  <2> QED
    BY <1>1, <1>3, <2>1, <2>2
<1>5. Line'[Len(Line) + 1] = ch
  <2>1. /\ Len(Line) + 1 \in (Len(Asked) + 1)..Len(Line')
        /\ (Len(Line) + 1) - Len(Asked) - 1 = current_pos
        /\ current_pos \in 0..(BUFFER_SIZE - 1)
    BY <1>0, <1>1, <1>3
  <2> QED
    BY <1>0, <1>2, <2>1
<1>6. ASSUME NEW n \in Nat, n = Len(Line)
      PROVE  LineKept'
  <2>1. Shown(console, Line', n)
    BY <1>4, <1>6, WholeLine, ShownAlike
  <2>2. Len(todo') = 1 /\ todo'[1] = ch
    OBVIOUS
  <2>3. Follows(n)'
    BY <1>3, <1>5, <1>6, <2>2 DEF Follows
  <2> QED
    BY <1>3, <1>6, <2>1, <2>3 DEF LineKept
<1> QED
  BY <1>3, <1>6

\* After the newline key the texts of an answer, and then the question or the prompt,
\* are to be written, the first of them a newline or below the status line.
LEMMA AnsweredLine ==
  ASSUME TypeOK', NEW s \in Seq(Calls \ {BS}), s # <<>>, s[1] = NL,
         todo' = s \o Asked', current_pos' = 0
  PROVE  LineKept'
<1>1. /\ Asked' \in Seq(Printable) /\ Len(Asked') \in Nat
      /\ Len(Line') = Len(Asked')
      /\ \A j \in 1..Len(Asked') : Line'[j] = Asked'[j]
  BY NextLineIs
<1>2. Len(s) \in Nat \ {0} /\ \A j \in 1..Len(s) : s[j] \in Calls \ {BS}
  BY QuietTexts
<1>3. /\ Len(todo') = Len(s) + Len(Asked')
      /\ \A j \in 1..Len(s) : todo'[j] = s[j]
      /\ \A j \in (Len(s) + 1)..Len(todo') : todo'[j] = Asked'[j - Len(s)]
  BY <1>1, <1>2
<1>4. ASSUME NEW n \in Nat \ {0}, n = Len(s)
      PROVE  LineKept'
  <2>1. ASSUME NEW j \in 1..Len(todo')
        PROVE  IF -n + j >= 1 THEN todo'[j] = Line'[-n + j] ELSE todo'[j] \in Calls \ {BS}
    <3>1. CASE j <= n
      BY <1>2, <1>3, <1>4, <3>1
    <3>2. CASE j > n
      <4>1. j \in (Len(s) + 1)..Len(todo') /\ j - Len(s) = -n + j
            /\ -n + j \in 1..Len(Asked')
        BY <1>1, <1>3, <1>4, <3>2
      <4> QED
        BY <1>1, <1>3, <4>1
    <3> QED
      BY <1>4, <3>1, <3>2
  <2>2. Len(todo') = Len(Line') - (-n)
    BY <1>1, <1>3, <1>4
  <2>3. Follows(-n)'
    BY <2>1, <2>2 DEF Follows
  <2>4. todo'[1] = NL
    BY <1>2, <1>3
  <2> QED
    BY <2>3, <2>4 DEF LineKept
<1> QED
  BY <1>2, <1>4

\* Every key leaves the line as LineKept says.
LEMMA KeyKeeps ==
  ASSUME TypeOK, TypeOK', PlainBuffer, LineKept,
         \/ \E p \in {"name", "line"} : Erase(p)
         \/ \E ch \in Letters : TypeName(ch)
         \/ \E ch \in Printable \cup {Tab} : TypeChar(ch)
         \/ NameAgain \/ NameGiven
         \/ \E command \in Commands : Enter(command)
  PROVE  LineKept' /\ UNCHANGED console
<1> SUFFICES LineKept'
  BY DEF Erase, TypeName, TypeChar, NameAgain, NameGiven, Enter
<1> SUFFICES ASSUME plain', phase' # "off"
             PROVE  LineKept'
  BY DEF LineKept
<1>0. /\ Question \in Seq(Calls \ {BS}) /\ TooLong \in Seq(Calls \ {BS})
      /\ <<NL>> \in Seq(Calls \ {BS}) /\ <<>> \in Seq(Calls \ {BS})
      /\ \A s, t \in Seq(Calls \ {BS}) : s \o t \in Seq(Calls \ {BS})
      /\ Commands \subseteq Seq(Calls \ {BS})
      /\ current_pos \in 0..BUFFER_SIZE /\ BUFFER_SIZE \in Nat
  BY TerminalAssumption, QuietTexts DEF TypeOK
<1>1. ASSUME NEW p \in {"name", "line"}, Erase(p)
      PROVE  LineKept'
  BY <1>1, EraseLine
<1>2. ASSUME NEW ch \in Letters, TypeName(ch)
      PROVE  LineKept'
  <2>1. /\ todo = <<>> /\ todo' = <<ch>> /\ phase # "off" /\ current_pos < BUFFER_SIZE
        /\ buffer' = [buffer EXCEPT ![current_pos] = ch] /\ current_pos' = current_pos + 1
        /\ plain /\ UNCHANGED <<console, username, phase>>
    BY <1>2 DEF TypeName, Reading
  <2> QED
    BY <2>1, TypedLine
<1>3. ASSUME NEW ch \in Printable \cup {Tab}, TypeChar(ch)
      PROVE  LineKept'
  <2> DEFINE pos == IF current_pos = BUFFER_SIZE THEN 0 ELSE current_pos
  <2>1. /\ todo = <<>> /\ todo' = <<ch>> /\ phase # "off"
        /\ buffer' = [buffer EXCEPT ![pos] = ch] /\ current_pos' = pos + 1
        /\ UNCHANGED <<console, username, phase>>
    BY <1>3 DEF TypeChar, Reading
  <2>2. plain /\ current_pos < BUFFER_SIZE
    BY <1>3 DEF TypeChar
  <2>3. pos = current_pos
    BY <1>0, <2>2
  <2> HIDE DEF pos
  <2>4. buffer' = [buffer EXCEPT ![current_pos] = ch] /\ current_pos' = current_pos + 1
    BY <2>1, <2>3
  <2> QED
    BY <2>1, <2>2, <2>4, TypedLine
<1>4. ASSUME NEW s \in Seq(Calls \ {BS}), todo' = (<<NL>> \o s) \o Asked', current_pos' = 0
      PROVE  LineKept'
  <2> DEFINE r == <<NL>> \o s
  <2>1. r \in Seq(Calls \ {BS}) /\ r # <<>> /\ r[1] = NL
    BY <1>0, <1>4
  <2> HIDE DEF r
  <2>2. todo' = r \o Asked'
    BY <1>4 DEF r
  <2> QED
    BY <1>4, <2>1, <2>2, AnsweredLine
<1>5. CASE NameAgain
  <2>1. /\ todo' = (IF current_pos = 0 THEN <<NL>> ELSE <<NL>> \o TooLong \o <<NL>>)
                   \o Question
        /\ current_pos' = 0 /\ Asked' = Question
    BY <1>5 DEF NameAgain, Reading, Asked
  <2>2. CASE current_pos = 0
    <3>1. <<NL>> = <<NL>> \o <<>>
      OBVIOUS
    <3>2. todo' = (<<NL>> \o <<>>) \o Asked'
      BY <2>1, <2>2, <3>1
    <3> QED
      BY <1>0, <1>4, <2>1, <3>2
  <2>3. CASE current_pos # 0
    <3>1. TooLong \o <<NL>> \in Seq(Calls \ {BS})
      BY <1>0
    <3>2. <<NL>> \o TooLong \o <<NL>> = <<NL>> \o (TooLong \o <<NL>>)
      BY <1>0
    <3>3. todo' = (<<NL>> \o (TooLong \o <<NL>>)) \o Asked'
      BY <2>1, <2>3, <3>2
    <3> QED
      BY <1>4, <2>1, <3>1, <3>3
  <2> QED
    BY <2>2, <2>3
<1>6. CASE NameGiven
  <2>1. /\ todo' = <<NL>> \o Prompt(username') /\ current_pos' = 0
        /\ Asked' = Prompt(username')
    BY <1>6 DEF NameGiven, Asked
  <2>2. <<NL>> = <<NL>> \o <<>>
    OBVIOUS
  <2>3. todo' = (<<NL>> \o <<>>) \o Asked'
    BY <2>1, <2>2
  <2> QED
    BY <1>0, <1>4, <2>1, <2>3
<1>7. ASSUME NEW command \in Commands, Enter(command)
      PROVE  LineKept'
  <2> DEFINE answer == IF buffer[0] = NUL THEN <<NL>> ELSE command
  <2>1. /\ todo' = (IF current_pos # 0 THEN <<NL>> ELSE <<>>) \o answer \o Prompt(username)
        /\ current_pos' = 0 /\ Asked' = Prompt(username)
    BY <1>7 DEF Enter, Reading, Asked
  <2>2. answer \in Seq(Calls \ {BS})
    BY <1>0
  <2>3. CASE current_pos # 0
    <3> HIDE DEF answer
    <3>1. todo' = (<<NL>> \o answer) \o Asked'
      BY <2>1, <2>3
    <3> QED
      BY <1>4, <2>1, <2>2, <3>1
  <2>4. CASE current_pos = 0
    <3>1. answer = <<NL>>
      BY <2>4 DEF PlainBuffer
    <3>2. <<>> \o <<NL>> = <<NL>> \o <<>>
      OBVIOUS
    <3>3. todo' = (<<NL>> \o <<>>) \o Asked'
      BY <2>1, <2>4, <3>1, <3>2
    <3> QED
      BY <1>0, <1>4, <2>1, <3>3
  <2> QED
    BY <2>3, <2>4
<1> QED
  BY <1>1, <1>2, <1>3, <1>5, <1>6, <1>7

(***************************************************************************)
(* The calls, and the interrupt.                                           *)
(***************************************************************************)

\* A character written is the next of the line, or one before it, or the backspace that
\* takes a letter.
LEMMA WriteKeeps ==
  ASSUME TypeOK, TypeOK', NothingAhead, PlainBuffer, LineKept,
         NEW ch \in Characters, Write(ch)
  PROVE  LineKept' /\ KeepsStatus
<1> SUFFICES ASSUME plain, phase # "off"
             PROVE  LineKept' /\ KeepsStatus
  BY DEF Write, LineKept, KeepsStatus
<1>0. /\ console \in Consoles /\ Clean(console) /\ Make(ch) /\ todo # <<>>
      /\ ch = todo[1] /\ todo' = Tail(todo) /\ todo \in Seq(Calls)
      /\ console' = Putchar(console, ch)
      /\ UNCHANGED <<buffer, current_pos, username, phase, plain>>
      /\ Len(Line) \in Nat
      /\ Len(Line) + 2 * COLS <= SCREENSIZE
  BY LineIs DEF TypeOK, Consoles, NothingAhead, Clean, Write, Make
<1>1. ASSUME SameStatus(console, console'), console'.loc >= COLS
      PROVE  KeepsStatus
  BY <1>1 DEF KeepsStatus, SameStatus
<1>2. CASE todo = <<BS>> /\ ShownBefore(console, Line, Len(Line))
  <2>1. ch = BS /\ todo' = <<>> /\ Len(todo') = 0
    BY <1>0, <1>2
  <2>2. console' = Put(console, BS)
    BY <1>0, <2>1 DEF Putchar, BS, Tab
  <2>3. Shown(console', Line, Len(Line)) /\ SameStatus(console, console')
    BY <1>0, <1>2, <2>2, EraseShown
  <2>4. Line' = Line
    BY <1>0 DEF Line, Asked
  <2>5. console' \in Consoles
    BY DEF TypeOK, Consoles
  <2>6. console'.loc >= COLS
    BY <1>0, <2>3, <2>5, Room DEF Shown, Consoles
  <2>7. ASSUME NEW n \in Nat, n = Len(Line)
        PROVE  LineKept'
    <3>1. Follows(n)'
      BY <2>1, <2>4, <2>7 DEF Follows
    <3> QED
      BY <2>3, <2>4, <2>7, <3>1 DEF LineKept
  <2> QED
    BY <1>0, <1>1, <2>3, <2>6, <2>7
<1>3. ASSUME NEW n \in 0..Len(Line), Follows(n), Shown(console, Line, n)
      PROVE  LineKept' /\ KeepsStatus
  <2>0. n \in Nat /\ n \in Int
    OBVIOUS
  <2>1. n < Len(Line) /\ Line' = Line /\ Follows(n + 1)' /\ ch = Line[n + 1]
    BY <1>0, <1>3, <2>0, FollowsOn
  <2>2. n + 1 \in 1..Len(Line)
    BY <1>0, <2>0, <2>1
  <2>3. ch \in Printable
    BY <2>1, <2>2, LinePrintable
  <2>4. ch # Tab /\ ch # BS
    BY <2>3, TerminalAssumption DEF Printable, Blank, Tab, BS
  <2>5. console' = Put(console, Line[n + 1])
    BY <1>0, <2>1, <2>4 DEF Putchar
  <2>6. (n + 1) + 2 * COLS <= SCREENSIZE
    BY <1>0, <2>0, <2>1, Room
  <2>7. Shown(console', Line, n + 1)
    BY <1>0, <1>3, <2>0, <2>1, <2>3, <2>5, <2>6, PutShown
  <2>8. console.loc >= COLS
    BY <1>0, <1>3, <2>0, Room DEF Shown, Consoles
  <2>9. SameStatus(console, console') /\ console'.loc >= COLS
    BY <1>0, <2>4, <2>8, PutcharBelow
  <2>10. LineKept'
    BY <2>1, <2>2, <2>7 DEF LineKept
  <2> QED
    BY <1>1, <2>9, <2>10
<1>4. ASSUME NEW n \in Nat \ {0}, Follows(-n), current_pos = 0,
             console.loc >= COLS \/ todo[1] = NL
      PROVE  LineKept' /\ KeepsStatus
  <2>1. Line' = Line /\ Follows(-n + 1)' /\ ch \in Calls \ {BS}
    BY <1>0, <1>4, FollowsOn
  <2>2. SameStatus(console, console') /\ console'.loc >= COLS
    BY <1>0, <1>4, <2>1, PutcharBelow
  <2>3. CASE n = 1
    <3>1. Follows(0)'
      BY <2>1, <2>3
    <3>2. Shown(console', Line, 0)
      <4>1. console' \in Consoles
        BY DEF TypeOK, Consoles
      <4> QED
        BY <2>2, <4>1, Room DEF Shown, Consoles
    <3>3. 0 \in 0..Len(Line)
      BY <1>0
    <3> QED
      BY <1>1, <2>1, <2>2, <3>1, <3>2, <3>3 DEF LineKept
  <2>4. CASE n # 1
    <3>1. n - 1 \in Nat \ {0} /\ -n + 1 = -(n - 1)
      BY <2>4
    <3>2. Follows(-(n - 1))'
      BY <2>1, <3>1
    <3>3. LineKept'
      BY <1>0, <1>4, <2>2, <3>1, <3>2 DEF LineKept
    <3> QED
      BY <1>1, <2>2, <3>3
  <2> QED
    BY <2>3, <2>4
<1> QED
  BY <1>2, <1>3, <1>4 DEF LineKept

\* Clearing the console comes before the prompt is written.
LEMMA ClearKeeps ==
  ASSUME TypeOK, TypeOK', PlainBuffer, LineKept, Clear
  PROVE  LineKept' /\ KeepsStatus
<1> SUFFICES ASSUME plain, phase # "off"
             PROVE  LineKept' /\ KeepsStatus
  BY DEF Clear, LineKept, KeepsStatus
<1>0. /\ Make("clear") /\ todo[1] = "clear" /\ todo # <<>>
      /\ console' = ClearConsole(console)
      /\ UNCHANGED <<buffer, current_pos, username, phase, plain>>
      /\ Len(Line) \in Nat
  BY LineIs DEF Clear, Make
<1>1. SameStatus(console, console') /\ console'.loc = COLS /\ COLS >= COLS
  BY <1>0, Room DEF ClearConsole, SameStatus
<1>2. KeepsStatus
  BY <1>1 DEF KeepsStatus, SameStatus
<1>3. todo # <<BS>>
  BY <1>0 DEF BS
<1>4. ASSUME NEW n \in 0..Len(Line), Follows(n)
      PROVE  FALSE
  <2>1. n < Len(Line) /\ Line[n + 1] = "clear"
    BY <1>0, <1>4, FollowsOn
  <2>2. n + 1 \in 1..Len(Line)
    BY <1>0, <2>1
  <2>3. Line[n + 1] \in Printable
    BY <2>2, LinePrintable
  <2> QED
    BY <2>1, <2>3, TerminalAssumption DEF Printable, Blank
<1>5. ASSUME NEW n \in Nat \ {0}, Follows(-n), current_pos = 0
      PROVE  LineKept'
  <2>1. Line' = Line /\ Follows(-n + 1)'
    BY <1>0, <1>5, FollowsOn
  <2>2. CASE n = 1
    <3>1. Follows(0)'
      BY <2>1, <2>2
    <3>2. Shown(console', Line, 0)
      BY <1>1, Room DEF Shown
    <3>3. 0 \in 0..Len(Line)
      BY <1>0
    <3> QED
      BY <2>1, <3>1, <3>2, <3>3 DEF LineKept
  <2>3. CASE n # 1
    <3>1. n - 1 \in Nat \ {0} /\ -n + 1 = -(n - 1)
      BY <2>3
    <3>2. Follows(-(n - 1))'
      BY <2>1, <3>1
    <3> QED
      BY <1>0, <1>1, <1>5, <3>1, <3>2 DEF LineKept
  <2> QED
    BY <2>2, <2>3
<1> QED
  BY <1>2, <1>3, <1>4, <1>5 DEF LineKept

\* The clock's corner is no part of the line.
LEMMA CornerKeeps ==
  ASSUME console \in Consoles,
         \/ console' = ShowTime(console) /\ clock'
         \/ console' = HideTime(console) /\ ~clock'
  PROVE  KeepsStatus
<1>1. \A i \in StatusLine : i \in Cells
  BY Room
<1>2. CASE console' = ShowTime(console) /\ clock'
  <2>1. console'.loc = console.loc
    BY <1>2, CornerOnly
  <2>2. ASSUME NEW i \in StatusLine, console'.video[i] # console.video[i]
        PROVE  i \in Corner /\ console'.video[i] = Clock[i - ClockCol + 1]
    BY <1>1, <1>2, <2>2, CornerOnly
  <2> QED
    BY <1>2, <2>1, <2>2 DEF KeepsStatus
<1>3. CASE console' = HideTime(console) /\ ~clock'
  <2>1. console'.loc = console.loc
    BY <1>3, CornerOnly
  <2>2. ASSUME NEW i \in StatusLine, console'.video[i] # console.video[i]
        PROVE  i \in Corner /\ console'.video[i] = Blank
    BY <1>1, <1>3, <2>2, CornerOnly
  <2> QED
    BY <1>3, <2>1, <2>2 DEF KeepsStatus
<1> QED
  BY <1>2, <1>3

\* The interrupt leaves the line and the rest of the status line alone.
LEMMA TickKeeps ==
  ASSUME TypeOK, TypeOK', LineKept, Tick
  PROVE  LineKept' /\ KeepsStatus
<1>0. /\ console' = ShowTime(console) /\ clock /\ clock' = clock /\ console \in Consoles
      /\ UNCHANGED <<buffer, current_pos, username, phase, todo, plain>>
      /\ Len(Line) \in Nat
  BY LineIs DEF Tick, TypeOK, Consoles
<1>1. KeepsStatus
  BY <1>0, CornerKeeps
<1>2. Line' = Line /\ console'.loc = console.loc
  BY <1>0, CornerOnly DEF Line, Asked
<1> SUFFICES ASSUME plain, phase # "off"
             PROVE  LineKept'
  BY <1>0, <1>1 DEF LineKept
<1>3. CASE todo = <<BS>> /\ ShownBefore(console, Line, Len(Line))
  <2>1. ShownBefore(console', Line, Len(Line))
    BY <1>0, <1>3, ClockShownBefore
  <2> QED
    BY <1>0, <1>2, <1>3, <2>1 DEF LineKept
<1>4. ASSUME NEW n \in 0..Len(Line), Follows(n), Shown(console, Line, n)
      PROVE  LineKept'
  <2>1. n \in Nat
    OBVIOUS
  <2>2. Shown(console', Line, n)
    BY <1>0, <1>4, <2>1, ClockShown
  <2>3. Follows(n)'
    BY <1>0, <1>2, <1>4 DEF Follows
  <2> QED
    BY <1>2, <2>2, <2>3 DEF LineKept
<1>5. ASSUME NEW n \in Nat \ {0}, Follows(-n), current_pos = 0,
             console.loc >= COLS \/ todo[1] = NL
      PROVE  LineKept'
  <2>1. Follows(-n)'
    BY <1>0, <1>2, <1>5 DEF Follows
  <2> QED
    BY <1>0, <1>2, <1>5, <2>1 DEF LineKept
<1> QED
  BY <1>1, <1>3, <1>4, <1>5 DEF LineKept

\* So does switching the clock on and off.
LEMMA TimeKeeps ==
  ASSUME TypeOK, TypeOK', PlainBuffer, LineKept, Time
  PROVE  LineKept' /\ KeepsStatus
<1>0. /\ Make("time") /\ todo[1] = "time" /\ todo # <<>> /\ console \in Consoles
      /\ UNCHANGED <<buffer, current_pos, username, phase, plain>>
      /\ Len(Line) \in Nat
  BY LineIs DEF Time, Make, TypeOK, Consoles
<1>1. \/ console' = ShowTime(console) /\ clock'
      \/ console' = HideTime(console) /\ ~clock'
  <2>1. CASE clock
    BY <2>1, Zenon DEF Time
  <2>2. CASE ~clock
    BY <2>2, Zenon DEF Time
  <2> QED
    BY <2>1, <2>2
<1>2. KeepsStatus
  BY <1>0, <1>1, CornerKeeps
<1>3. console'.loc = console.loc
  BY <1>0, <1>1, CornerOnly
<1> SUFFICES ASSUME plain, phase # "off"
             PROVE  LineKept'
  BY <1>0, <1>2 DEF LineKept
<1>4. todo # <<BS>>
  BY <1>0 DEF BS
<1>5. ASSUME NEW n \in 0..Len(Line), Follows(n)
      PROVE  FALSE
  <2>1. n < Len(Line) /\ Line[n + 1] = "time"
    BY <1>0, <1>5, FollowsOn
  <2>2. n + 1 \in 1..Len(Line)
    BY <1>0, <2>1
  <2>3. Line[n + 1] \in Printable
    BY <2>2, LinePrintable
  <2> QED
    BY <2>1, <2>3, TerminalAssumption DEF Printable, Blank
<1>6. ASSUME NEW n \in Nat \ {0}, Follows(-n), current_pos = 0,
             console.loc >= COLS \/ todo[1] = NL
      PROVE  LineKept'
  <2>1. Line' = Line /\ Follows(-n + 1)'
    BY <1>0, <1>6, FollowsOn
  <2>2. console.loc >= COLS /\ console'.loc >= COLS
    BY <1>0, <1>3, <1>6 DEF NL
  <2>3. CASE n = 1
    <3>1. Follows(0)'
      BY <2>1, <2>3
    <3>2. Shown(console', Line, 0)
      <4>1. console' \in Consoles
        BY DEF TypeOK, Consoles
      <4> QED
        BY <2>2, <4>1, Room DEF Shown, Consoles
    <3>3. 0 \in 0..Len(Line)
      BY <1>0
    <3> QED
      BY <2>1, <3>1, <3>2, <3>3 DEF LineKept
  <2>4. CASE n # 1
    <3>1. n - 1 \in Nat \ {0} /\ -n + 1 = -(n - 1)
      BY <2>4
    <3>2. Follows(-(n - 1))'
      BY <2>1, <3>1
    <3> QED
      BY <1>0, <1>6, <2>2, <3>1, <3>2 DEF LineKept
  <2> QED
    BY <2>3, <2>4
<1> QED
  BY <1>2, <1>4, <1>5, <1>6 DEF LineKept

\* Every step keeps the line and the status line.
LEMMA LineStep ==
  ASSUME IInv, IInv', PlainBuffer, LineKept, [Next]_vars
  PROVE  PlainBuffer' /\ LineKept' /\ [KeepsStatus]_vars
<1>0. TypeOK /\ TypeOK' /\ NothingAhead
  BY DEF IInv
<1>1. PlainBuffer'
  BY <1>0, BufferStep
<1> SUFFICES LineKept' /\ [KeepsStatus]_vars
  BY <1>1
<1>2. ASSUME \/ \E p \in {"name", "line"} : Erase(p)
             \/ \E ch \in Letters : TypeName(ch)
             \/ \E ch \in Printable \cup {Tab} : TypeChar(ch)
             \/ NameAgain \/ NameGiven
             \/ \E command \in Commands : Enter(command)
      PROVE  LineKept' /\ KeepsStatus
  <2>1. LineKept' /\ UNCHANGED console
    BY <1>0, <1>2, KeyKeeps
  <2> QED
    BY <2>1 DEF KeepsStatus
<1>3. ASSUME NEW ch \in Characters, Write(ch)
      PROVE  LineKept' /\ KeepsStatus
  BY <1>0, <1>3, WriteKeeps
<1>4. CASE Clear
  BY <1>0, <1>4, ClearKeeps
<1>5. CASE Time
  BY <1>0, <1>5, TimeKeeps
<1>6. CASE Exit
  BY <1>6 DEF Exit, LineKept, KeepsStatus
<1>7. CASE Tick
  BY <1>0, <1>7, TickKeeps
<1>8. CASE UNCHANGED vars
  <2>1. Line' = Line /\ \A n : Follows(n)' <=> Follows(n)
    BY <1>8 DEF vars, Line, Asked, Follows
  <2>2. UNCHANGED vars /\ UNCHANGED <<console, current_pos, phase, todo, plain>>
    BY <1>8 DEF vars
  <2>3. LineKept'
    BY <2>1, <2>2 DEF LineKept
  <2> QED
    BY <2>2, <2>3
<1> QED
  BY <1>2, <1>3, <1>4, <1>5, <1>6, <1>7, <1>8 DEF Next

\* A line without blanks is kept on the screen as far as it is written, through every
\* key, call and interrupt.
THEOREM LineInvariant == Spec => [](IInv /\ PlainBuffer /\ LineKept)
<1>1. Init => IInv /\ PlainBuffer /\ LineKept
  <2> SUFFICES ASSUME Init
               PROVE  IInv /\ PlainBuffer /\ LineKept
    OBVIOUS
  <2>1. IInv /\ TypeOK
    BY Start DEF IInv
  <2>2. /\ console = PutsAt(ClearScreen, Title, 0, 0) /\ buffer = CleanBuffer
        /\ current_pos = 0 /\ phase = "name" /\ todo = Question
    BY DEF Init
  <2>3. PlainBuffer
    <3>1. buffer[0] = NUL
      BY <2>2, Room DEF CleanBuffer
    <3>2. \A p \in 0..(current_pos - 1) : FALSE
      BY <2>2
    <3> QED
      BY <3>1, <3>2 DEF PlainBuffer
  <2>4. console.loc = COLS
    BY <2>2 DEF PutsAt, ClearScreen
  <2>5. /\ Asked = Question /\ Len(Question) \in Nat /\ Len(Line) = Len(Question)
        /\ \A j \in 1..Len(Question) : Line[j] = Question[j]
    BY <2>1, <2>2, LineIs DEF Asked
  <2>6. Follows(0) /\ Shown(console, Line, 0) /\ 0 \in 0..Len(Line)
    BY <2>2, <2>4, <2>5, Room DEF Follows, Shown
  <2> QED
    BY <2>1, <2>3, <2>6 DEF LineKept
<1>2. ASSUME IInv, PlainBuffer, LineKept, [Next]_vars, IInv'
      PROVE  PlainBuffer' /\ LineKept'
  BY <1>2, LineStep
<1> QED
  BY <1>1, <1>2, TerminalInvariant, PTL DEF Spec

\* The console and the clock keep apart: while the lines are typed without blanks no
\* step of the shell writes on the status line, and no interrupt outside its corner.
THEOREM ClockKeepsApart == Spec => StatusKept
<1>1. ASSUME IInv, PlainBuffer, LineKept, [Next]_vars, IInv'
      PROVE  [KeepsStatus]_vars
  BY <1>1, LineStep
<1> QED
  BY <1>1, LineInvariant, PTL DEF Spec, StatusKept

\* What the shell will run is what the user sees: a line without blanks that fits the
\* buffer stands before the cursor whenever the shell waits for a key.
THEOREM LineIsShown == Spec => []LineShown
<1>1. ASSUME IInv, LineKept
      PROVE  LineShown
  <2> SUFFICES ASSUME plain, todo = <<>>, phase # "off"
               PROVE  LET from == console.loc - current_pos
                          asked == from - Len(Asked)
                      IN  /\ asked >= COLS
                          /\ \A p \in 0..(current_pos - 1) : console.video[from + p] = buffer[p]
                          /\ \A j \in 1..Len(Asked) : console.video[asked + j - 1] = Asked[j]
    BY DEF LineShown
  <2>1. TypeOK
    BY <1>1 DEF IInv
  <2>2. /\ Len(Asked) \in Nat /\ current_pos \in Nat
        /\ Len(Line) = Len(Asked) + current_pos
        /\ \A j \in 1..Len(Asked) : Line[j] = Asked[j]
        /\ \A j \in (Len(Asked) + 1)..Len(Line) : Line[j] = buffer[j - Len(Asked) - 1]
    BY <2>1, LineIs
  <2>3. /\ console.loc >= COLS + Len(Line) /\ console.loc \in Nat
        /\ \A q \in 1..Len(Line) : console.video[console.loc - q] = Line[Len(Line) + 1 - q]
    BY <1>1, <2>1, WholeLine, Room DEF Shown, TypeOK
  <2>4. (console.loc - current_pos) - Len(Asked) >= COLS
    BY <2>2, <2>3, Room
  <2>5. ASSUME NEW p \in 0..(current_pos - 1)
        PROVE  console.video[(console.loc - current_pos) + p] = buffer[p]
    <3>0. /\ p \in Nat /\ p < current_pos /\ current_pos \in Nat /\ console.loc \in Nat
          /\ Len(Asked) \in Nat /\ Len(Line) = Len(Asked) + current_pos
      BY <2>2, <2>3
    <3>1. /\ current_pos - p \in 1..Len(Line)
          /\ console.loc - (current_pos - p) = (console.loc - current_pos) + p
          /\ Len(Line) + 1 - (current_pos - p) \in (Len(Asked) + 1)..Len(Line)
          /\ (Len(Line) + 1 - (current_pos - p)) - Len(Asked) - 1 = p
      BY <3>0
    <3> QED
      BY <2>2, <2>3, <3>1
  <2>6. ASSUME NEW j \in 1..Len(Asked)
        PROVE  console.video[((console.loc - current_pos) - Len(Asked)) + j - 1] = Asked[j]
    <3>1. /\ Len(Line) + 1 - j \in 1..Len(Line)
          /\ console.loc - (Len(Line) + 1 - j)
                = ((console.loc - current_pos) - Len(Asked)) + j - 1
          /\ Len(Line) + 1 - (Len(Line) + 1 - j) = j
      BY <2>2, <2>3
    <3> QED
      BY <2>2, <2>3, <3>1
  <2> QED
    BY <2>4, <2>5, <2>6
<1> QED
  BY <1>1, LineInvariant, PTL
=============================================================================
