------------------------------ MODULE Console -------------------------------
(***************************************************************************)
(* video.c: the text screen.  Row 0 is the status line; the console has the *)
(* others.  A console is a record of the screen's characters and of         *)
(* current_loc, both counted in cells (the code counts bytes, two to a      *)
(* cell); attributes are left out.                                          *)
(***************************************************************************)
EXTENDS Integers, Sequences, FiniteSetsExt

CONSTANTS ROWS, COLS

ASSUME ConsoleAssumption == ROWS \in Nat /\ ROWS > 2 /\ COLS \in Nat /\ COLS > 0

Blank == "blank"
NL == "newline"
BS == "backspace"
Tab == "tab"

SCREENSIZE == ROWS * COLS
Cells == 0..(SCREENSIZE - 1)
StatusLine == 0..(COLS - 1)

\* fill and clear_screen.
ClearScreen == [video |-> [i \in Cells |-> Blank], loc |-> COLS]

ClearConsole(c) ==
  [video |-> [i \in Cells |-> IF i \in StatusLine THEN c.video[i] ELSE Blank],
   loc |-> COLS]

\* puts_at: the text goes on in the next row, and stops at the screen's end.
PutsAt(c, str, r, col) ==
  LET first == r * COLS + col
  IN  [c EXCEPT !.video = [i \in Cells |->
         IF i - first + 1 \in 1..Len(str) THEN str[i - first + 1] ELSE c.video[i]]]

\* Slip: the last row keeps what it held.
ScrolledRaw(c) ==
  [video |-> [i \in Cells |->
     IF i \in StatusLine \/ i + COLS \notin Cells THEN c.video[i] ELSE c.video[i + COLS]],
   loc |-> c.loc - COLS]

\* Slip: the status line scrolls too.
ScrolledAll(c) ==
  [video |-> [i \in Cells |-> IF i + COLS \in Cells THEN c.video[i + COLS] ELSE Blank],
   loc |-> c.loc - COLS]

Scrolled(c) ==
  [video |-> [i \in Cells |->
     CASE i \in StatusLine -> c.video[i]
       [] i + COLS \notin Cells -> Blank
       [] OTHER -> c.video[i + COLS]],
   loc |-> c.loc - COLS]

\* Where delete's walk back over blanks ends.  Below the first cell the code reads
\* far above the memory there is, which holds no blank.
TextEnd(c) == Max({l \in 0..c.loc : l = 0 \/ c.video[l - 1] # Blank})

Deleted(c) ==
  CASE c.loc = 0 -> c
    [] c.loc > 0 /\ c.loc % COLS = 0 /\ c.video[c.loc - 1] = Blank ->
         [c EXCEPT !.loc = TextEnd(c)]
    [] OTHER -> [video |-> [c.video EXCEPT ![c.loc - 1] = Blank], loc |-> c.loc - 1]

\* What putchar's switch does with one character.
Typed(c, ch) ==
  CASE ch = NL -> [c EXCEPT !.loc = c.loc + (COLS - (c.loc % COLS))]
    [] ch = BS -> Deleted(c)
    [] OTHER -> [video |-> [c.video EXCEPT ![c.loc] = ch], loc |-> c.loc + 1]

\* Slip: the screen scrolls one character late.
SettledLate(c) == IF c.loc > SCREENSIZE THEN Scrolled(c) ELSE c

Settled(c) == IF c.loc >= SCREENSIZE THEN Scrolled(c) ELSE c

Put(c, ch) == Settled(Typed(c, ch))

\* putchar; a tab is four blanks.
Putchar(c, ch) ==
  IF ch = Tab THEN Put(Put(Put(Put(c, Blank), Blank), Blank), Blank) ELSE Put(c, ch)
=============================================================================
