------------------------------ MODULE Terminal ------------------------------
(***************************************************************************)
(* shell.c on the console: the shell asks for the user's name, then reads   *)
(* lines and runs commands, while the timer's interrupt redraws the clock   *)
(* in the corner of the status line.                                        *)
(*                                                                          *)
(* The library writes a text one character and one system call at a time,   *)
(* and interrupts are on between the calls: todo holds the calls that the   *)
(* shell has still to make before it reads the next key.  What a command    *)
(* does on the terminal is one of Commands; which words call for which is   *)
(* the subject of module Words.                                             *)
(***************************************************************************)
EXTENDS Console

CONSTANTS Letters,      \* characters that are not space
          Title,        \* "Arqui OS"
          Farewell,     \* what sys_exit leaves on the screen
          Clock,        \* the text of show_time
          Question,     \* "Please enter your username ...: "
          TooLong,      \* "Too long..."
          Host,         \* what the prompt puts behind the name
          Commands,     \* what commands do: sequences of system calls
          BUFFER_SIZE, MAX_USERNAME_SIZE

Printable == Letters \cup {Blank}
Characters == Printable \cup {NL, BS, Tab}
Calls == Characters \cup {"clear", "time", "exit"}

ASSUME TerminalAssumption ==
  /\ Letters \cap {Blank, NL, BS, Tab, "nul", "clear", "time", "exit"} = {}
  /\ Title \in Seq(Printable) /\ Farewell \in Seq(Printable) /\ Clock \in Seq(Printable)
  /\ Question \in Seq(Printable) /\ TooLong \in Seq(Printable)
  /\ Host \in Seq(Printable)
  \* No command's text has a backspace; only tests, which reads keys, can echo one.
  /\ Commands \subseteq Seq(Calls \ {BS})
  /\ BUFFER_SIZE \in Nat \ {0}
  /\ MAX_USERNAME_SIZE \in 1..BUFFER_SIZE
  /\ Len(Title) + Len(Clock) <= COLS /\ Len(Farewell) <= COLS
  \* What the prompt or the question begins is not scrolled away.
  /\ Len(Question) + BUFFER_SIZE + 2 * COLS <= SCREENSIZE
  /\ MAX_USERNAME_SIZE + Len(Host) + BUFFER_SIZE + 2 * COLS <= SCREENSIZE

NUL == "nul"
ClockCol == COLS - Len(Clock)
Corner == ClockCol..(COLS - 1)

VARIABLES console,
          clock,        \* show_time is a task of the timer
          buffer,
          current_pos,  \* while the name is asked for: _get_username's i
          username,
          phase,        \* "name", "line", or "off" after sys_exit
          todo,
          plain         \* history: the line was typed without blanks, within the buffer

vars == <<console, clock, buffer, current_pos, username, phase, todo, plain>>

CleanBuffer == [p \in 0..(BUFFER_SIZE - 1) |-> NUL]

\* What prompt prints.
Prompt(name) == name \o Host

\* kernel.c's main, then init_shell up to the first key.
Init ==
  /\ console = PutsAt(ClearScreen, Title, 0, 0)
  /\ clock = FALSE
  /\ buffer = CleanBuffer
  /\ current_pos = 0
  /\ username = <<>>
  /\ phase = "name"
  /\ todo = Question
  /\ plain = TRUE

-----------------------------------------------------------------------------
(* What the shell does with a key.                                         *)

Reading(p) == phase = p /\ todo = <<>>

\* Slip: the position is not tested.
EraseAlways(p) ==
  /\ Reading(p)
  /\ todo' = <<BS>>
  /\ current_pos' = IF current_pos > 0 THEN current_pos - 1 ELSE 0
  /\ buffer' = [buffer EXCEPT ![current_pos'] = NUL]
  /\ UNCHANGED <<console, clock, username, phase, plain>>

Erase(p) ==
  /\ Reading(p)
  /\ current_pos > 0
  /\ todo' = <<BS>>
  /\ current_pos' = current_pos - 1
  /\ buffer' = [buffer EXCEPT ![current_pos - 1] = NUL]
  /\ UNCHANGED <<console, clock, username, phase, plain>>

\* _get_username does not test i: what a longer name overwrites behind the buffer
\* is beyond this model.
TypeName(ch) ==
  /\ Reading("name")
  /\ current_pos < BUFFER_SIZE
  /\ todo' = <<ch>>
  /\ buffer' = [buffer EXCEPT ![current_pos] = ch]
  /\ current_pos' = current_pos + 1
  /\ UNCHANGED <<console, clock, username, phase, plain>>

\* Blanks are ignored at the start of a line; a full buffer starts again.
TypeChar(ch) ==
  /\ Reading("line")
  /\ ch \in {Blank, Tab} => current_pos > 0
  /\ todo' = <<ch>>
  /\ LET pos == IF current_pos = BUFFER_SIZE THEN 0 ELSE current_pos
     IN  /\ buffer' = [buffer EXCEPT ![pos] = ch]
         /\ current_pos' = pos + 1
  /\ plain' = (plain /\ ch \in Letters /\ current_pos < BUFFER_SIZE)
  /\ UNCHANGED <<console, clock, username, phase>>

NameAgain ==
  /\ Reading("name")
  /\ current_pos \notin 1..MAX_USERNAME_SIZE
  /\ todo' = (IF current_pos = 0 THEN <<NL>> ELSE <<NL>> \o TooLong \o <<NL>>) \o Question
  /\ buffer' = CleanBuffer
  /\ current_pos' = 0
  /\ UNCHANGED <<console, clock, username, phase, plain>>

NameGiven ==
  /\ Reading("name")
  /\ current_pos \in 1..MAX_USERNAME_SIZE
  /\ username' = [j \in 1..current_pos |-> buffer[j - 1]]
  /\ todo' = <<NL>> \o Prompt(username')
  /\ buffer' = CleanBuffer
  /\ current_pos' = 0
  /\ phase' = "line"
  /\ UNCHANGED <<console, clock, plain>>

\* update_shell's case '\n' with execute_command: an empty line, which a first
\* character of 0 stands for, prints a newline and nothing else.
Enter(command) ==
  /\ Reading("line")
  /\ todo' = (IF current_pos # 0 THEN <<NL>> ELSE <<>>)
             \o (IF buffer[0] = NUL THEN <<NL>> ELSE command)
             \o Prompt(username)
  /\ buffer' = CleanBuffer
  /\ current_pos' = 0
  /\ plain' = TRUE
  /\ UNCHANGED <<console, clock, username, phase>>

-----------------------------------------------------------------------------
(* The system calls, and the interrupt.                                    *)

ShowTime(c) == PutsAt(c, Clock, 0, ClockCol)

HideTime(c) == PutsAt(c, [j \in 1..Len(Clock) |-> Blank], 0, ClockCol)

Make(call) == phase # "off" /\ todo # <<>> /\ Head(todo) = call /\ todo' = Tail(todo)

\* sys_write of one character.
Write(ch) ==
  /\ Make(ch)
  /\ console' = Putchar(console, ch)
  /\ UNCHANGED <<clock, buffer, current_pos, username, phase, plain>>

Clear ==
  /\ Make("clear")
  /\ console' = ClearConsole(console)
  /\ UNCHANGED <<clock, buffer, current_pos, username, phase, plain>>

\* sys_time.
Time ==
  /\ Make("time")
  /\ console' = IF clock THEN HideTime(console) ELSE ShowTime(console)
  /\ clock' = ~clock
  /\ UNCHANGED <<buffer, current_pos, username, phase, plain>>

\* sys_exit.
Exit ==
  /\ Make("exit")
  /\ console' = PutsAt(ClearScreen, Farewell, 0, 0)
  /\ phase' = "off"
  /\ UNCHANGED <<clock, buffer, current_pos, username, plain>>

\* timer_handler calls show_time.
Tick ==
  /\ clock /\ phase # "off"
  /\ console' = ShowTime(console)
  /\ UNCHANGED <<clock, buffer, current_pos, username, phase, todo, plain>>

Next ==
  \/ \E p \in {"name", "line"} : Erase(p)
  \/ \E ch \in Letters : TypeName(ch)
  \/ \E ch \in Printable \cup {Tab} : TypeChar(ch)
  \/ NameAgain
  \/ NameGiven
  \/ \E command \in Commands : Enter(command)
  \/ \E ch \in Characters : Write(ch)
  \/ Clear
  \/ Time
  \/ Exit
  \/ Tick

Spec == Init /\ [][Next]_vars

-----------------------------------------------------------------------------
(* Properties.                                                             *)

TypeOK ==
  /\ console \in [video : [Cells -> Printable], loc : Cells]
  /\ clock \in BOOLEAN
  /\ buffer \in [0..(BUFFER_SIZE - 1) -> Letters \cup {Blank, Tab, NUL}]
  /\ current_pos \in 0..BUFFER_SIZE
  /\ username \in Seq(Letters) /\ Len(username) <= MAX_USERNAME_SIZE
  /\ phase \in {"name", "line", "off"}
  /\ todo \in Seq(Calls)
  /\ plain \in BOOLEAN

\* Nothing stands behind the cursor: whatever was scrolled, cleared and taken back,
\* a text that is printed never runs into the remains of another.
NothingAhead ==
  \A i \in Cells \ StatusLine : i >= console.loc => console.video[i] = Blank

\* What the shell will run is what the user sees: the characters before the cursor
\* are the buffer's, with the question or the prompt before them, over any scrolling
\* and any taking back across rows, if the line has no blanks and fits the buffer.
Asked == IF phase = "name" THEN Question ELSE Prompt(username)

LineShown ==
  plain /\ todo = <<>> /\ phase # "off" =>
    LET from == console.loc - current_pos
        asked == from - Len(Asked)
    IN  /\ asked >= COLS
        /\ \A p \in 0..(current_pos - 1) : console.video[from + p] = buffer[p]
        /\ \A j \in 1..Len(Asked) : console.video[asked + j - 1] = Asked[j]

\* The console and the clock keep apart: as long as the lines typed have no blanks no
\* step of the shell touches the status line, the clock writes into its corner
\* only, and the cursor stays out of the row.
KeepsStatus ==
  plain /\ console.loc >= COLS /\ phase' # "off" =>
    /\ console'.loc >= COLS
    /\ \A i \in StatusLine : console'.video[i] # console.video[i] =>
         /\ i \in Corner
         /\ console'.video[i] = IF clock' THEN Clock[i - ClockCol + 1] ELSE Blank

StatusKept == [][KeepsStatus]_vars
=============================================================================
