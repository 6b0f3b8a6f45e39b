------------------------------- MODULE Words --------------------------------
(***************************************************************************)
(* What the shell makes of a line: execute_command and parse_args of        *)
(* shell.c and the printf command of commands.c.  The state is the line     *)
(* typed; everything else is computed from it.                              *)
(***************************************************************************)
EXTENDS Text

CONSTANTS Names,      \* the names of the commands, in the order of init_commands
          MAX_ARGS,   \* 10
          Alphabet,   \* bound: the characters of a line
          MaxLine,    \* bound: its length
          Formats,    \* formats that are printed and scanned
          Words       \* the words that follow the format of a printf command

Backslash == 92
CharN == 110
CharT == 116
Newline == 10
TabChar == 9

ASSUME WordsAssumption ==
  /\ Names \in Seq(Seq(1..127))
  /\ \A i, j \in 1..Len(Names) : IsPrefix(Names[i], Names[j]) => i = j
  /\ \A i \in 1..Len(Names) : Names[i] # <<>> /\ \A c \in ToSet(Names[i]) : ~isspace(c)
  /\ MAX_ARGS \in Nat \ {0}
  /\ Alphabet \subseteq 1..127   \* update_shell drops other keys
  /\ Formats \subseteq Seq(1..127)
  /\ Words \in Seq(Seq(1..127) \ {<<>>})
  /\ \A i \in 1..Len(Words) : \A c \in ToSet(Words[i]) : ~isspace(c)   \* parse_args

VARIABLE line

Init == line = <<>>

\* The user types a character more.
Type(ch) == Len(line) < MaxLine /\ line' = Append(line, ch)

\* The line is run, and the next begins.
Run == line # <<>> /\ line' = <<>>

Next == (\E ch \in Alphabet : Type(ch)) \/ Run

Spec == Init /\ [][Next]_line

-----------------------------------------------------------------------------
(* shell.c.                                                                *)

\* Slip: the limit is tested late.
ParsedLate(str, start) ==
  LET parse[k \in 0..(MAX_ARGS + 1)] ==
        IF k = 0 THEN [at |-> start, argv |-> <<>>]
        ELSE LET from == NextWord(str, parse[k - 1].at)
                 to == NextSpace(str, from)
             IN  IF from >= Len(str) THEN parse[k - 1]
                 ELSE [at |-> to + 1, argv |-> Append(parse[k - 1].argv, SubSeq(str, from + 1, to))]
  IN  parse[MAX_ARGS + 1].argv

\* parse_args: the place from which a word is looked for, and the words so far.
NextArg(str, old) ==
  LET from == NextWord(str, old.at)
      to == NextSpace(str, from)
  IN  IF from >= Len(str) THEN old
      ELSE [at |-> to + 1, argv |-> Append(old.argv, SubSeq(str, from + 1, to))]

Parsed(str, start) ==
  LET parse[k \in 0..MAX_ARGS] ==
        IF k = 0 THEN [at |-> start, argv |-> <<>>] ELSE NextArg(str, parse[k - 1])
  IN  parse[MAX_ARGS].argv

\* execute_command: the first name that the line begins with decides, for the command
\* or, if the word goes on, against any.
Invalid == [command |-> 0, argv |-> <<>>]

Executed(str) ==
  LET found == {i \in 1..Len(Names) : IsPrefix(Names[i], str)}
      len == Len(Names[Min(found)])
  IN  CASE found = {} -> Invalid
        [] found # {} /\ len < Len(str) /\ ~isspace(At(str, len)) -> Invalid
        [] OTHER -> [command |-> Min(found), argv |-> Parsed(str, len)]

-----------------------------------------------------------------------------
(* commands.c.                                                             *)

\* merge: what replaces the escape with character c; an unknown one loses it.
Merged(c) == IF c = CharN THEN Newline ELSE IF c = CharT THEN TabChar ELSE Backslash

\* check_special_characters, from place i of the string on.  A final backslash stays:
\* that merge then goes on into the words behind the format is not modelled.
Unescaped(fmt) ==
  LET rest[i \in 1..(Len(fmt) + 2)] ==
        IF i > Len(fmt) THEN <<>>
        ELSE IF fmt[i] = Backslash THEN <<Merged(At(fmt, i))>> \o rest[i + 2]
        ELSE <<fmt[i]>> \o rest[i + 1]
  IN  rest[1]

\* sscanf(arg, "%d", &n) == 1, and n.
IsNumber(arg) == Sscanf(arg, <<Percent, CharD>>).read = 1
Number(arg) == Sscanf(arg, <<Percent, CharD>>).got[1]

\* A word as the argument that the option asks for.
AsArg(option, word) ==
  IF option = CharD THEN Number(word) ELSE IF option = CharC THEN word[1] ELSE word

\* One turn of _printf's loop: it gives up, prints a character, or a word.
PrintedNext(s) ==
  LET option == At(s.fmt, 1)
      f == Unescaped(s.fmt)
  IN  CASE s.fmt = <<>> -> s
        [] s.fmt # <<>> /\ Head(s.fmt) # Percent ->
             [s EXCEPT !.fmt = Tail(f), !.out = Append(@, Head(f))]
        [] OTHER ->
             IF \/ s.args = <<>> \/ option \notin PrintfFormats
                \/ option = CharD /\ ~IsNumber(Head(s.args))
             THEN [s EXCEPT !.fmt = <<>>]
             ELSE [fmt |-> From(s.fmt, 2), args |-> Tail(s.args),
                   out |-> s.out \o PrintArg(option, AsArg(option, Head(s.args)))]

\* What the loop prints before it ends or gives up.
Walked(fmt, args) ==
  LET print[k \in 0..Len(fmt)] ==
        IF k = 0 THEN [fmt |-> fmt, args |-> args, out |-> <<>>] ELSE PrintedNext(print[k - 1])
  IN  print[Len(fmt)].out

\* _printf: a format alone is printed as it is, without its escapes.
Printed(fmt, args) == IF args = <<>> THEN Unescaped(fmt) ELSE Walked(fmt, args)

-----------------------------------------------------------------------------
(* Properties.                                                             *)

\* The words of a line by their definition: the longest runs without a space, in
\* the order in which they begin.
IsWord(i, j) ==
  /\ \A k \in i..j : ~isspace(line[k])
  /\ i = 1 \/ isspace(line[i - 1])
  /\ j = Len(line) \/ isspace(line[j + 1])

Runs == {run \in (1..Len(line)) \X (1..Len(line)) :
           run[1] <= run[2] /\ IsWord(run[1], run[2])}
RunsUpTo(i) == {run \in Runs : run[1] <= i}
WordsOfLine ==
  [k \in 1..Cardinality(Runs) |->
     LET run == CHOOSE run \in Runs : Cardinality(RunsUpTo(run[1])) = k
     IN  SubSeq(line, run[1], run[2])]

\* The shell runs the command that the first word names, with the other words, at
\* most MAX_ARGS, or none: neither a longer word that begins with a name nor the number
\* of spaces makes a difference.  (update_shell lets no line begin with a space.)
LineIsUnderstood ==
  line # <<>> /\ ~isspace(line[1]) =>
    LET words == WordsOfLine
        args == Tail(words)
        run == Executed(line)
    IN  IF words[1] \notin ToSet(Names) THEN run = Invalid
        ELSE /\ Names[run.command] = words[1]
             /\ run.argv = SubSeq(args, 1, Min({Len(args), MAX_ARGS}))

\* The letter of a format's k-th conversion.
Letter(fmt, k) ==
  LET place == CHOOSE i \in 1..Len(fmt) : Option(fmt, i) /\ Options(fmt, i) = k
  IN  fmt[place + 1]

\* The formats that scanf can follow: a word ends where a character of the format
\* begins, a number where one that is no digit does, and no space is the last.
Readable(fmt) ==
  /\ \A i \in 1..Len(fmt) :
       /\ fmt[i] = Percent => Option(fmt, i)
       /\ Option(fmt, i) /\ fmt[i + 1] # CharC => At(fmt, i + 1) # Percent
       /\ Option(fmt, i) /\ fmt[i + 1] = CharD => ~isdigit(At(fmt, i + 1))
  /\ fmt # <<>> => ~isspace(fmt[Len(fmt)])

\* scanf reads back what printf wrote with the same format, the least number too, if
\* no word has a space or a character of the format.
ScanfReadsPrintf ==
  \A fmt \in Formats, n \in Ints :
    /\ Readable(fmt)
    /\ line # <<>> /\ \A c \in ToSet(line) : ~isspace(c) /\ c \notin ToSet(fmt)
    => LET args == [k \in 1..Options(fmt, Len(fmt)) |->
                      IF Letter(fmt, k) = CharD THEN n ELSE AsArg(Letter(fmt, k), line)]
       IN  Sscanf(Formatted(fmt, args), fmt) = [read |-> Len(args), got |-> args]

\* The printf command prints what the library's printf does with the format's escapes
\* replaced, whatever order they and the options stand in, if the words suffice.
WellFormed(fmt) ==
  /\ \A i \in 1..Len(fmt) :
       /\ fmt[i] = Percent => Option(fmt, i)
       /\ fmt[i] = Backslash => At(fmt, i) \in {CharN, CharT}
  /\ Options(fmt, Len(fmt)) <= Len(Words)
  /\ \A k \in 1..Options(fmt, Len(fmt)) : Letter(fmt, k) = CharD => IsNumber(Words[k])

PrintfLikeLibrary ==
  WellFormed(line) =>
    LET args == [k \in 1..Options(line, Len(line)) |-> AsArg(Letter(line, k), Words[k])]
    IN  Printed(line, Words) = Formatted(Unescaped(line), args)
=============================================================================
