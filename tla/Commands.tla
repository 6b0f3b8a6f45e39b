------------------------------ MODULE Commands -------------------------------
(***************************************************************************)
(* The shell's commands: commands.c.  What a command makes of its words is  *)
(* whether it succeeds and the system calls that it makes, in their order,  *)
(* each with its numbers.  Reads and writes are left out: the texts, the    *)
(* keys that tests waits for, the lines that fractal takes from the data.   *)
(***************************************************************************)
EXTENDS Words

CONSTANTS SecondsIn, MinutesIn, HoursIn,   \* 60, 60, 24
          DaysIn, MonthsIn, YearsSet,      \* 31, 12, 80
          Millis,                          \* 1000, milliseconds of a second
          Fractals                         \* lines of parameters in the data module

ASSUME CommandsAssumption ==
  /\ {SecondsIn, MinutesIn, HoursIn, DaysIn, MonthsIn, YearsSet} \subseteq Nat \ {0}
  /\ Millis \in Nat \ {0} /\ Fractals \in Nat

Call(id, numbers) == [call |-> id, args |-> numbers]

Refused == [ok |-> FALSE, calls |-> <<>>]
Does(calls) == [ok |-> TRUE, calls |-> calls]

\* Commands without words, and with a number within each of these limits.
Alone(argv, calls) == IF argv = <<>> THEN Does(calls) ELSE Refused

NumbersWithin(argv, limits) ==
  /\ Len(argv) = Len(limits)
  /\ \A k \in 1..Len(argv) :
       /\ IsNumber(argv[k])
       /\ Number(argv[k]) >= limits[k][1] /\ Number(argv[k]) < limits[k][2]

Numbers(argv) == [k \in 1..Len(argv) |-> Number(argv[k])]

\* Prints the words; one that begins with '$' as the user's name or not at all.
echo(argv) == Does(<<>>)

\* Prints what all commands are for, or the one named.
help(argv) ==
  IF argv = <<>> \/ (Len(argv) = 1 /\ argv[1] \in ToSet(Names)) THEN Does(<<>>) ELSE Refused

\* The first fractal is drawn with each line of the data in turn, until fscanf finds
\* no more, which is an error; the second has no parameters.  One draw stands for
\* those of all the pixels of a picture.
Drawn(times) ==
  [k \in 1..(2 * times) |-> IF k % 2 = 1 THEN Call("video", <<>>) ELSE Call("draw", <<>>)]

fractal(argv) ==
  CASE argv = <<>> -> Does(<<>>)
    [] argv = <<<<Zero + 1>>>> -> [ok |-> FALSE, calls |-> Drawn(Fractals)]
    [] argv = <<<<Zero + 2>>>> -> Does(Drawn(1))
    [] OTHER -> Refused

clear(argv) == Alone(argv, <<Call("clear", <<>>)>>)

exit(argv) == Alone(argv, <<Call("exit", <<>>)>>)

time(argv) == Alone(argv, <<Call("time", <<>>)>>)

date(argv) == Alone(argv, <<Call("date", <<>>)>>)

set_time(argv) ==
  IF NumbersWithin(argv, <<<<0, HoursIn>>, <<0, MinutesIn>>, <<0, SecondsIn>>>>)
  THEN Does(<<Call("settime", Numbers(argv))>>) ELSE Refused

set_date(argv) ==
  IF NumbersWithin(argv, <<<<1, DaysIn + 1>>, <<1, MonthsIn + 1>>, <<0, YearsSet>>>>)
  THEN Does(<<Call("setdate", Numbers(argv))>>) ELSE Refused

\* seconds * 1000 is an int's product.
sleep(argv) ==
  IF NumbersWithin(argv, <<<<0, INT_MAX + 1>>>>)
  THEN Does(<<Call("wait", <<AsInt(Number(argv[1]) * Millis)>>)>>) ELSE Refused

\* malloc_test's three calls, then run_tests's last.
tests(argv) ==
  Alone(argv, [k \in 1..4 |-> IF k < 4 THEN Call("malloc", <<>>) ELSE Call("clear", <<>>)])

Outcome(id, argv) ==
  CASE id = "help" -> help(argv) [] id = "echo" -> echo(argv) [] id = "fractal" -> fractal(argv)
    [] id = "clear" -> clear(argv) [] id = "exit" -> exit(argv) [] id = "time" -> time(argv)
    [] id = "date" -> date(argv) [] id = "settime" -> set_time(argv)
    [] id = "setdate" -> set_date(argv) [] id = "sleep" -> sleep(argv)
    [] id = "tests" -> tests(argv)

\* init_commands: how many words each command's description names.
Described ==
  [echo |-> Nat, help |-> 0..1, fractal |-> 0..1, clear |-> {0}, exit |-> {0},
   time |-> {0}, date |-> {0}, settime |-> {3}, setdate |-> {3}, sleep |-> {1},
   tests |-> {0}]

\* init_syscalls: the system calls that have a handler.
Registered ==
  {"exit", "clear", "read", "write", "video", "draw", "sbrk", "memblock", "freeblock",
   "time", "date", "settime", "setdate", "wait"}

-----------------------------------------------------------------------------
(* Properties.                                                             *)

\* What a word denotes: digits behind at most one sign, which may stand alone.
Digits(word) == IF Head(word) = Minus THEN Tail(word) ELSE word
Value(digits) ==
  LET value[k \in 0..Len(digits)] ==
        IF k = 0 THEN 0 ELSE value[k - 1] * 10 + (digits[k] - Zero)
  IN  value[Len(digits)]
Magnitude(word) == Value(Digits(word))
Numeral(word) == \A c \in ToSet(Digits(word)) : isdigit(c)
Denoted(word) == IF Head(word) = Minus THEN -Magnitude(word) ELSE Magnitude(word)

TimesOfDay == (0..(HoursIn - 1)) \X (0..(MinutesIn - 1)) \X (0..(SecondsIn - 1))
Dates == (1..DaysIn) \X (1..MonthsIn) \X (0..(YearsSet - 1))

\* settime, setdate and sleep reach the kernel with exactly the numbers that the words
\* denote, and only if they are a time of day, a date or a time to come (as far as an int
\* goes: larger ones wrap unseen); a command whose words are not those of its
\* description makes no call; and every call has a handler, those of tests aside.
CallsAsAsked ==
  LET argv == WordsOfLine
      numerals == \A k \in 1..Len(argv) : Numeral(argv[k])
      numbers == [k \in 1..Len(argv) |-> Denoted(argv[k])]
      Made(id) == Outcome(id, argv).calls
      Asked(id, valid) == IF numerals /\ valid THEN <<Call(id, numbers)>> ELSE <<>>
  IN  /\ \A id \in DOMAIN Described :
           /\ Outcome(id, argv).ok \/ Made(id) # <<>> => Len(argv) \in Described[id]
           /\ id # "tests" => \A call \in ToSet(Made(id)) : call.call \in Registered
      /\ (\A k \in 1..Len(argv) : Numeral(argv[k]) => Magnitude(argv[k]) <= INT_MAX) =>
           /\ Made("settime") = Asked("settime", numbers \in TimesOfDay)
           /\ Made("setdate") = Asked("setdate", numbers \in Dates)
           /\ numerals /\ Len(argv) = 1 /\ numbers[1] \in 0..(INT_MAX \div Millis) =>
                Made("sleep") = <<Call("wait", <<numbers[1] * Millis>>)>>
           /\ ~numerals \/ (Len(argv) = 1 /\ numbers[1] < 0) => Made("sleep") = <<>>
=============================================================================
