-------------------------------- MODULE Text --------------------------------
(***************************************************************************)
(* The user library's conversions: printf and scanf of stdio.c.  A          *)
(* character is its code, a C string the sequence of its characters before  *)
(* the terminating 0, and an argument a number, a character or a string.    *)
(* Output is what is written, in order; error messages are left out.        *)
(***************************************************************************)
EXTENDS Integers, SequencesExt

CONSTANT INT_MAX    \* 2^31 - 1

ASSUME TextAssumption == INT_MAX \in Nat \ {0}

Space == 32
Percent == 37
Minus == 45
Zero == 48
CharC == 99
CharD == 100
CharS == 115

Ints == -(INT_MAX + 1)..INT_MAX
UINTS == 2 * (INT_MAX + 1)

\* Conversions to unsigned int and back wrap.
AsUnsigned(n) == n % UINTS
AsInt(n) == IF AsUnsigned(n) > INT_MAX THEN AsUnsigned(n) - UINTS ELSE AsUnsigned(n)

Spaces == {Space} \cup 9..13
isspace(c) == c \in Spaces
isdigit(c) == c \in Zero..(Zero + 9)

\* The character i places behind the start, and the string from there.
At(str, i) == IF i < Len(str) THEN str[i + 1] ELSE 0
From(str, i) == SubSeq(str, i + 1, Len(str))

\* ignore_spaces and ignore_characters: the place, from at on, of the next character
\* that is no space (behind the end lie zeros), and of the next space or the end.
NextWord(str, at) == Min({i \in at..(Len(str) + 1) : ~isspace(At(str, i))})
NextSpace(str, at) == Min({i \in at..Len(str) : i = Len(str) \/ isspace(At(str, i))})

SkipSpaces(str) == From(str, NextWord(str, 0))

-----------------------------------------------------------------------------
(* printf.                                                                 *)

DigitChar(d) == IF d < 10 THEN Zero + d ELSE 65 + d - 10

NumToBase(value, base) ==
  LET digits[v \in 0..value] ==
        IF v < base THEN <<DigitChar(v)>>
        ELSE Append(digits[v \div base], DigitChar(v % base))
  IN  digits[value]

\* Slip: the sign is printed and kept.
PrintDecSigned(num) ==
  IF num < 0 THEN <<Minus>> \o NumToBase(AsUnsigned(num), 10)
  ELSE NumToBase(AsUnsigned(num), 10)

PrintDec(num) ==
  IF num < 0 THEN <<Minus>> \o NumToBase(AsUnsigned(AsInt(-num)), 10)
  ELSE NumToBase(AsUnsigned(num), 10)

\* print_arg, without the bases other than ten.
PrintArg(option, arg) ==
  CASE option = CharS -> arg
    [] option = CharD -> PrintDec(arg)
    [] option = CharC -> <<arg % 256>>

PrintfFormats == {CharS, CharD, CharC}

\* A conversion stands at place i of the format, counted from 1; how many up to there.
Option(fmt, i) == fmt[i] = Percent /\ At(fmt, i) \in PrintfFormats
Options(fmt, i) == Cardinality({j \in 1..i : Option(fmt, j)})

\* Slip: the pointer stays on the option's letter.
WrittenTwice(fmt, args, i) ==
  IF Option(fmt, i) THEN PrintArg(fmt[i + 1], args[Options(fmt, i)]) ELSE <<fmt[i]>>

\* vfprintf: what the i-th character of the format makes it write.
Written(fmt, args, i) ==
  CASE Option(fmt, i) -> PrintArg(fmt[i + 1], args[Options(fmt, i)])
    [] i > 1 /\ Option(fmt, i - 1) -> <<>>
    [] OTHER -> <<fmt[i]>>

Formatted(fmt, args) ==
  LET text[i \in 0..Len(fmt)] ==
        IF i = 0 THEN <<>> ELSE text[i - 1] \o Written(fmt, args, i)
  IN  text[Len(fmt)]

-----------------------------------------------------------------------------
(* scanf.  A reading is the value stored and the number of characters.     *)

ReadStr(buffer, nextchar) ==
  LET read == Min({i \in 0..Len(buffer) :
                i = Len(buffer) \/ isspace(buffer[i + 1]) \/ buffer[i + 1] = nextchar})
  IN  [val |-> SubSeq(buffer, 1, read), read |-> read]

\* Slip: the sign is stepped over.
ReadDecSignless(buffer) ==
  LET negative == At(buffer, 0) = Minus
      b == IF negative THEN Tail(buffer) ELSE buffer
      number[k \in 0..Len(b)] ==
        IF k = 0 THEN 0 ELSE AsInt(number[k - 1] * 10 + b[k] - Zero)
      digits == Min({k \in 0..Len(b) :
                  k = Len(b) \/ ~isdigit(b[k + 1]) \/ number[k] \notin 0..(INT_MAX - 1)})
  IN  [val |-> number[digits], read |-> IF negative THEN digits + 1 ELSE digits]

\* The number is looked at before it grows by a digit, not after.
ReadDec(buffer) ==
  LET negative == At(buffer, 0) = Minus
      b == IF negative THEN Tail(buffer) ELSE buffer
      number[k \in 0..Len(b)] ==
        IF k = 0 THEN 0 ELSE AsInt(number[k - 1] * 10 + b[k] - Zero)
      digits == Min({k \in 0..Len(b) :
                  k = Len(b) \/ ~isdigit(b[k + 1]) \/ number[k] \notin 0..(INT_MAX - 1)})
  IN  IF negative THEN [val |-> AsInt(-number[digits]), read |-> digits + 1]
      ELSE [val |-> number[digits], read |-> digits]

\* %c takes the character that is there, the terminating 0 too.
ReadArg(buffer, option, nextchar) ==
  CASE option = CharS -> ReadStr(buffer, nextchar)
    [] option = CharD -> ReadDec(buffer)
    [] option = CharC -> [val |-> At(buffer, 0), read |-> 1]

ScanfFormats == {CharS, CharD, CharC}

\* The results while vsscanf goes on, and when it walks past a terminating 0: what
\* lies there decides.
Going == -3
Past == -2

\* One turn of vsscanf's loop, on what is left of the buffer and the format.
Scanned(s) ==
  LET b == SkipSpaces(s.buffer)
      f == SkipSpaces(s.fmt)
      arg == ReadArg(b, At(f, 1), At(f, 2))
      Result(read) == [s EXCEPT !.read = read]
  IN  CASE s.read # Going -> s
        [] s.read = Going /\ (s.buffer = <<>> \/ s.fmt = <<>>) ->
             Result(IF f # <<>> \/ b # <<>> THEN -1 ELSE Len(s.got))
        [] s.read = Going /\ s.buffer # <<>> /\ s.fmt # <<>> /\ At(f, 0) = Percent ->
             CASE At(f, 1) \notin ScanfFormats \/ arg.read <= 0 -> Result(Len(s.got))
               [] arg.read > Len(b) -> Result(Past)
               [] OTHER -> [s EXCEPT !.buffer = From(b, arg.read), !.fmt = From(f, 2),
                                     !.got = Append(@, arg.val)]
        [] OTHER ->
             CASE At(b, 0) # At(f, 0) -> Result(Len(s.got))
               [] b = <<>> /\ f = <<>> -> Result(Past)
               [] OTHER -> [s EXCEPT !.buffer = Tail(b), !.fmt = Tail(f)]

\* A turn takes a character of the format at least, and one more finds it empty.
Sscanf(buffer, fmt) ==
  LET scan[k \in 0..(Len(fmt) + 1)] ==
        IF k = 0 THEN [buffer |-> buffer, fmt |-> fmt, got |-> <<>>, read |-> Going]
        ELSE Scanned(scan[k - 1])
  IN  [read |-> scan[Len(fmt) + 1].read, got |-> scan[Len(fmt) + 1].got]
=============================================================================
