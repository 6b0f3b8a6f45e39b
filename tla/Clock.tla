------------------------------- MODULE Clock --------------------------------
(***************************************************************************)
(* rtc.c, with the system calls and the shell's commands that lead to it:   *)
(* the time and the date are six registers of the clock chip, read and      *)
(* written one at a time while the chip goes on counting.                   *)
(*                                                                          *)
(* A call is the sequence of its port accesses, todo; the chip may carry    *)
(* between any two.  Interrupts are masked, which does not stop the chip,   *)
(* but a call is much shorter than a second: it sees one tick at most.      *)
(***************************************************************************)
EXTENDS Integers, Sequences

CONSTANTS SecondsIn, MinutesIn, HoursIn,    \* 60, 60, 24
          DaysIn,                           \* days of a month
          MonthsIn, YearsIn,                \* 12, 100
          YearsSet,                         \* years the shell lets one set, 80
          Arguments                         \* numbers given to settime and setdate

ASSUME ClockAssumption ==
  /\ {SecondsIn, MinutesIn, HoursIn, DaysIn, MonthsIn, YearsIn} \subseteq Nat \ {0}
  /\ YearsSet \in 0..YearsIn
  /\ Arguments \subseteq Int

Registers == {"seconds", "minutes", "hours", "day", "month", "year"}

BCD2BIN(val) == (val % 16) + (val \div 16) * 10
BIN2BCD(val) == (val \div 10) * 16 + (val % 10)

VARIABLES rtc,    \* the registers, in BCD
          todo,   \* the accesses that the call still makes
          got,    \* what the call has read
          call,   \* history: the last call, with its arguments
          start,  \* history: the registers when it began
          ticked  \* history: the chip has ticked since

clockVars == <<rtc, todo, got, call, start, ticked>>

-----------------------------------------------------------------------------
(* The chip.                                                               *)

Low(r) == IF r \in {"day", "month"} THEN 1 ELSE 0
Size(r) ==
  CASE r = "seconds" -> SecondsIn [] r = "minutes" -> MinutesIn [] r = "hours" -> HoursIn
    [] r = "day" -> DaysIn [] r = "month" -> MonthsIn [] r = "year" -> YearsIn

\* The registers below r: r counts when they all carry.
Below(r) ==
  CASE r = "seconds" -> {} [] r = "minutes" -> {"seconds"} [] r = "hours" -> {"seconds", "minutes"}
    [] r = "day" -> {"seconds", "minutes", "hours"}
    [] r = "month" -> {"seconds", "minutes", "hours", "day"}
    [] r = "year" -> Registers \ {"year"}

Full(regs, r) == BCD2BIN(regs[r]) + 1 >= Low(r) + Size(r)

Ticked(regs) ==
  [r \in Registers |->
     CASE \E q \in Below(r) : ~Full(regs, q) -> regs[r]
       [] Full(regs, r) /\ \A q \in Below(r) : Full(regs, q) -> BIN2BCD(Low(r))
       [] OTHER -> BIN2BCD(BCD2BIN(regs[r]) + 1)]

TickInCall ==
  /\ todo # <<>> /\ ~ticked
  /\ rtc' = Ticked(rtc)
  /\ ticked' = TRUE
  /\ UNCHANGED <<todo, got, call, start>>

\* Between calls nothing of the last one matters any more.
TickBetween ==
  /\ todo = <<>>
  /\ rtc' = Ticked(rtc)
  /\ start' = rtc'
  /\ ticked' = FALSE
  /\ call' = [kind |-> "none"]
  /\ got' = [r \in Registers |-> 0]
  /\ UNCHANGED todo

-----------------------------------------------------------------------------
(* The calls.                                                              *)

Read(r) == [kind |-> "read", reg |-> r, val |-> 0]
Write(r, val) == [kind |-> "write", reg |-> r, val |-> BIN2BCD(val)]

\* A call of kind that makes these accesses; nothing else goes on meanwhile.
Begin(what, accesses) ==
  /\ todo = <<>>
  /\ todo' = accesses
  /\ call' = what
  /\ start' = rtc
  /\ ticked' = FALSE
  /\ got' = [r \in Registers |-> 0]
  /\ UNCHANGED rtc

\* Slip: highest first.
GetTimeDown == Begin([kind |-> "time"], <<Read("hours"), Read("minutes"), Read("seconds")>>)

GetTime == Begin([kind |-> "time"], <<Read("seconds"), Read("minutes"), Read("hours")>>)

GetDate == Begin([kind |-> "date"], <<Read("day"), Read("month"), Read("year")>>)

\* write_port_word to the index port writes its second byte, 0, to the data port.
Select(r) == Write(r, 0)

\* Slip: lowest first.
TimeWritesUp(hour, minutes, seconds) ==
  <<Select("seconds"), Write("seconds", seconds), Select("minutes"), Write("minutes", minutes),
    Select("hours"), Write("hours", hour)>>

TimeWrites(hour, minutes, seconds) ==
  <<Select("hours"), Write("hours", hour), Select("minutes"), Write("minutes", minutes),
    Select("seconds"), Write("seconds", seconds)>>

DateWrites(day, month, year) == <<Write("day", day), Write("month", month), Write("year", year)>>

\* The commands' checks, and the system calls' behind them.
TimeAccepted(hour, minutes, seconds) ==
  /\ seconds \in 0..(SecondsIn - 1) /\ minutes \in 0..(MinutesIn - 1) /\ hour \in 0..(HoursIn - 1)
  /\ ~(hour > HoursIn - 1 \/ minutes > MinutesIn - 1 \/ seconds > SecondsIn - 1)

\* Slip: the system call's checks are all there are, and let a day 0 pass.
DateAcceptedZero(day, month, year) ==
  day >= 0 /\ month >= 0 /\ year >= 0 /\ ~(day > DaysIn \/ month > MonthsIn \/ year > YearsIn - 1)

DateAccepted(day, month, year) ==
  /\ day \in 1..DaysIn /\ month \in 1..MonthsIn /\ year \in 0..(YearsSet - 1)
  /\ ~(day > DaysIn \/ month > MonthsIn \/ year > YearsIn - 1)

SetTime(hour, minutes, seconds) ==
  /\ TimeAccepted(hour, minutes, seconds)
  /\ Begin([kind |-> "settime", hours |-> hour, minutes |-> minutes, seconds |-> seconds],
           TimeWrites(hour, minutes, seconds))

SetDate(day, month, year) ==
  /\ DateAccepted(day, month, year)
  /\ Begin([kind |-> "setdate", day |-> day, month |-> month, year |-> year],
           DateWrites(day, month, year))

Access ==
  /\ todo # <<>>
  /\ LET a == Head(todo)
     IN  IF a.kind = "read" THEN got' = [got EXCEPT ![a.reg] = BCD2BIN(rtc[a.reg])] /\ UNCHANGED rtc
         ELSE rtc' = [rtc EXCEPT ![a.reg] = a.val] /\ UNCHANGED got
  /\ todo' = Tail(todo)
  /\ UNCHANGED <<call, start, ticked>>

ClockInit ==
  /\ rtc = [r \in Registers |-> BIN2BCD(Low(r))]
  /\ todo = <<>>
  /\ got = [r \in Registers |-> 0]
  /\ call = [kind |-> "none"]
  /\ start = rtc
  /\ ticked = FALSE

ClockNext ==
  \/ TickInCall
  \/ TickBetween
  \/ GetTime
  \/ GetDate
  \/ \E h, m, s \in Arguments : SetTime(h, m, s)
  \/ \E d, m, y \in Arguments : SetDate(d, m, y)
  \/ Access

ClockSpec == ClockInit /\ [][ClockNext]_clockVars

-----------------------------------------------------------------------------
(* Properties.                                                             *)

ClockTypeOK ==
  /\ \A r \in Registers : \E v \in Low(r)..(Low(r) + Size(r) - 1) : rtc[r] = BIN2BCD(v)
  /\ Len(todo) <= 6
  /\ ticked \in BOOLEAN

\* Seconds since midnight.
OfDay(h, m, s) == (h * MinutesIn + m) * SecondsIn + s
Ahead(now, then) == (now - then) % (SecondsIn * MinutesIn * HoursIn)
Carries == {0, 1, SecondsIn, SecondsIn * MinutesIn}
Done(kind) == todo = <<>> /\ call.kind = kind

At(regs) == OfDay(BCD2BIN(regs["hours"]), BCD2BIN(regs["minutes"]), BCD2BIN(regs["seconds"]))

\* A carry between two writes of set_time, which goes from the hours down, puts the
\* clock a second, a minute or an hour ahead of what was asked for, never behind.
TimeNeverSetBack ==
  [][ Done("settime")' /\ todo # <<>> =>
        Ahead(At(rtc'), OfDay(call.hours, call.minutes, call.seconds)) \in Carries ]_clockVars

\* A carry between two reads makes time() show a minute or an hour too much and never
\* too little: the digits are those of the call's start or of the moment after, or
\* exactly one unit ahead.
TimeNeverBehind ==
  Done("time") => Ahead(OfDay(got["hours"], got["minutes"], got["seconds"]), At(start)) \in Carries

\* date() reads the day first: what it returns is not before the day of the call's
\* start, unless the century ends meanwhile.
DateOf(y, m, d) == (y * (MonthsIn + 1) + m) * (DaysIn + 1) + d

DateNeverBehind ==
  Done("date") =>
    DateOf(got["year"], got["month"], got["day"]) >=
      DateOf(BCD2BIN(start["year"]), BCD2BIN(start["month"]), BCD2BIN(start["day"]))
    \/ \A r \in {"day", "month", "year"} : Full(start, r)

\* Reading from the lowest register up, time() and date() never show a moment before
\* the one at which they were called, however the registers carry between the reads.
NeverBehind == TimeNeverBehind /\ DateNeverBehind
=============================================================================
