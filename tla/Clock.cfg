SPECIFICATION ClockSpec
CONSTANTS
  SecondsIn = 11
  MinutesIn = 2
  HoursIn = 2
  DaysIn = 2
  MonthsIn = 2
  YearsIn = 3
  YearsSet = 2
  Arguments <- MCArguments
INVARIANTS
  ClockTypeOK
  NeverBehind
PROPERTY TimeNeverSetBack
