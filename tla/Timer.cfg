SPECIFICATION Spec
CONSTANTS
  h1 = h1
  h2 = h2
  h3 = h3
  Handlers <- MCHandlers
  TicksPerSecond <- MCTicksPerSecond
  MaxTasks <- MCMaxTasks
  Periods <- MCPeriods
  MillisPerSecond <- MCMillisPerSecond
  Delays <- MCDelays
  Cycle <- MCCycle
INVARIANTS
  TableSound
  EachDueOnce
  Periodic
  WaitNotEarly
PROPERTY WaitEnds
