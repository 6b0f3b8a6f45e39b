------------------------------ MODULE MCTimer ------------------------------
(* Two ticks a second, three handlers for a table with room for two, waits   *)
(* of half a second, of one, of one and three quarters, and of two.         *)
EXTENDS Timer

CONSTANTS h1, h2, h3

MCHandlers == {h1, h2, h3}
MCPeriods == {1, 2}
MCMillisPerSecond == 4
MCDelays == {2, 4, 7, 8}
MCTicksPerSecond == 2
MCMaxTasks == 3
MCCycle == 4
=============================================================================
