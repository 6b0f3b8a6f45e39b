--------------------------- MODULE MCProcessHeap ---------------------------
(* Two processes with blocks of a few units, a header apart; an amount past  *)
(* those that pcalloc tells apart.                                          *)
EXTENDS ProcessHeap, TLC

CONSTANTS p1, p2

MCHeader == 2
MCProcs == {p1, p2}
Size == 11
MCHeapSize == p1 :> Size @@ p2 :> Size
Spread == p1 :> 10 @@ p2 :> (10 + Size + MCHeader)
MCSizes == {1, 3}
MCCounts == {2, 5}
MCAmountRange == 4
=============================================================================
