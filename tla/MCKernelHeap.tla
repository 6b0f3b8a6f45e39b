---------------------------- MODULE MCKernelHeap ----------------------------
(* A heap of a few units in place of 3 MiB.                                *)
EXTENDS KernelHeap

MCHeader == 2
MCBase == 10
MCLimit == 24
MCSizes == {0, 1, 3}
MCCounts == {2}
=============================================================================
