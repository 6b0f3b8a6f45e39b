---------------------------- MODULE MCMemBlocks ----------------------------
(* A pool of 40 units and pages of 4, in the proportion of the kernel's     *)
(* 160 KiB and 4 KiB: halving ends at 5 units, more than a page.            *)
EXTENDS MemBlocks

MCSizes == {1, 4, 6, 12, 33}
=============================================================================
