--------------------------- MODULE MCSharedMemory ---------------------------
(* Names and blocks are interchangeable.                                    *)
EXTENDS SharedMemory, TLC

CONSTANTS n1, n2, n3, b1, b2, b3, b4

MCNames == {n1, n2, n3}
MCBlocks == {b1, b2, b3, b4}
MCSymmetry == Permutations(MCNames) \cup Permutations(MCBlocks)
=============================================================================
