------------------------------ MODULE MCClock -------------------------------
(* Minutes of eleven seconds, so that a register holds a tens digit; every   *)
(* other unit is of two or three, and a tick can carry through all of them.  *)
EXTENDS Clock

MCArguments == {-1, 0, 1, 2, 10, 11}
=============================================================================
