----------------------------- MODULE MCKeyboard -----------------------------
(* A ring of three cells, so that it wraps and overflows within a few keys;  *)
(* one key is enough where their order and number matters.                  *)
EXTENDS Keyboard

OneKey == {"a"}
Control == {"ctrl"}
NoKey == {}
Caps == {"caps"}
BothShifts == {"left", "right"}
MCLengths == {2}
=============================================================================
