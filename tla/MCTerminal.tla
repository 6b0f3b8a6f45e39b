----------------------------- MODULE MCTerminal -----------------------------
(* A screen of four rows of three: any line with its prompt takes more than  *)
(* one row, a tab does too, and the second line scrolls.                     *)
EXTENDS Terminal

OneLetter == {"a"}
MCTitle == <<"a">>
MCFarewell == <<"a", "a">>
MCClock == <<"a", "a">>
MCQuestion == <<"a", Blank>>
MCTooLong == <<"a">>
MCHost == <<"a", Blank>>
MCCommands == {<<"a", NL>>, <<"clear">>, <<"time">>, <<"exit">>}
=============================================================================
