------------------------------ MODULE MCWords -------------------------------
(* Numbers of six bits, so that three digits overflow; two commands, and    *)
(* other words that begin with them; 's' and 'd' stand for letters too.     *)
(* Days and minutes are short: single digits fall inside and outside.       *)
EXTENDS Commands

MCNames == <<<<CharS>>, <<CharD, CharS>>>>
MCAlphabet == {Space, CharS, CharD, Percent, Backslash, CharN, Zero, Zero + 1, Minus}
MCFormats == {<<Percent, CharD>>, <<Percent, CharS, Space, Percent, CharD>>,
              <<CharT, Percent, CharC, Minus, Percent, CharS, Minus, Percent, CharD, CharT>>}
MCWords == <<<<Zero + 7>>, <<Minus, Zero + 1, Zero + 2>>>>
=============================================================================
