------------------------------ MODULE MCScreen ------------------------------
(* A screen of 2 rows of 3 characters: every message wraps or scrolls.  The *)
(* panic is that of the keyboard's handler, in line 121 of ps2.c.           *)
EXTENDS Screen

Texts == {<<<<"", "a">>, <<"u", 42>>>>,
          <<<<"x", 11>>, <<"", "\n">>>>,
          <<<<"s", <<"b", "%">>>>, <<"", "%">>, <<"", "\n">>>>}
Alarm == <<<<"s", <<"!">>>>, <<"d", 121>>>>
Steps == {-1, 2}
Greeting == <<"h", "h">>

(* The messages are converted right, and so is every number of up to three  *)
(* digits, the lines of the panics and the sizes the boot messages show.    *)
Numbers == 0 .. 1023 \cup {65535, 655360, 3145728}
ASSUME ConvertedRight == FormatsRight
ASSUME NumbersRight ==
    \A n \in Numbers, base \in {10, 16} : utoa(n, base) = Numeral(n, base)
=============================================================================
