------------------------------- MODULE Printf -------------------------------
(* CON_vsprintf of lib/conio.c and the number conversions of lib/stdlib.c.   *)
(* A string is a sequence of characters, a character a string of length 1.   *)
EXTENDS Integers, SequencesExt

alphadigit == <<"0", "1", "2", "3", "4", "5", "6", "7", "8", "9",
                "A", "B", "C", "D", "E", "F">>

(* The do loop of utoa and itoa: the digits of value, the last one first. *)
LastFirst(value, base) ==
    LET buf[v \in 0 .. value] ==
            <<alphadigit[(v % base) + 1]>> \o
            (IF v \div base > 0 THEN buf[v \div base] ELSE <<>>)
    IN  buf[value]

utoa(value, base) == Reverse(LastFirst(value, base))

(* The sign is the first in buf, and so the last in what is returned.  (The *)
(* value that has no negative is left out.)                                 *)
itoa(value, base) ==
    IF value < 0 THEN Reverse(<<"-">> \o LastFirst(-value, base))
    ELSE utoa(value, base)

(* What the conversion ch writes for the argument arg, and whether it takes *)
(* one.                                                                     *)
TakesArg(ch) == ch \in {"c", "s", "d", "i", "u", "x", "X"}
Converted(ch, arg) ==
    CASE ch = "%" -> <<"%">>
      [] ch = "c" -> <<arg>>
      [] ch = "s" -> arg
      [] ch \in {"d", "i"} -> itoa(arg, 10)
      [] ch = "u" -> utoa(arg, 10)
      [] ch \in {"x", "X"} -> utoa(arg, 16)
      [] OTHER -> <<"%", ch>>

(* One character of the format.  (No format of the kernel ends in %.) *)
FmtStep(s, ch) ==
    CASE ~s.esc /\ ch = "%" -> [s EXCEPT !.esc = TRUE]
      [] ~s.esc -> [s EXCEPT !.out = Append(@, ch)]
      [] OTHER ->
           [esc |-> FALSE,
            out |-> s.out \o Converted(ch, IF TakesArg(ch) THEN Head(s.args) ELSE ""),
            args |-> IF TakesArg(ch) THEN Tail(s.args) ELSE s.args]

CON_vsprintf(fmt, args) ==
    FoldLeft(FmtStep, [esc |-> FALSE, out |-> <<>>, args |-> args], fmt).out

----------------------------------------------------------------------------
(* The reference: what a call of CON_printf is meant to show.  A call is    *)
(* written as a sequence of parts <<ch, arg>>, one conversion or, with the  *)
(* conversion "", one character each.                                       *)
Numeral(n, base) ==
    LET Digit(k) == alphadigit[((n \div base ^ k) % base) + 1]
        digits == CHOOSE k \in 1 .. n + 1 :
                      base ^ k > n /\ \A j \in 1 .. k - 1 : base ^ j <= n
    IN  [i \in 1 .. digits |-> Digit(digits - i)]

PartMeans(part) ==
    CASE part[1] = "" -> <<part[2]>>
      [] part[1] = "s" -> part[2]
      [] part[1] \in {"d", "u"} -> Numeral(part[2], 10)
      [] part[1] = "x" -> Numeral(part[2], 16)

PartFormat(part) ==
    CASE part[1] # "" -> <<"%", part[1]>>
      [] part[2] = "%" -> <<"%", "%">>
      [] OTHER -> <<part[2]>>

Meaning(parts) == FlattenSeq([i \in DOMAIN parts |-> PartMeans(parts[i])])
Format(parts) == FlattenSeq([i \in DOMAIN parts |-> PartFormat(parts[i])])
Arguments(parts) ==
    LET conv == SelectSeq(parts, LAMBDA p : p[1] # "")
    IN  [i \in DOMAIN conv |-> conv[i][2]]
=============================================================================
