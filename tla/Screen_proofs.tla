---------------------------- MODULE Screen_proofs ----------------------------
(***************************************************************************)
(* For every size of the screen, every message and every interruption by   *)
(* timer, mouse and panic: the blinking cursor is where the next character *)
(* goes, the text where it belongs, and a panic shows its message alone.   *)
(***************************************************************************)
EXTENDS Screen, TLAPS

Phases == {"start", "boot", "on", "main", "panic", "dead"}

Shape ==
  /\ DOMAIN con = {"at", "text", "i", "val", "k", "pos", "then"}
  /\ phase \in Phases
  /\ crtc \in [index : {"other", "lo", "hi"}, lo : 0..(ByteLimit - 1), hi : 0..(ByteLimit - 1)]
  /\ curX \in Nat /\ curY \in Nat

OnScreen == curX < W /\ curY < H
Shows(pos) == CursorOffset = pos

\* The console has not begun, or has set the cursor for the next character.
Settled == OnScreen /\ Shows(curY * W + curX)

\* What CON_gotoXY and _AdjScrollDrown ask VGA_update_cursor for, by where it
\* returns to.  (In CON_newline the variables are not moved yet.)
Asked ==
  \/ con.then = "char" /\ OnScreen /\ con.pos = curY * W + curX
  \/ con.then = "newline" /\ OnScreen /\ con.pos \in Nat
  \/ con.then = "halt" /\ con.pos = (H - 1) * W

\* The port writes already done: nobody else selects a register in between.
Sent ==
  /\ con.k \in 1..4
  /\ con.k = 2 => crtc.index = "lo"
  /\ con.k = 4 => crtc.index = "hi"
  /\ con.k \in {3, 4} => crtc.lo = con.pos % ByteLimit

CursorInv ==
  /\ Shape
  /\ phase = "start" => con.at = "idle" /\ CursorOffset \in Cells
  /\ con.at # "cursor" => con.k = 1
  /\ con.at = "idle" /\ phase \in {"boot", "on", "dead"} => Settled
  /\ con.at = "char" => Settled
  /\ con.at = "newline" => OnScreen
  /\ con.at = "adjust" => curX <= W /\ curY <= H /\ (curY = H => curX < W)
  /\ con.at \in {"scroll", "write"} => curX < W /\ curY = H
  /\ con.at = "cursor" => Asked /\ Sent
  /\ con.at = "halt" => Shows((H - 1) * W)
  /\ con.at \in {"idle", "char", "newline", "adjust", "scroll", "write", "cursor", "hello", "halt"}

-----------------------------------------------------------------------------
(***************************************************************************)
(* Rows, columns and the two halves of a position.                         *)
(***************************************************************************)
LEMMA Division ==
  ASSUME NEW n \in Nat, NEW k \in Nat \ {0}
  PROVE  /\ n \div k \in Nat /\ n % k \in 0..(k - 1)
         /\ n = k * (n \div k) + (n % k)
OBVIOUS

LEMMA Grows ==
  ASSUME NEW k \in Nat, NEW x \in Int, x >= 1
  PROVE  k * x >= k
<1>1. k * (x - 1) >= 0
  OBVIOUS
<1>2. k * x = k * (x - 1) + k
  OBVIOUS
<1> QED BY <1>1, <1>2

\* A quotient is below the limit that the number is below, times the divisor.
LEMMA QuotientBelow ==
  ASSUME NEW n \in Nat, NEW k \in Nat \ {0}, NEW m \in Nat, n < k * m
  PROVE  n \div k \in 0..(m - 1)
<1> DEFINE q == n \div k
<1>1. q \in Nat /\ n >= k * q
  BY Division
<1> HIDE DEF q
<1>4. ASSUME q >= m PROVE FALSE
  <2> DEFINE d == q - m
  <2>1. d \in Nat /\ q = m + d
    BY <1>1, <1>4
  <2> HIDE DEF d
  <2>2. k * q = k * m + k * d /\ k * d >= 0
    BY <2>1
  <2>3. n \in Int /\ k * m \in Int /\ k * d \in Int /\ n < k * m
    BY <2>1
  <2>4. n >= k * m + k * d
    BY <1>1, <2>2
  <2> QED BY <2>2, <2>3, <2>4
<1>5. q < m
  BY <1>1, <1>4
<1> QED BY <1>1, <1>5 DEF q

\* A cell's position is below the screen's size.
LEMMA PositionInScreen ==
  ASSUME NEW x \in Nat, NEW y \in Nat, x < W, y < H
  PROVE  y * W + x \in Nat /\ y * W + x < W * H
<1> USE ScreenAssumption
<1>1. W \in Nat /\ H \in Nat
  OBVIOUS
<1>2. W * (H - y) >= W
  BY <1>1, Grows
<1>3. W * (H - y) = W * H - y * W
  BY <1>1
<1>4. y * W \in Nat
  BY <1>1
<1> QED BY <1>1, <1>2, <1>3, <1>4

\* The halves of a position make it up, and the higher one fits its register.
LEMMA Halves ==
  ASSUME NEW pos \in Nat, pos < W * H
  PROVE  /\ pos % ByteLimit \in 0..(ByteLimit - 1)
         /\ pos \div ByteLimit \in 0..(ByteLimit - 1)
         /\ (pos \div ByteLimit) % ByteLimit = pos \div ByteLimit
         /\ (pos \div ByteLimit) * ByteLimit + (pos % ByteLimit) = pos
<1>1. ByteLimit \in Nat \ {0} /\ W * H \in Nat /\ W * H < ByteLimit * ByteLimit
  BY ScreenAssumption
<1>2. pos \div ByteLimit \in 0..(ByteLimit - 1)
  <2>1. ByteLimit * ByteLimit \in Int /\ ByteLimit \in Nat
    BY <1>1
  <2>2. pos < ByteLimit * ByteLimit
    BY <1>1, <2>1
  <2> QED BY <1>1, <2>1, <2>2, QuotientBelow
<1>3. pos % ByteLimit \in 0..(ByteLimit - 1) /\ pos = ByteLimit * (pos \div ByteLimit) + (pos % ByteLimit)
  BY <1>1, Division
<1>4. (pos \div ByteLimit) % ByteLimit = pos \div ByteLimit
  BY <1>1, <1>2
<1> QED BY <1>1, <1>2, <1>3, <1>4


-----------------------------------------------------------------------------
(***************************************************************************)
(* The four port writes of VGA_update_cursor: after the last one the       *)
(* register pair holds what they were asked for.                           *)
(***************************************************************************)
LEMMA CursorStep ==
  ASSUME CursorInv, UpdateCursor
  PROVE  CursorInv'
<1> USE ScreenAssumption
<1>1. /\ con.at = "cursor" /\ Asked /\ con.k \in 1..4 /\ Shape
      /\ con.k = 2 => crtc.index = "lo"
      /\ con.k = 4 => crtc.index = "hi"
      /\ con.k \in {3, 4} => crtc.lo = con.pos % ByteLimit
  BY DEF UpdateCursor, CursorInv, Sent
<1>2. curX' = curX /\ curY' = curY /\ phase' = phase /\ phase # "start"
  BY <1>1 DEF UpdateCursor, CursorInv
<1>3. con.pos \in Nat
  BY <1>1 DEF Asked, Shape
<1>4. con.pos % ByteLimit \in 0..(ByteLimit - 1) /\ (con.pos \div ByteLimit) % ByteLimit \in 0..(ByteLimit - 1)
  <2>1. ByteLimit \in Nat \ {0}
    OBVIOUS
  <2>2. con.pos \div ByteLimit \in Nat
    BY <1>3, <2>1, Division
  <2> QED BY <1>3, <2>1, <2>2, Division
<1>5. crtc' = Out(con.k, con.pos)
  BY DEF UpdateCursor
<1>6. /\ crtc' \in [index : {"other", "lo", "hi"}, lo : 0..(ByteLimit - 1), hi : 0..(ByteLimit - 1)]
      /\ con.k = 1 => crtc'.index = "lo"
      /\ con.k = 2 => crtc'.lo = con.pos % ByteLimit
      /\ con.k = 3 => crtc'.index = "hi" /\ crtc'.lo = crtc.lo
      /\ con.k = 4 => crtc'.lo = crtc.lo /\ crtc'.hi = (con.pos \div ByteLimit) % ByteLimit
  <2>1. con.k = 1 \/ con.k = 2 \/ con.k = 3 \/ con.k = 4
    BY <1>1
  <2>2. CASE con.k = 1
    BY <1>1, <1>5, <2>2 DEF Out, Shape
  <2>3. CASE con.k = 2
    BY <1>1, <1>4, <1>5, <2>3 DEF Out, Shape
  <2>4. CASE con.k = 3
    BY <1>1, <1>5, <2>4 DEF Out, Shape
  <2>5. CASE con.k = 4
    BY <1>1, <1>4, <1>5, <2>5 DEF Out, Shape
  <2> QED BY <2>1, <2>2, <2>3, <2>4, <2>5
<1>7. CASE con.k < 4
  <2>1. con' = [con EXCEPT !.k = @ + 1]
    BY <1>7 DEF UpdateCursor
  <2>2. /\ DOMAIN con' = DOMAIN con /\ con'.k = con.k + 1
        /\ con'.at = con.at /\ con'.pos = con.pos /\ con'.then = con.then
    BY <1>1, <2>1 DEF Shape
  <2>3. Shape'
    BY <1>1, <1>2, <1>6, <2>2 DEF Shape
  <2>4. Asked'
    BY <1>1, <1>2, <2>2 DEF Asked, OnScreen
  <2>5. Sent'
    BY <1>1, <1>6, <1>7, <2>2 DEF Sent
  <2> QED BY <1>1, <1>2, <2>2, <2>3, <2>4, <2>5 DEF CursorInv
<1>8. CASE ~(con.k < 4)
  <2>1. con' = [con EXCEPT !.k = 1, !.at = con.then, !.pos = 0] /\ con.k = 4
    BY <1>1, <1>8 DEF UpdateCursor
  <2>2. DOMAIN con' = DOMAIN con /\ con'.k = 1 /\ con'.at = con.then
    BY <1>1, <2>1 DEF Shape
  <2>3. Shape'
    BY <1>1, <1>2, <1>6, <2>2 DEF Shape
  <2>4. con.pos < W * H => CursorOffset' = con.pos
    <3>1. /\ crtc'.lo = con.pos % ByteLimit
          /\ crtc'.hi = (con.pos \div ByteLimit) % ByteLimit
      BY <1>1, <1>6, <2>1
    <3> QED BY <1>3, <3>1, Halves DEF CursorOffset
  <2>5. CASE con.then = "char"
    <3>1. OnScreen /\ con.pos = curY * W + curX /\ curX \in Nat /\ curY \in Nat
      BY <1>1, <2>5 DEF Asked, Shape
    <3>2. con.pos < W * H
      BY <3>1, PositionInScreen DEF OnScreen
    <3>3. Settled'
      BY <1>2, <2>4, <3>1, <3>2 DEF Settled, OnScreen, Shows
    <3> QED BY <1>2, <2>2, <2>3, <2>5, <3>3 DEF CursorInv
  <2>6. CASE con.then = "newline"
    <3>1. OnScreen'
      BY <1>1, <1>2, <2>6 DEF Asked, OnScreen
    <3> QED BY <1>2, <2>2, <2>3, <2>6, <3>1 DEF CursorInv
  <2>7. CASE con.then = "halt"
    <3>1. con.pos = (H - 1) * W + 0
      BY <1>1, <2>7 DEF Asked
    <3>2. con.pos < W * H
      <4>1. 0 \in Nat /\ H - 1 \in Nat /\ 0 < W /\ H - 1 < H
        OBVIOUS
      <4> QED BY <3>1, <4>1, PositionInScreen
    <3>3. Shows((H - 1) * W)'
      BY <2>4, <3>1, <3>2 DEF Shows
    <3> QED BY <1>2, <2>2, <2>3, <2>7, <3>3 DEF CursorInv
  <2> QED BY <1>1, <2>5, <2>6, <2>7 DEF Asked
<1> QED BY <1>7, <1>8

(***************************************************************************)
(* The other steps of the console: they leave the cursor alone.            *)
(***************************************************************************)
LEMMA ConsoleStep ==
  ASSUME CursorInv, PutChar \/ NewLine \/ NewLineMoved \/ Adjust
  PROVE  CursorInv'
<1> USE ScreenAssumption
<1>1. crtc' = crtc /\ phase' = phase /\ Shape /\ phase # "start" /\ con.k = 1
  BY DEF PutChar, NewLine, NewLineMoved, Adjust, screen, CursorInv
<1>2. curX \in Nat /\ curY \in Nat /\ W \in Nat /\ H \in Nat
  BY <1>1 DEF Shape
<1>3. CASE PutChar
  <2>1. con.at = "char" /\ curX' = curX + 1 /\ curY' = curY /\ Settled
    BY <1>3 DEF PutChar, CursorInv
  <2>2. DOMAIN con' = DOMAIN con /\ con'.at = "adjust" /\ con'.k = con.k
    BY <1>1, <1>3 DEF PutChar, Shape
  <2>3. curX' <= W /\ curY' < H /\ curX' \in Nat
    BY <1>2, <2>1 DEF Settled, OnScreen
  <2>4. Shape'
    BY <1>1, <2>1, <2>2, <2>3 DEF Shape
  <2> QED BY <1>1, <1>2, <2>1, <2>2, <2>3, <2>4 DEF CursorInv
<1>4. CASE NewLine
  <2>1. con.at = "char" /\ curX' = curX /\ curY' = curY /\ Settled
    BY <1>4 DEF NewLine, CursorInv
  <2>2. /\ DOMAIN con' = DOMAIN con /\ con'.at = "cursor" /\ con'.k = con.k
        /\ con'.then = "newline" /\ con'.pos = (curY + 1) * W
    BY <1>1, <1>4 DEF NewLine, Shape
  <2>3. (curY + 1) * W \in Nat
    BY <1>2
  <2>4. Shape'
    BY <1>1, <2>1, <2>2 DEF Shape
  <2>5. Asked' /\ Sent'
    BY <1>1, <2>1, <2>2, <2>3 DEF Asked, Sent, Settled, OnScreen
  <2> QED BY <1>1, <2>1, <2>2, <2>4, <2>5 DEF CursorInv
<1>5. CASE NewLineMoved
  <2>1. con.at = "newline" /\ curX' = 0 /\ curY' = curY + 1 /\ OnScreen
    BY <1>5 DEF NewLineMoved, CursorInv
  <2>2. DOMAIN con' = DOMAIN con /\ con'.at = "adjust" /\ con'.k = con.k
    BY <1>1, <1>5 DEF NewLineMoved, Shape
  <2>3. curX' <= W /\ curX' < W /\ curY' <= H /\ curY' \in Nat
    BY <1>2, <2>1 DEF OnScreen
  <2>4. Shape'
    BY <1>1, <2>1, <2>2, <2>3 DEF Shape
  <2> QED BY <1>1, <2>2, <2>3, <2>4 DEF CursorInv
<1>6. CASE Adjust
  <2> DEFINE y == IF curX >= W THEN curY + 1 ELSE curY
             x == IF curX >= W THEN 0 ELSE curX
  <2>1. /\ con.at = "adjust" /\ curX' = x /\ curY' = y
        /\ con' = IF y >= H THEN [con EXCEPT !.at = "scroll", !.i = 0]
                  ELSE [con EXCEPT !.at = "cursor", !.pos = y * W + x, !.then = "char"]
    BY <1>6 DEF Adjust, Wrapped
  <2>2. curX <= W /\ curY <= H /\ (curY = H => curX < W)
    BY <2>1 DEF CursorInv
  <2>3. x \in Nat /\ y \in Nat /\ x < W /\ y <= H
    BY <1>2, <2>2
  <2> HIDE DEF x, y
  <2>4. CASE y >= H
    <3>1. DOMAIN con' = DOMAIN con /\ con'.at = "scroll" /\ con'.k = con.k
      BY <1>1, <2>1, <2>4 DEF Shape
    <3>2. Shape'
      BY <1>1, <2>1, <2>3, <3>1 DEF Shape
    <3>3. curX' < W /\ curY' = H
      BY <1>2, <2>1, <2>3, <2>4
    <3> QED BY <1>1, <3>1, <3>2, <3>3 DEF CursorInv
  <2>5. CASE ~(y >= H)
    <3>1. /\ DOMAIN con' = DOMAIN con /\ con'.at = "cursor" /\ con'.k = con.k
          /\ con'.then = "char" /\ con'.pos = y * W + x
      BY <1>1, <2>1, <2>5 DEF Shape
    <3>2. Shape'
      BY <1>1, <2>1, <2>3, <3>1 DEF Shape
    <3>3. OnScreen'
      BY <1>2, <2>1, <2>3, <2>5 DEF OnScreen
    <3>4. Asked' /\ Sent'
      BY <1>1, <2>1, <3>1, <3>3 DEF Asked, Sent
    <3> QED BY <1>1, <3>1, <3>2, <3>4 DEF CursorInv
  <2> QED BY <2>4, <2>5
<1> QED BY <1>3, <1>4, <1>5, <1>6

LEMMA ScrollStep ==
  ASSUME CursorInv, ScrollRead \/ ScrollWrite \/ Scrolled
  PROVE  CursorInv'
<1> USE ScreenAssumption
<1>1. /\ crtc' = crtc /\ phase' = phase /\ Shape /\ phase # "start" /\ con.k = 1
      /\ curX' = curX /\ curX < W /\ curY = H
  BY DEF ScrollRead, ScrollWrite, Scrolled, screen, CursorInv
<1>2. curX \in Nat /\ curY \in Nat /\ H - 1 \in Nat
  BY <1>1 DEF Shape
<1>3. CASE ScrollRead \/ ScrollWrite
  <2>1. /\ DOMAIN con' = DOMAIN con /\ con'.at \in {"scroll", "write"} /\ con'.k = con.k
        /\ curY' = curY
    BY <1>1, <1>3 DEF ScrollRead, ScrollWrite, Shape
  <2>2. Shape'
    BY <1>1, <2>1 DEF Shape
  <2> QED BY <1>1, <2>1, <2>2 DEF CursorInv
<1>4. CASE Scrolled
  <2>1. /\ DOMAIN con' = DOMAIN con /\ con'.at = "cursor" /\ con'.k = con.k
        /\ con'.then = "char" /\ con'.pos = (curY - 1) * W + curX /\ curY' = curY - 1
    BY <1>1, <1>4 DEF Scrolled, Shape
  <2>2. Shape'
    BY <1>1, <1>2, <2>1 DEF Shape
  <2>3. OnScreen'
    BY <1>1, <1>2, <2>1 DEF OnScreen
  <2>4. Asked' /\ Sent'
    BY <1>1, <2>1, <2>3 DEF Asked, Sent
  <2> QED BY <1>1, <2>1, <2>2, <2>4 DEF CursorInv
<1> QED BY <1>3, <1>4

(***************************************************************************)
(* CON_gotoXY to a cell of the screen, in one step: at boot, and in panic. *)
(***************************************************************************)
LEMMA CursorPlaced ==
  ASSUME NEW pos \in Nat, pos < W * H
  PROVE  /\ CursorAt(pos) \in [index : {"other", "lo", "hi"}, lo : 0..(ByteLimit - 1), hi : 0..(ByteLimit - 1)]
         /\ CursorAt(pos).hi * ByteLimit + CursorAt(pos).lo = pos
BY Halves DEF CursorAt

LEMMA BootStep ==
  ASSUME CursorInv, _start_VGA_init
  PROVE  CursorInv'
<1> USE ScreenAssumption
<1> DEFINE pos == CursorOffset
<1>1. phase = "start" /\ con.at = "idle" /\ con.k = 1 /\ Shape
  BY DEF CursorInv, _start_VGA_init
<1>2. pos \in Nat /\ pos < W * H
  <2>1. pos \in Cells /\ W * H \in Int
    BY <1>1 DEF CursorInv
  <2> QED BY <2>1 DEF Cells
<1>3. /\ crtc' = [CursorAt(pos) EXCEPT !.index = "other"]
      /\ curX' = pos % W /\ curY' = pos \div W /\ con' = con /\ phase' = "boot"
  BY DEF _start_VGA_init
<1> HIDE DEF pos
<1>4. /\ crtc' \in [index : {"other", "lo", "hi"}, lo : 0..(ByteLimit - 1), hi : 0..(ByteLimit - 1)]
      /\ crtc'.hi = CursorAt(pos).hi /\ crtc'.lo = CursorAt(pos).lo
  BY <1>2, <1>3, CursorPlaced
<1>5. CursorOffset' = pos
  BY <1>2, <1>4, CursorPlaced DEF CursorOffset
<1>6. W \in Nat \ {0} /\ H \in Nat
  OBVIOUS
<1>7. /\ curX' \in Nat /\ curX' < W /\ curY' \in Nat /\ pos = W * curY' + curX'
  BY <1>2, <1>3, <1>6, Division
<1>8. curY' < H
  BY <1>2, <1>3, <1>6, QuotientBelow
<1>9. Shape'
  BY <1>1, <1>3, <1>4, <1>7 DEF Shape, Phases
<1>10. Settled'
  BY <1>5, <1>6, <1>7, <1>8 DEF Settled, OnScreen, Shows
<1> QED BY <1>1, <1>3, <1>9, <1>10 DEF CursorInv

LEMMA PanicStep ==
  ASSUME CursorInv, panic
  PROVE  CursorInv'
<1> USE ScreenAssumption
<1>1. /\ DOMAIN con' = {"at", "text", "i", "val", "k", "pos", "then"}
      /\ con'.at = "char" /\ con'.k = 1
      /\ crtc' = CursorAt(0) /\ curX' = 0 /\ curY' = 0 /\ phase' = "panic"
  BY DEF panic, Panics, Idle
<1>2. 0 \in Nat /\ 0 < W * H
  <2>1. 0 < W /\ 0 < H /\ 0 * W + 0 = 0
    OBVIOUS
  <2>2. 0 * W + 0 < W * H
    BY <2>1, PositionInScreen
  <2> QED BY <2>1, <2>2
<1>3. /\ crtc' \in [index : {"other", "lo", "hi"}, lo : 0..(ByteLimit - 1), hi : 0..(ByteLimit - 1)]
      /\ CursorOffset' = 0
  BY <1>1, <1>2, CursorPlaced DEF CursorOffset
<1>4. Shape'
  BY <1>1, <1>3 DEF Shape, Phases
<1>5. Settled'
  BY <1>1, <1>3 DEF Settled, OnScreen, Shows
<1> QED BY <1>1, <1>4, <1>5 DEF CursorInv

(***************************************************************************)
(* The main thread between the console's calls, and main itself.           *)
(***************************************************************************)
LEMMA MainStep ==
  ASSUME CursorInv,
         Printed \/ sti \/ main \/ main_Writes \/ (\E parts \in Messages : CON_printf(parts))
  PROVE  CursorInv'
<1> USE ScreenAssumption
<1>1. /\ crtc' = crtc /\ curX' = curX /\ curY' = curY
      /\ Shape /\ phase # "start" /\ phase' # "start" /\ phase' \in Phases
  BY DEF Printed, sti, main, main_Writes, CON_printf, Runs, screen, console, CursorInv, Shape, Phases
<1>2. CASE Printed
  <2>1. con.at = "char" /\ con'.at = "idle" /\ con'.k = 1
        /\ DOMAIN con' = {"at", "text", "i", "val", "k", "pos", "then"}
    BY <1>2 DEF Printed, Idle
  <2>2. Settled' /\ Shape'
    BY <1>1, <2>1 DEF CursorInv, Settled, OnScreen, Shows, CursorOffset, Shape
  <2> QED BY <1>1, <2>1, <2>2 DEF CursorInv
<1>3. CASE sti
  <2>1. con.at = "idle" /\ con' = con /\ phase = "boot"
    BY <1>3 DEF sti, console
  <2>2. Settled' /\ Shape'
    BY <1>1, <2>1 DEF CursorInv, Settled, OnScreen, Shows, CursorOffset, Shape
  <2> QED BY <1>1, <2>1, <2>2 DEF CursorInv
<1>4. CASE \E parts \in Messages : CON_printf(parts)
  <2>1. /\ con.at = "idle" /\ phase \in {"boot", "on"} /\ con'.at = "char" /\ con'.k = 1
        /\ DOMAIN con' = {"at", "text", "i", "val", "k", "pos", "then"}
    BY <1>4 DEF CON_printf, Idle
  <2>2. Settled' /\ Shape'
    BY <1>1, <2>1 DEF CursorInv, Settled, OnScreen, Shows, CursorOffset, Shape
  <2> QED BY <1>1, <2>1, <2>2 DEF CursorInv
<1>5. CASE main
  <2>1. /\ con'.at = "hello" /\ con'.k = 1
        /\ DOMAIN con' = {"at", "text", "i", "val", "k", "pos", "then"}
    BY <1>5 DEF main, Idle
  <2>2. Shape'
    BY <1>1, <2>1 DEF Shape
  <2> QED BY <1>1, <2>1, <2>2 DEF CursorInv
<1>6. CASE main_Writes
  <2>1. CASE con.text # <<>>
    <3>1. DOMAIN con' = DOMAIN con /\ con'.at = con.at /\ con'.k = con.k /\ con.at = "hello"
      BY <1>1, <1>6, <2>1 DEF main_Writes, Shape
    <3>2. Shape'
      BY <1>1, <3>1 DEF Shape
    <3> QED BY <1>1, <3>1, <3>2 DEF CursorInv
  <2>2. CASE con.text = <<>>
    <3>1. /\ DOMAIN con' = {"at", "text", "i", "val", "k", "pos", "then"}
          /\ con'.at = "cursor" /\ con'.k = 1 /\ con'.then = "halt" /\ con'.pos = (H - 1) * W
      BY <1>6, <2>2 DEF main_Writes, Idle
    <3>2. Shape' /\ Asked' /\ Sent'
      BY <1>1, <3>1 DEF Shape, Asked, Sent
    <3> QED BY <1>1, <3>1, <3>2 DEF CursorInv
  <2> QED BY <2>1, <2>2
<1> QED BY <1>2, <1>3, <1>4, <1>5, <1>6

(***************************************************************************)
(* The handlers of the timer and the mouse write to video memory only.     *)
(***************************************************************************)
LEMMA HandlerStep ==
  ASSUME CursorInv, timer_callback \/ _mouse_handler \/ UNCHANGED vars
  PROVE  CursorInv'
<1>1. crtc' = crtc /\ curX' = curX /\ curY' = curY /\ con' = con /\ phase' = phase
  BY DEF timer_callback, _mouse_handler, vars, screen, console
<1>2. Shape' /\ (Settled' <=> Settled) /\ (OnScreen' <=> OnScreen) /\ CursorOffset' = CursorOffset
  BY <1>1 DEF CursorInv, Shape, Settled, OnScreen, Shows, CursorOffset
<1>3. (Asked' <=> Asked) /\ (Sent' <=> Sent)
  BY <1>1 DEF Asked, Sent, OnScreen
<1> QED BY <1>1, <1>2, <1>3 DEF CursorInv, Shows

LEMMA CursorInvariance == ScreenSpec => []CursorInv
<1> USE ScreenAssumption
<1>1. ScreenInit => CursorInv
  <2> SUFFICES ASSUME ScreenInit PROVE CursorInv
    OBVIOUS
  <2>1. /\ con = Idle /\ phase = "start" /\ curX = 0 /\ curY = 0
    BY DEF ScreenInit
  <2>2. PICK p \in Cells : crtc = [index |-> "other", lo |-> p % ByteLimit, hi |-> p \div ByteLimit]
    BY DEF ScreenInit
  <2>3. p \in Nat /\ p < W * H
    <3>1. W * H \in Int
      OBVIOUS
    <3> QED BY <3>1 DEF Cells
  <2>4. /\ crtc \in [index : {"other", "lo", "hi"}, lo : 0..(ByteLimit - 1), hi : 0..(ByteLimit - 1)]
        /\ CursorOffset = p
    BY <2>2, <2>3, Halves DEF CursorOffset
  <2>5. Shape
    BY <2>1, <2>4 DEF Shape, Idle, Phases
  <2> QED BY <2>1, <2>4, <2>5 DEF CursorInv, Idle
<1>2. CursorInv /\ [ScreenNext]_vars => CursorInv'
  BY CursorStep, ConsoleStep, ScrollStep, BootStep, PanicStep, MainStep, HandlerStep
     DEF ScreenNext, Step
<1> QED BY <1>1, <1>2, PTL DEF ScreenSpec

(***************************************************************************)
(* Whatever is printed, on a screen of any size, and whatever interrupts   *)
(* it: the cursor the four port writes have set is where the next          *)
(* character goes (vga.c, conio.c), and main leaves it in the last row.    *)
(***************************************************************************)
THEOREM CursorFollows == ScreenSpec => []CursorRight
<1>1. CursorInv => CursorRight
  <2> SUFFICES ASSUME CursorInv PROVE CursorRight
    OBVIOUS
  <2>1. W \in Nat /\ H \in Nat /\ curX \in Nat /\ curY \in Nat
    BY ScreenAssumption DEF CursorInv, Shape
  <2> QED BY <2>1 DEF CursorInv, CursorRight, Settled, OnScreen, Shows
<1> QED BY <1>1, CursorInvariance, PTL

-----------------------------------------------------------------------------
(***************************************************************************)
(* The text.  What CON_vsprintf makes of a message is taken to be what the *)
(* message means; where its characters come to stand is the question here. *)
(***************************************************************************)
\* The console is not at work.
Resting == \/ con.at \in {"idle", "hello", "halt"}
           \/ con.at = "cursor" /\ con.then = "halt"

\* CON_newline has taken its character and not moved the variables yet.
Breaking == \/ con.at = "newline"
            \/ con.at = "cursor" /\ con.then = "newline"

Alarmed == phase \in {"panic", "dead"}
Scrolling == con.at \in {"scroll", "write"}

Flow ==
  /\ Resting => due = <<>> /\ OnScreen
  /\ ~Resting => con.text = due
  /\ phase = "main" => Resting
  /\ phase = "dead" => con.at = "idle"
  /\ con.at = "hello" => phase = "main"
  /\ Alarmed => iff = FALSE
  /\ (con.at = "adjust" /\ curY = H) \/ Scrolling => curX = 0

\* Marks lie before the next one, one to a place.
Before(marks, n) == \A m \in marks : m[1] \in Nat /\ m[1] < n
Marked ==
  /\ sheet.next \in Nat /\ DOMAIN sheet = {"next", "marks"}
  /\ Before(sheet.marks, sheet.next)
  /\ \A m, n \in sheet.marks : m[1] = n[1] => m = n

\* The screen begins with line d of the sheet; the console is where the sheet
\* goes on.
Aligned(d) ==
  /\ sheet.next = IF Breaking THEN (curY + 1 + d) * W ELSE (curY + d) * W + curX
  /\ d > 0 => curY >= H - 1
  /\ phase = "start" => d = 0 /\ sheet.marks = {}

\* A cell shows what is at p, if the console has written it.
CellShows(c, p) == video[c].own => video[c].ch = Seen(sheet.marks, AtFirst, p)

\* While VGA_scroll_down runs, the cells before i have moved up already.
LineOf(c, d) == IF Scrolling /\ c < con.i THEN d + 1 ELSE d

Pictured(d) ==
  /\ DOMAIN video = Cells
  /\ \A c \in Cells : CellShows(c, c + LineOf(c, d) * W)
  /\ Scrolling => con.i \in Nat
  /\ con.at = "write" => /\ con.i < W * (H - 1)
                         /\ con.val.own => con.val.ch = Seen(sheet.marks, AtFirst, con.i + (d + 1) * W)
  /\ Alarmed => /\ \A c \in Cells : video[c].own = TRUE
                /\ con.at = "write" => con.val.own = TRUE

Layout(d) == Marked /\ Aligned(d) /\ Pictured(d)

TextInv == CursorInv /\ Flow /\ \E d \in Nat : Layout(d)

-----------------------------------------------------------------------------
(***************************************************************************)
(* What the sheet shows at a place: a new mark changes its own place only, *)
(* and beyond the marks and the first screen there is nothing.             *)
(***************************************************************************)
LEMMA SeenNew ==
  ASSUME NEW marks, NEW mark, NEW more, more = marks \cup {mark}, mark[1] \in Nat,
         Before(marks, mark[1]), NEW first
  PROVE  Seen(more, first, mark[1]) = mark[2]
<1>1. {m \in more : m[1] = mark[1]} = {mark}
  BY DEF Before
<1> QED BY <1>1 DEF Seen

LEMMA SeenOld ==
  ASSUME NEW marks, NEW mark, NEW more, more = marks \cup {mark},
         NEW first, NEW p, p # mark[1]
  PROVE  Seen(more, first, p) = Seen(marks, first, p)
<1>1. {m \in more : m[1] = p} = {m \in marks : m[1] = p}
  OBVIOUS
<1> QED BY <1>1 DEF Seen

LEMMA SeenBeyond ==
  ASSUME NEW marks, NEW first, NEW n \in Nat, NEW p \in Nat, p >= n, p \notin Cells,
         Before(marks, n)
  PROVE  Seen(marks, first, p) = Blank.ch
<1>1. {m \in marks : m[1] = p} = {}
  BY DEF Before
<1> QED BY <1>1 DEF Seen

LEMMA Quotient ==
  ASSUME NEW q \in Nat, NEW r \in Nat, r < W
  PROVE  (q * W + r) \div W = q
<1>0. W \in Nat \ {0}
  BY ScreenAssumption
<1> DEFINE n == q * W + r
           p == n \div W
<1>1. n \in Nat /\ n = q * W + r
  BY <1>0
<1> HIDE DEF n
<1>2. p \in Nat /\ n % W \in 0..(W - 1) /\ n = W * p + (n % W)
  BY <1>0, <1>1, Division
<1> DEFINE t == n % W
<1> HIDE DEF p, t
<1>3. t \in Nat /\ t < W /\ n = W * p + t
  BY <1>0, <1>2 DEF t
<1>4. W * (p - q) = r - t /\ W * (q - p) = t - r
  BY <1>0, <1>1, <1>2, <1>3
<1>5. ~(p - q >= 1)
  BY <1>0, <1>2, <1>3, <1>4, Grows
<1>6. ~(q - p >= 1)
  BY <1>0, <1>2, <1>3, <1>4, Grows
<1> QED BY <1>2, <1>5, <1>6 DEF n, p

\* A line further down.
LEMMA NextLine ==
  ASSUME NEW y \in Nat, NEW d \in Nat
  PROVE  /\ d * W \in Nat /\ (d + 1) * W = d * W + W
         /\ (y + d) * W = y * W + d * W /\ y * W \in Nat
         /\ (y + 1 + d) * W = (y + d) * W + W
         /\ (y - 1 + (d + 1)) * W = (y + d) * W
         /\ y + 1 + d = (y + d) + 1 /\ y + d + 1 = (y + d) + 1
BY ScreenAssumption

-----------------------------------------------------------------------------
(***************************************************************************)
(* The console takes a character.                                          *)
(***************************************************************************)
LEMMA TextPut ==
  ASSUME CursorInv, Flow, NEW d \in Nat, Layout(d), PutChar
  PROVE  Flow' /\ Layout(d)'
<1> USE ScreenAssumption
<1>1. /\ con.at = "char" /\ con.text # <<>> /\ Head(con.text) # "\n" /\ phase \in {"boot", "on", "panic"}
      /\ phase' = phase /\ iff' = iff /\ curX' = curX + 1 /\ curY' = curY
  BY DEF PutChar, Runs
<1>2. /\ DOMAIN con' = DOMAIN con /\ con'.at = "adjust" /\ con'.text = Tail(con.text)
  BY DEF PutChar, CursorInv, Shape
<1>3. /\ con.text = due /\ OnScreen /\ curX \in Nat /\ curY \in Nat
  BY <1>1 DEF Flow, Resting, CursorInv, Settled, Shape
<1> DEFINE ch == Head(due)
           n == sheet.next
           cell == curY * W + curX
<1>4. /\ sheet' = [next |-> n + 1, marks |-> sheet.marks \cup {<<n, ch>>}] /\ due' = Tail(due)
  BY <1>1, <1>3 DEF PutChar, Lay, Laid
<1>5. n \in Nat /\ n = (curY + d) * W + curX
  BY <1>1 DEF Layout, Marked, Aligned, Breaking
<1>6. cell \in Cells
  <2>1. cell \in Nat /\ cell < W * H
    BY <1>3, PositionInScreen DEF OnScreen
  <2>2. W * H \in Int
    OBVIOUS
  <2> QED BY <2>1, <2>2 DEF Cells
<1>7. video' = [video EXCEPT ![cell] = [ch |-> ch, own |-> TRUE]]
  BY <1>3, <1>6 DEF PutChar, VGA_WriteChar
<1>8. n = cell + d * W
  <2>1. (curY + d) * W = curY * W + d * W /\ d * W \in Nat /\ curY * W \in Nat
    BY <1>3, NextLine
  <2> QED BY <1>3, <1>5, <2>1
<1>9. Flow'
  BY <1>1, <1>2, <1>3, <1>4 DEF Flow, Resting, Alarmed, Scrolling, OnScreen
<1> HIDE DEF ch, n, cell
<1>10. Marked'
  <2>1. \A m \in sheet.marks : m[1] \in Nat /\ m[1] < n
    BY DEF Layout, Marked, Before, n
  <2>2. sheet'.next = n + 1 /\ sheet'.marks = sheet.marks \cup {<<n, ch>>} /\ DOMAIN sheet' = {"next", "marks"}
    BY <1>4
  <2>3. <<n, ch>>[1] = n
    OBVIOUS
  <2>4. \A m \in sheet'.marks : m[1] \in Nat /\ m[1] < n + 1
    BY <1>5, <2>1, <2>2, <2>3
  <2>5. \A m, o \in sheet'.marks : m[1] = o[1] => m = o
    <3> SUFFICES ASSUME NEW m \in sheet'.marks, NEW o \in sheet'.marks, m[1] = o[1] PROVE m = o
      OBVIOUS
    <3>1. m \in sheet.marks \/ m = <<n, ch>>
      BY <2>2
    <3>2. o \in sheet.marks \/ o = <<n, ch>>
      BY <2>2
    <3>3. n \notin {x[1] : x \in sheet.marks}
      BY <1>5, <2>1
    <3>4. \A x, y \in sheet.marks : x[1] = y[1] => x = y
      BY DEF Layout, Marked
    <3> QED BY <2>3, <3>1, <3>2, <3>3, <3>4
  <2> QED BY <1>5, <2>2, <2>4, <2>5 DEF Marked, Before
<1>11. Aligned(d)'
  <2>1. ~Breaking' /\ sheet'.next = n + 1
    BY <1>2, <1>4 DEF Breaking
  <2>2. n + 1 = (curY + d) * W + (curX + 1)
    <3>1. (curY + d) * W \in Int
      BY <1>3
    <3> QED BY <1>3, <1>5, <3>1
  <2>3. d > 0 => curY >= H - 1
    BY DEF Layout, Aligned
  <2> QED BY <1>1, <2>1, <2>2, <2>3 DEF Aligned
<1>12. Pictured(d)'
  <2>1. /\ DOMAIN video = Cells /\ \A c \in Cells : CellShows(c, c + LineOf(c, d) * W)
        /\ Alarmed => \A c \in Cells : video[c].own = TRUE
    BY DEF Layout, Pictured
  <2>2. DOMAIN video' = Cells
    BY <1>7, <2>1
  <2>3. ASSUME NEW c \in Cells PROVE CellShows(c, c + LineOf(c, d) * W)'
    <3>1. LineOf(c, d) = d /\ LineOf(c, d)' = d
      BY <1>1, <1>2 DEF LineOf, Scrolling
    <3>2. video[c].own => video[c].ch = Seen(sheet.marks, AtFirst, c + d * W)
      BY <2>1, <3>1 DEF CellShows
    <3>3. Before(sheet.marks, n)
      BY DEF Layout, Marked, n
    <3>4. AtFirst' = AtFirst /\ sheet'.marks = sheet.marks \cup {<<n, ch>>}
      BY <1>1, <1>4 DEF AtFirst
    <3>5. CASE c = cell
      <4>1. video'[c].ch = ch
        BY <1>6, <1>7, <2>1, <3>5
      <4>3. Seen(sheet'.marks, AtFirst', n) = ch
        <5>1. PICK old, new, first, mark : /\ old = sheet.marks /\ new = sheet'.marks
                 /\ first = AtFirst' /\ mark = <<n, ch>>
          OBVIOUS
        <5>2. /\ mark[1] = n /\ mark[2] = ch /\ mark[1] \in Nat
              /\ Before(old, mark[1]) /\ new = old \cup {mark}
          BY <1>5, <3>3, <3>4, <5>1
        <5>3. Seen(new, first, mark[1]) = mark[2]
          BY <5>2, SeenNew
        <5> QED BY <5>1, <5>2, <5>3
      <4> QED BY <1>8, <3>1, <3>5, <4>1, <4>3 DEF CellShows
    <3>6. CASE c # cell
      <4>1. video'[c] = video[c]
        BY <1>7, <2>1, <3>6
      <4>2. c + d * W # n
        <5>1. d * W \in Int /\ cell \in Int /\ c \in Int
          BY <1>6 DEF Cells
        <5> QED BY <1>8, <3>6, <5>1
      <4>3. Seen(sheet'.marks, AtFirst', c + d * W) = Seen(sheet.marks, AtFirst, c + d * W)
        <5>1. PICK old, new, first, mark, p : /\ old = sheet.marks /\ new = sheet'.marks
                 /\ first = AtFirst /\ mark = <<n, ch>> /\ p = c + d * W
          OBVIOUS
        <5>2. /\ mark[1] = n /\ new = old \cup {mark} /\ p # mark[1] /\ AtFirst' = first
          BY <3>4, <4>2, <5>1
        <5>3. Seen(new, first, p) = Seen(old, first, p)
          BY <5>2, SeenOld
        <5> QED BY <5>1, <5>2, <5>3
      <4> QED BY <3>1, <3>2, <4>1, <4>3 DEF CellShows
    <3> QED BY <3>5, <3>6
  <2>4. Alarmed' => \A c \in Cells : video'[c].own = TRUE
    BY <1>1, <1>7, <2>1 DEF Alarmed
  <2> QED BY <1>2, <2>2, <2>3, <2>4 DEF Pictured, Scrolling
<1> QED BY <1>9, <1>10, <1>11, <1>12 DEF Layout

\* A step that writes no cell and lays out nothing keeps the picture.
LEMMA PictureKept ==
  ASSUME NEW d \in Nat, Pictured(d), video' = video, sheet'.marks = sheet.marks,
         AtFirst' = AtFirst, Alarmed' => Alarmed, ~Scrolling,
         Scrolling' => con'.at = "scroll" /\ con'.i = 0
  PROVE  Pictured(d)'
<1>1. ASSUME NEW c \in Cells PROVE CellShows(c, c + LineOf(c, d) * W)'
  <2>1. c \in Int /\ c >= 0
    BY ScreenAssumption DEF Cells
  <2>2. LineOf(c, d) = d /\ LineOf(c, d)' = d
    BY <2>1 DEF LineOf
  <2>3. CellShows(c, c + d * W)
    BY <2>2 DEF Pictured
  <2> QED BY <2>2, <2>3 DEF CellShows
<1>2. DOMAIN video' = Cells /\ (Alarmed' => \A c \in Cells : video'[c].own = TRUE)
  BY DEF Pictured
<1> QED BY <1>1, <1>2 DEF Pictured, Scrolling

LEMMA TextNewLine ==
  ASSUME CursorInv, Flow, NEW d \in Nat, Layout(d), NewLine
  PROVE  Flow' /\ Layout(d)'
<1> USE ScreenAssumption
<1>1. /\ con.at = "char" /\ con.text # <<>> /\ Head(con.text) = "\n" /\ phase \in {"boot", "on", "panic"}
      /\ phase' = phase /\ iff' = iff /\ curX' = curX /\ curY' = curY /\ video' = video
  BY DEF NewLine, Runs, screen
<1>2. /\ DOMAIN con' = DOMAIN con /\ con'.at = "cursor" /\ con'.text = Tail(con.text)
      /\ con'.then = "newline"
  BY DEF NewLine, CursorInv, Shape
<1>3. /\ con.text = due /\ OnScreen /\ curX \in Nat /\ curY \in Nat
  BY <1>1 DEF Flow, Resting, CursorInv, Settled, Shape
<1> DEFINE n == sheet.next
           q == curY + d
<1>4. /\ sheet' = [sheet EXCEPT !.next = (n \div W + 1) * W] /\ due' = Tail(due)
  BY <1>1, <1>3 DEF NewLine, Lay, Laid
<1>5. DOMAIN sheet = {"next", "marks"} /\ n \in Nat /\ n = q * W + curX
  BY <1>1 DEF Layout, Marked, Aligned, Breaking
<1>6. q \in Nat /\ W \in Nat /\ curX < W
  BY <1>3 DEF OnScreen
<1>7. n \div W = q
  BY <1>3, <1>5, <1>6, Quotient
<1> HIDE DEF n, q
<1>8. DOMAIN sheet' = {"next", "marks"} /\ sheet'.marks = sheet.marks /\ sheet'.next = (q + 1) * W
  BY <1>4, <1>5, <1>7
<1>9. (q + 1) * W = q * W + W /\ q * W \in Nat
  BY <1>6
<1>10. (q + 1) * W \in Nat /\ n < (q + 1) * W
  BY <1>3, <1>5, <1>6, <1>9
<1>11. Flow'
  BY <1>1, <1>2, <1>3, <1>4 DEF Flow, Resting, Alarmed, Scrolling
<1>12. Marked'
  <2>1. \A m \in sheet.marks : m[1] \in Nat /\ m[1] < n
    BY DEF Layout, Marked, Before, n
  <2>2. \A m \in sheet'.marks : m[1] \in Nat /\ m[1] < sheet'.next
    BY <1>5, <1>8, <1>10, <2>1
  <2>3. \A m, o \in sheet'.marks : m[1] = o[1] => m = o
    BY <1>8 DEF Layout, Marked
  <2> QED BY <1>8, <1>10, <2>2, <2>3 DEF Marked, Before
<1>13. Aligned(d)'
  <2>1. Breaking' /\ q + 1 = curY' + 1 + d
    BY <1>1, <1>2, <1>3 DEF Breaking, q
  <2>2. d > 0 => curY' >= H - 1
    BY <1>1 DEF Layout, Aligned
  <2> QED BY <1>1, <1>8, <2>1, <2>2 DEF Aligned
<1>14. Pictured(d)'
  <2>1. ~Scrolling /\ ~Scrolling' /\ AtFirst' = AtFirst /\ (Alarmed' => Alarmed)
    BY <1>1, <1>2 DEF Scrolling, AtFirst, Alarmed
  <2> QED BY <1>1, <1>8, <2>1, PictureKept DEF Layout
<1> QED BY <1>11, <1>12, <1>13, <1>14 DEF Layout

LEMMA TextMoved ==
  ASSUME CursorInv, Flow, NEW d \in Nat, Layout(d), NewLineMoved
  PROVE  Flow' /\ Layout(d)'
<1> USE ScreenAssumption
<1>1. /\ con.at = "newline" /\ phase' = phase /\ iff' = iff /\ curX' = 0 /\ curY' = curY + 1
      /\ video' = video /\ sheet' = sheet /\ due' = due
  BY DEF NewLineMoved, screen, history
<1>2. /\ DOMAIN con' = DOMAIN con /\ con'.at = "adjust" /\ con'.text = con.text
  BY DEF NewLineMoved, CursorInv, Shape
<1>3. /\ con.text = due /\ curY \in Nat /\ phase # "start"
  BY <1>1 DEF Flow, Resting, CursorInv, Shape
<1>4. Flow'
  BY <1>1, <1>2, <1>3 DEF Flow, Resting, Alarmed, Scrolling
<1>5. Marked'
  BY <1>1 DEF Layout, Marked, Before
<1>6. Aligned(d)'
  <2>1. ~Breaking' /\ sheet.next = (curY + 1 + d) * W
    BY <1>1, <1>2 DEF Breaking, Layout, Aligned
  <2>2. (curY' + d) * W + curX' = (curY + 1 + d) * W
    BY <1>1, <1>3
  <2>3. d > 0 => curY' >= H - 1
    BY <1>1, <1>3 DEF Layout, Aligned
  <2> QED BY <1>1, <1>3, <2>1, <2>2, <2>3 DEF Aligned
<1>7. Pictured(d)'
  <2>1. ~Scrolling /\ ~Scrolling' /\ AtFirst' = AtFirst /\ (Alarmed' => Alarmed)
    BY <1>1, <1>2 DEF Scrolling, AtFirst, Alarmed
  <2> QED BY <1>1, <2>1, PictureKept DEF Layout
<1> QED BY <1>4, <1>5, <1>6, <1>7 DEF Layout

LEMMA TextAdjust ==
  ASSUME CursorInv, Flow, NEW d \in Nat, Layout(d), Adjust
  PROVE  Flow' /\ Layout(d)'
<1> USE ScreenAssumption
<1> DEFINE y == IF curX >= W THEN curY + 1 ELSE curY
           x == IF curX >= W THEN 0 ELSE curX
<1>1. /\ con.at = "adjust" /\ phase' = phase /\ iff' = iff /\ curX' = x /\ curY' = y
      /\ video' = video /\ sheet' = sheet /\ due' = due
      /\ con' = IF y >= H THEN [con EXCEPT !.at = "scroll", !.i = 0]
                ELSE [con EXCEPT !.at = "cursor", !.pos = y * W + x, !.then = "char"]
  BY DEF Adjust, Wrapped, screen, history
<1>2. con.text = due /\ curX \in Nat /\ curY \in Nat /\ curX <= W /\ phase # "start" /\ W \in Nat
  BY <1>1 DEF Flow, Resting, CursorInv, Shape
<1>3. (y + d) * W + x = (curY + d) * W + curX
  <2>1. CASE curX >= W
    <3>1. curX = W /\ y = curY + 1 /\ x = 0
      BY <1>2, <2>1
    <3>2. (curY + 1 + d) * W = (curY + d) * W + W
      BY <1>2, NextLine
    <3> QED BY <1>2, <3>1, <3>2
  <2> QED BY <2>1
<1>4. y >= curY /\ y \in Nat
  BY <1>2
<1> HIDE DEF x, y
<1>5. /\ con'.text = con.text
      /\ \/ con'.at = "scroll" /\ con'.i = 0
         \/ con'.at = "cursor" /\ con'.then = "char"
  BY <1>1 DEF CursorInv, Shape
<1>6. Flow'
  <2>1. Scrolling' => curX' = 0
    <3>1. Scrolling' => y >= H
      BY <1>1, <1>5 DEF Scrolling, CursorInv, Shape
    <3>2. curY = H => curX = 0
      BY <1>1 DEF Flow
    <3>3. curY <= H
      BY <1>1 DEF CursorInv
    <3> QED BY <1>1, <1>2, <3>1, <3>2, <3>3 DEF x, y
  <2> QED BY <1>1, <1>2, <1>5, <2>1 DEF Flow, Resting, Alarmed, Scrolling
<1>7. Marked'
  BY <1>1 DEF Layout, Marked, Before
<1>8. Aligned(d)'
  <2>1. ~Breaking' /\ sheet.next = (curY + d) * W + curX
    BY <1>1, <1>5 DEF Breaking, Layout, Aligned
  <2>2. d > 0 => curY' >= H - 1
    BY <1>1, <1>2, <1>4 DEF Layout, Aligned
  <2> QED BY <1>1, <1>2, <1>3, <2>1, <2>2 DEF Aligned
<1>9. Pictured(d)'
  <2>1. /\ ~Scrolling /\ AtFirst' = AtFirst /\ (Alarmed' => Alarmed)
        /\ (Scrolling' => con'.at = "scroll" /\ con'.i = 0)
    BY <1>1, <1>5 DEF Scrolling, AtFirst, Alarmed
  <2> QED BY <1>1, <2>1, PictureKept DEF Layout
<1> QED BY <1>6, <1>7, <1>8, <1>9 DEF Layout

(***************************************************************************)
(* VGA_scroll_down: cell by cell from the front, each cell gets what the   *)
(* one below it shows, which is still in place.                            *)
(***************************************************************************)
LEMMA CellsBelow ==
  ASSUME NEW i \in Nat, i < W * (H - 1)
  PROVE  i \in Cells /\ i + W \in Cells
<1> USE ScreenAssumption
<1>1. W * (H - 1) = W * H - W /\ W * H \in Int /\ W \in Nat \ {0}
  OBVIOUS
<1> QED BY <1>1 DEF Cells

LEMMA TextScrollRead ==
  ASSUME CursorInv, Flow, NEW d \in Nat, Layout(d), ScrollRead
  PROVE  Flow' /\ Layout(d)'
<1> USE ScreenAssumption
<1>1. /\ con.at = "scroll" /\ con.i < W * (H - 1) /\ phase' = phase /\ iff' = iff /\ curX' = curX
      /\ curY' = curY /\ video' = video /\ sheet' = sheet /\ due' = due
  BY DEF ScrollRead, screen, history
<1>2. /\ con'.at = "write" /\ con'.text = con.text /\ con'.i = con.i /\ con'.val = video[con.i + W]
  BY DEF ScrollRead, CursorInv, Shape
<1>3. con.text = due /\ phase # "start"
  BY <1>1 DEF Flow, Resting, CursorInv
<1>4. Flow'
  BY <1>1, <1>2, <1>3 DEF Flow, Resting, Alarmed, Scrolling
<1>5. Marked'
  BY <1>1 DEF Layout, Marked, Before
<1>6. Aligned(d)'
  <2>1. ~Breaking' /\ ~Breaking
    BY <1>1, <1>2 DEF Breaking
  <2> QED BY <1>1, <1>3, <2>1 DEF Layout, Aligned
<1>7. Pictured(d)'
  <2>1. con.i \in Nat /\ DOMAIN video = Cells /\ \A c \in Cells : CellShows(c, c + LineOf(c, d) * W)
    BY <1>1 DEF Layout, Pictured, Scrolling
  <2>2. con.i + W \in Cells /\ con.i \in Cells
    BY <1>1, <2>1, CellsBelow
  <2>3. AtFirst' = AtFirst /\ (Alarmed' <=> Alarmed) /\ (Scrolling' <=> Scrolling)
    BY <1>1, <1>2 DEF Scrolling, AtFirst, Alarmed
  <2>4. \A c \in Cells : CellShows(c, c + LineOf(c, d) * W)'
    BY <1>1, <1>2, <2>1, <2>3 DEF CellShows, LineOf
  <2>5. con'.val.own => con'.val.ch = Seen(sheet'.marks, AtFirst', con'.i + (d + 1) * W)
    <3>1. LineOf(con.i + W, d) = d
      BY <2>1 DEF LineOf
    <3>2. con.i + W + d * W = con.i + (d + 1) * W
      <4>1. (d + 1) * W = d * W + W /\ d * W \in Nat
        BY NextLine
      <4> QED BY <2>1, <4>1
    <3>3. CellShows(con.i + W, con.i + W + d * W)
      BY <2>1, <2>2, <3>1
    <3> QED BY <1>1, <1>2, <2>3, <3>2, <3>3 DEF CellShows
  <2>6. Alarmed' => (\A c \in Cells : video'[c].own = TRUE) /\ con'.val.own = TRUE
    BY <1>1, <1>2, <2>2, <2>3 DEF Layout, Pictured
  <2> QED BY <1>1, <1>2, <2>1, <2>4, <2>5, <2>6 DEF Pictured
<1> QED BY <1>4, <1>5, <1>6, <1>7 DEF Layout

\* What the last row is filled with is what lies below the text.
LEMMA BelowTheText ==
  ASSUME CursorInv, Flow, NEW d \in Nat, Layout(d), Scrolling, con.i \in Nat, con.i >= W * (H - 1)
  PROVE  Seen(sheet.marks, AtFirst, con.i + (d + 1) * W) = Blank.ch
<1> USE ScreenAssumption
<1> DEFINE p == con.i + (d + 1) * W
<1>1. curY = H /\ curX = 0 /\ H \in Nat /\ W \in Nat
  BY DEF CursorInv, Flow, Scrolling
<1>2. sheet.next = (H + d) * W /\ sheet.next \in Nat
  <2>1. ~Breaking
    BY DEF Breaking, Scrolling
  <2>2. sheet.next = (curY + d) * W + curX /\ sheet.next \in Nat
    BY <2>1 DEF Layout, Marked, Aligned
  <2>3. (H + d) * W \in Int
    OBVIOUS
  <2> QED BY <1>1, <2>2, <2>3
<1>3. W * (H - 1) = W * H - W /\ (d + 1) * W = d * W + W /\ (H + d) * W = W * H + d * W
  OBVIOUS
<1>4. W * H \in Nat /\ d * W \in Nat
  OBVIOUS
<1>5. p \in Nat /\ p >= sheet.next /\ p >= W * H
  BY <1>1, <1>2, <1>3, <1>4
<1>6. p \notin Cells
  BY <1>4, <1>5 DEF Cells
<1>7. Before(sheet.marks, sheet.next)
  BY DEF Layout, Marked
<1> HIDE DEF p
<1>8. Seen(sheet.marks, AtFirst, p) = Blank.ch
  BY <1>2, <1>5, <1>6, <1>7, SeenBeyond
<1> QED BY <1>8 DEF p

LEMMA TextScrollWrite ==
  ASSUME CursorInv, Flow, NEW d \in Nat, Layout(d), ScrollWrite
  PROVE  Flow' /\ Layout(d)'
<1> USE ScreenAssumption
<1> DEFINE cell == IF con.at = "write" THEN con.val ELSE Blank
<1>1. /\ con.at \in {"scroll", "write"} /\ phase' = phase /\ iff' = iff /\ curX' = curX
      /\ con.at = "scroll" => con.i >= W * (H - 1) /\ con.i \in Cells
      /\ curY' = curY /\ video' = [video EXCEPT ![con.i] = cell] /\ sheet' = sheet /\ due' = due
  BY DEF ScrollWrite, history
<1>2. con'.at = "scroll" /\ con'.text = con.text /\ con'.i = con.i + 1
  BY DEF ScrollWrite, CursorInv, Shape
<1>3. con.text = due /\ phase # "start"
  BY <1>1 DEF Flow, Resting, CursorInv
<1>4. Flow'
  BY <1>1, <1>2, <1>3 DEF Flow, Resting, Alarmed, Scrolling
<1>5. Marked'
  BY <1>1 DEF Layout, Marked, Before
<1>6. Aligned(d)'
  <2>1. ~Breaking' /\ ~Breaking
    BY <1>1, <1>2 DEF Breaking
  <2> QED BY <1>1, <1>3, <2>1 DEF Layout, Aligned
<1>7. Pictured(d)'
  <2>1. con.i \in Nat /\ DOMAIN video = Cells /\ \A c \in Cells : CellShows(c, c + LineOf(c, d) * W)
    BY <1>1 DEF Layout, Pictured, Scrolling
  <2>2. con.i \in Cells
    <3>1. CASE con.at = "write"
      BY <2>1, <3>1, CellsBelow DEF Layout, Pictured
    <3> QED BY <1>1, <3>1
  <2>3. AtFirst' = AtFirst /\ (Alarmed' <=> Alarmed) /\ Scrolling /\ Scrolling'
    BY <1>1, <1>2 DEF Scrolling, AtFirst, Alarmed
  <2>4. cell.own => cell.ch = Seen(sheet.marks, AtFirst, con.i + (d + 1) * W)
    <3>1. CASE con.at = "write"
      BY <3>1 DEF Layout, Pictured
    <3>2. CASE con.at = "scroll"
      <4>1. Seen(sheet.marks, AtFirst, con.i + (d + 1) * W) = Blank.ch
        BY <1>1, <2>1, <2>3, <3>2, BelowTheText
      <4> QED BY <3>2, <4>1
    <3> QED BY <1>1, <3>1, <3>2
  <2>5. Alarmed => cell.own = TRUE
    BY <1>1 DEF Layout, Pictured, Blank
  <2> HIDE DEF cell
  <2>6. ASSUME NEW c \in Cells PROVE CellShows(c, c + LineOf(c, d) * W)'
    <3>1. c \in Int
      BY DEF Cells
    <3>2. CASE c = con.i
      <4>1. LineOf(c, d)' = d + 1
        BY <1>2, <2>1, <2>3, <3>2 DEF LineOf
      <4>2. video'[c] = cell
        BY <1>1, <2>1, <2>2, <3>2
      <4> QED BY <1>1, <2>3, <2>4, <3>2, <4>1, <4>2 DEF CellShows
    <3>3. CASE c # con.i
      <4>1. LineOf(c, d)' = LineOf(c, d)
        BY <1>2, <2>1, <2>3, <3>1, <3>3 DEF LineOf
      <4>2. video'[c] = video[c]
        BY <1>1, <2>1, <3>3
      <4>3. CellShows(c, c + LineOf(c, d) * W)
        BY <2>1
      <4> QED BY <1>1, <2>3, <4>1, <4>2, <4>3 DEF CellShows
    <3> QED BY <3>2, <3>3
  <2>7. Alarmed' => \A c \in Cells : video'[c].own = TRUE
    BY <1>1, <2>1, <2>2, <2>3, <2>5 DEF Layout, Pictured
  <2>8. DOMAIN video' = Cells /\ con'.i \in Nat
    BY <1>1, <1>2, <2>1
  <2> QED BY <1>2, <2>6, <2>7, <2>8 DEF Pictured
<1> QED BY <1>4, <1>5, <1>6, <1>7 DEF Layout

\* The screen now begins a line further down.
LEMMA TextScrolled ==
  ASSUME CursorInv, Flow, NEW d \in Nat, Layout(d), Scrolled
  PROVE  Flow' /\ Layout(d + 1)'
<1> USE ScreenAssumption
<1>1. /\ con.at = "scroll" /\ con.i \notin Cells /\ phase' = phase /\ iff' = iff /\ curX' = curX
      /\ curY' = curY - 1 /\ video' = video /\ sheet' = sheet /\ due' = due
  BY DEF Scrolled, screen, history
<1>2. con'.at = "cursor" /\ con'.text = con.text /\ con'.then = "char"
  BY DEF Scrolled, CursorInv, Shape
<1>3. con.text = due /\ phase # "start" /\ curY = H /\ curX \in Nat /\ H \in Nat
  BY <1>1 DEF Flow, Resting, CursorInv, Shape
<1>4. Flow'
  BY <1>1, <1>2, <1>3 DEF Flow, Resting, Alarmed, Scrolling
<1>5. Marked'
  BY <1>1 DEF Layout, Marked, Before
<1>6. Aligned(d + 1)'
  <2>1. ~Breaking' /\ ~Breaking
    BY <1>1, <1>2 DEF Breaking
  <2>2. sheet.next = (curY + d) * W + curX
    BY <2>1 DEF Layout, Aligned
  <2>3. (curY' + (d + 1)) * W = (curY + d) * W
    BY <1>1, <1>3, NextLine
  <2> QED BY <1>1, <1>3, <2>1, <2>2, <2>3 DEF Aligned
<1>7. Pictured(d + 1)'
  <2>1. con.i \in Nat /\ DOMAIN video = Cells /\ \A c \in Cells : CellShows(c, c + LineOf(c, d) * W)
    BY <1>1 DEF Layout, Pictured, Scrolling
  <2>2. AtFirst' = AtFirst /\ (Alarmed' <=> Alarmed) /\ Scrolling /\ ~Scrolling'
    BY <1>1, <1>2 DEF Scrolling, AtFirst, Alarmed
  <2>3. ASSUME NEW c \in Cells PROVE CellShows(c, c + LineOf(c, d + 1) * W)'
    <3>1. c < con.i
      <4>1. W * H \in Int
        OBVIOUS
      <4> QED BY <1>1, <2>1, <4>1 DEF Cells
    <3>2. LineOf(c, d) = d + 1 /\ LineOf(c, d + 1)' = d + 1
      BY <2>2, <3>1 DEF LineOf
    <3>3. CellShows(c, c + (d + 1) * W)
      BY <2>1, <3>2
    <3> QED BY <1>1, <2>2, <3>2, <3>3 DEF CellShows
  <2>4. Alarmed' => \A c \in Cells : video'[c].own = TRUE
    BY <1>1, <2>2 DEF Layout, Pictured
  <2> QED BY <1>1, <1>2, <2>1, <2>2, <2>3, <2>4 DEF Pictured
<1> QED BY <1>4, <1>5, <1>6, <1>7 DEF Layout

-----------------------------------------------------------------------------
(***************************************************************************)
(* Steps that leave the sheet and the console's place alone: they write    *)
(* nothing, or cells that are then no longer the console's.                *)
(***************************************************************************)
LEMMA LayoutKept ==
  ASSUME NEW d \in Nat, Layout(d), sheet' = sheet, curX' = curX, curY' = curY,
         Breaking' <=> Breaking, phase' = "start" => phase = "start",
         AtFirst' = AtFirst, Alarmed' => Alarmed /\ video' = video,
         DOMAIN video' = Cells,
         \A c \in Cells : video'[c] = video[c] \/ video'[c].own = FALSE,
         Scrolling' <=> Scrolling, Scrolling => con' = con
  PROVE  Layout(d)'
<1>1. Marked'
  BY DEF Layout, Marked, Before
<1>2. Aligned(d)'
  BY DEF Layout, Aligned
<1>3. Pictured(d)'
  <2>1. ASSUME NEW c \in Cells PROVE CellShows(c, c + LineOf(c, d) * W)'
    <3>1. LineOf(c, d)' = LineOf(c, d)
      BY DEF LineOf
    <3>2. CellShows(c, c + LineOf(c, d) * W)
      BY DEF Layout, Pictured
    <3> QED BY <3>1, <3>2 DEF CellShows
  <2>2. Alarmed' => \A c \in Cells : video'[c].own = TRUE
    BY DEF Layout, Pictured
  <2>5. Alarmed' => (con'.at = "write" => con'.val.own = TRUE)
    BY DEF Layout, Pictured, Scrolling
  <2>3. Scrolling' => con'.i \in Nat
    BY DEF Layout, Pictured
  <2>4. con'.at = "write" =>
          /\ con'.i < W * (H - 1)
          /\ con'.val.own => con'.val.ch = Seen(sheet'.marks, AtFirst', con'.i + (d + 1) * W)
    BY DEF Layout, Pictured, Scrolling
  <2>6. DOMAIN video' = Cells
    OBVIOUS
  <2> QED BY <2>1, <2>2, <2>3, <2>4, <2>5, <2>6 DEF Pictured
<1> QED BY <1>1, <1>2, <1>3 DEF Layout

LEMMA TextHandler ==
  ASSUME CursorInv, Flow, NEW d \in Nat, Layout(d), timer_callback \/ _mouse_handler \/ UNCHANGED vars
  PROVE  Flow' /\ Layout(d)'
<1>1. /\ curX' = curX /\ curY' = curY /\ con' = con /\ phase' = phase /\ iff' = iff
      /\ sheet' = sheet /\ due' = due
  BY DEF timer_callback, _mouse_handler, vars, screen, console, history
<1>2. /\ (Breaking' <=> Breaking) /\ (Scrolling' <=> Scrolling) /\ (Alarmed' <=> Alarmed)
      /\ AtFirst' = AtFirst /\ (Resting' <=> Resting) /\ (OnScreen' <=> OnScreen)
  BY <1>1 DEF Breaking, Scrolling, Alarmed, AtFirst, Resting, OnScreen
<1>3. Flow'
  BY <1>1, <1>2 DEF Flow
<1>4. DOMAIN video = Cells
  BY DEF Layout, Pictured
<1>5. /\ DOMAIN video' = Cells
      /\ \A c \in Cells : video'[c] = video[c] \/ video'[c].own = FALSE
  <2>1. CASE timer_callback
    BY <2>1 DEF timer_callback, VGA_WriteString, Foreign
  <2>2. CASE _mouse_handler
    <3>1. video' = video \/ \E old, ch : video' = VGA_WriteChar(video, old, Foreign(ch))
      BY <2>2 DEF _mouse_handler
    <3>2. CASE video' = video
      BY <1>4, <3>2
    <3>3. ASSUME NEW old, NEW ch, video' = VGA_WriteChar(video, old, Foreign(ch))
          PROVE  /\ DOMAIN video' = Cells
                 /\ \A c \in Cells : video'[c] = video[c] \/ video'[c].own = FALSE
      BY <1>4, <3>3 DEF VGA_WriteChar, Foreign
    <3> QED BY <3>1, <3>2, <3>3
  <2>3. CASE UNCHANGED vars
    BY <1>4, <2>3 DEF vars, screen
  <2> QED BY <2>1, <2>2, <2>3
<1>6. Alarmed => video' = video
  BY DEF Flow, timer_callback, _mouse_handler, vars, screen
<1> QED BY <1>1, <1>2, <1>3, <1>5, <1>6, LayoutKept

LEMMA TextCursor ==
  ASSUME CursorInv, Flow, NEW d \in Nat, Layout(d), UpdateCursor
  PROVE  Flow' /\ Layout(d)'
<1>1. /\ con.at = "cursor" /\ phase' = phase /\ iff' = iff /\ curX' = curX
      /\ curY' = curY /\ video' = video /\ sheet' = sheet /\ due' = due
  BY DEF UpdateCursor, history
<1>2. con.then \in {"char", "newline", "halt"}
  BY <1>1 DEF CursorInv, Asked
<1>3. /\ con'.text = con.text
      /\ \/ con'.at = con.at /\ con'.then = con.then
         \/ con'.at = con.then
  BY DEF UpdateCursor, CursorInv, Shape
<1>4. /\ (Breaking' <=> Breaking) /\ (Resting' <=> Resting) /\ ~Scrolling /\ ~Scrolling'
      /\ con'.at \notin {"adjust", "hello", "idle"}
  BY <1>1, <1>2, <1>3 DEF Breaking, Resting, Scrolling
<1>5. (Alarmed' <=> Alarmed) /\ AtFirst' = AtFirst /\ (OnScreen' <=> OnScreen)
  BY <1>1 DEF Alarmed, AtFirst, OnScreen
<1>6. Flow'
  BY <1>1, <1>3, <1>4, <1>5 DEF Flow
<1>7. DOMAIN video = Cells
  BY DEF Layout, Pictured
<1> QED BY <1>1, <1>4, <1>5, <1>6, <1>7, LayoutKept

(***************************************************************************)
(* The main thread: between calls of the console, and main itself.         *)
(***************************************************************************)
LEMMA TextMain ==
  ASSUME CursorInv, Flow, NEW d \in Nat, Layout(d), Printed \/ sti \/ main
  PROVE  Flow' /\ Layout(d)'
<1>1. /\ curX' = curX /\ curY' = curY /\ video' = video /\ sheet' = sheet /\ due' = due
      /\ phase # "start"
  BY DEF Printed, sti, main, Runs, screen, console, history
<1>2. /\ con.at \in {"idle", "char"} /\ con'.at \in {"idle", "hello"} /\ phase' # "start"
      /\ AtFirst' = AtFirst /\ (Alarmed' <=> Alarmed)
      /\ (Alarmed' => iff' = FALSE) /\ (phase' = "dead" => con'.at = "idle")
      /\ (con'.at = "hello" => phase' = "main")
  <2>1. CASE Printed
    <3>1. con.at = "char" /\ con'.at = "idle" /\ iff' = iff /\ phase \in {"boot", "on", "panic"}
          /\ phase' = IF phase = "panic" THEN "dead" ELSE phase
      BY <2>1 DEF Printed, Runs, Idle
    <3> QED BY <3>1 DEF AtFirst, Alarmed, Flow
  <2>2. CASE sti
    <3>1. con.at = "idle" /\ con' = con /\ phase = "boot" /\ phase' = "on"
      BY <2>2 DEF sti, console
    <3> QED BY <3>1 DEF AtFirst, Alarmed
  <2>3. CASE main
    <3>1. con.at = "idle" /\ con'.at = "hello" /\ phase = "on" /\ phase' = "main"
      BY <2>3 DEF main, Idle
    <3> QED BY <3>1 DEF AtFirst, Alarmed
  <2> QED BY <2>1, <2>2, <2>3
<1>3. /\ ~Breaking /\ ~Breaking' /\ ~Scrolling /\ ~Scrolling' /\ Resting'
      /\ (OnScreen' <=> OnScreen)
  BY <1>1, <1>2 DEF Breaking, Scrolling, Resting, OnScreen
<1>4. due = <<>> /\ OnScreen
  <2>1. CASE Printed
    <3>1. con.at = "char" /\ con.text = <<>>
      BY <2>1 DEF Printed
    <3> QED BY <3>1 DEF Flow, Resting, CursorInv, Settled
  <2>2. CASE sti \/ main
    <3>1. con.at = "idle"
      BY <2>2 DEF sti, main
    <3> QED BY <3>1 DEF Flow, Resting
  <2> QED BY <2>1, <2>2
<1>5. Flow'
  BY <1>1, <1>2, <1>3, <1>4 DEF Flow
<1>6. DOMAIN video = Cells
  BY DEF Layout, Pictured
<1> QED BY <1>1, <1>2, <1>3, <1>5, <1>6, LayoutKept

LEMMA TextHello ==
  ASSUME CursorInv, Flow, NEW d \in Nat, Layout(d), main_Writes
  PROVE  Flow' /\ Layout(d)'
<1>1. /\ con.at = "hello" /\ curX' = curX /\ curY' = curY /\ sheet' = sheet /\ due' = due
      /\ phase' = phase /\ iff' = iff
  BY DEF main_Writes, history
<1>2. phase = "main" /\ DOMAIN video = Cells
  BY <1>1 DEF Flow, Layout, Pictured
<1>3. con'.at = "hello" \/ (con'.at = "cursor" /\ con'.then = "halt")
  BY <1>1 DEF main_Writes, Idle, CursorInv, Shape
<1>4. /\ ~Breaking /\ ~Breaking' /\ ~Scrolling /\ ~Scrolling' /\ Resting /\ Resting'
      /\ (OnScreen' <=> OnScreen) /\ ~Alarmed' /\ AtFirst' = AtFirst
  BY <1>1, <1>2, <1>3 DEF Breaking, Scrolling, Resting, OnScreen, Alarmed, AtFirst
<1>5. Flow'
  BY <1>1, <1>2, <1>3, <1>4 DEF Flow
<1>6. /\ DOMAIN video' = Cells
      /\ \A c \in Cells : video'[c] = video[c] \/ video'[c].own = FALSE
  BY <1>2 DEF main_Writes, VGA_WriteChar, Foreign
<1> QED BY <1>1, <1>2, <1>4, <1>5, <1>6, LayoutKept

LEMMA TextPrintf ==
  ASSUME FormatsRight, CursorInv, Flow, NEW d \in Nat, Layout(d),
         NEW parts \in Messages, CON_printf(parts)
  PROVE  Flow' /\ Layout(d)'
<1>1. /\ con.at = "idle" /\ curX' = curX /\ curY' = curY /\ sheet' = sheet /\ video' = video
      /\ phase' = phase /\ iff' = iff /\ phase \in {"boot", "on"} /\ con'.at = "char"
      /\ con'.text = CON_vsprintf(Format(parts), Arguments(parts)) /\ due' = Meaning(parts)
  BY DEF CON_printf, Idle, screen
<1>2. con'.text = due'
  BY <1>1 DEF FormatsRight
<1>3. /\ ~Breaking /\ ~Breaking' /\ ~Scrolling /\ ~Scrolling' /\ ~Resting'
      /\ ~Alarmed' /\ AtFirst' = AtFirst
  BY <1>1 DEF Breaking, Scrolling, Resting, Alarmed, AtFirst
<1>4. Flow'
  BY <1>1, <1>2, <1>3 DEF Flow
<1>5. DOMAIN video = Cells
  BY DEF Layout, Pictured
<1> QED BY <1>1, <1>3, <1>4, <1>5, LayoutKept

(***************************************************************************)
(* Where the text begins: at boot behind what the BIOS has left, in panic  *)
(* on an empty screen.                                                     *)
(***************************************************************************)
LEMMA SeenFirst ==
  ASSUME NEW first, NEW c \in Cells
  PROVE  Seen({}, first, c + 0 * W) = first
<1>1. c + 0 * W = c
  BY ScreenAssumption DEF Cells
<1>2. {m \in {} : m[1] = c} = {}
  OBVIOUS
<1>3. Seen({}, first, c) = first
  BY <1>2 DEF Seen
<1> QED BY <1>1, <1>3

LEMMA TextBoot ==
  ASSUME CursorInv, Flow, NEW d \in Nat, Layout(d), _start_VGA_init
  PROVE  Flow' /\ Layout(d)'
<1> USE ScreenAssumption
<1> DEFINE pos == CursorOffset
<1>1. /\ phase = "start" /\ con' = con /\ video' = video /\ iff' = iff /\ due' = due
      /\ phase' = "boot" /\ sheet' = Empty(pos) /\ curX' = pos % W /\ curY' = pos \div W
  BY DEF _start_VGA_init
<1>2. con.at = "idle" /\ d = 0 /\ sheet.marks = {} /\ pos \in Cells
  BY <1>1 DEF CursorInv, Layout, Aligned
<1>3. OnScreen'
  BY <1>1, <1>2, BootStep DEF CursorInv, Settled
<1>4. /\ ~Breaking' /\ ~Scrolling /\ ~Scrolling' /\ Resting /\ Resting'
      /\ ~Alarmed' /\ AtFirst' = AtFirst
  BY <1>1, <1>2 DEF Breaking, Scrolling, Resting, Alarmed, AtFirst
<1>5. Flow'
  BY <1>1, <1>2, <1>3, <1>4 DEF Flow
<1>6. pos \in Nat /\ W \in Nat \ {0}
  <2>1. W * H \in Int
    OBVIOUS
  <2> QED BY <1>2, <2>1 DEF Cells
<1> HIDE DEF pos
<1>7. sheet'.next = pos /\ sheet'.marks = {} /\ DOMAIN sheet' = {"next", "marks"}
  BY <1>1 DEF Empty
<1>8. Marked'
  BY <1>6, <1>7 DEF Marked, Before
<1>9. Aligned(d)'
  <2>1. pos = W * (pos \div W) + (pos % W) /\ pos \div W \in Nat /\ pos % W \in 0..(W - 1)
    BY <1>6, Division
  <2>2. curY' \in Nat /\ curX' \in Nat /\ pos = W * curY' + curX'
    BY <1>1, <1>6, <2>1
  <2>3. pos = (curY' + d) * W + curX'
    BY <1>2, <1>6, <2>2
  <2> QED BY <1>1, <1>2, <1>4, <1>7, <2>3 DEF Aligned
<1>10. Pictured(d)'
  BY <1>1, <1>2, <1>4, <1>7, PictureKept DEF Layout
<1> QED BY <1>5, <1>8, <1>9, <1>10 DEF Layout

LEMMA TextPanic ==
  ASSUME FormatsRight, CursorInv, Flow, panic
  PROVE  Flow' /\ Layout(0)'
<1> USE ScreenAssumption
<1>1. /\ con'.at = "char" /\ due' = Meaning(PanicMessage) /\ sheet' = Empty(0)
      /\ con'.text = CON_vsprintf(Format(PanicMessage), Arguments(PanicMessage))
      /\ phase' = "panic" /\ iff' = FALSE /\ curX' = 0 /\ curY' = 0
      /\ video' = [c \in Cells |-> Blank]
  BY DEF panic, Panics, Idle
<1>2. con'.text = due'
  BY <1>1 DEF FormatsRight
<1>3. /\ ~Breaking' /\ ~Scrolling' /\ ~Resting' /\ AtFirst' = Blank.ch
  BY <1>1 DEF Breaking, Scrolling, Resting, AtFirst
<1>4. Flow'
  BY <1>1, <1>2, <1>3 DEF Flow
<1>5. sheet'.next = 0 /\ sheet'.marks = {} /\ DOMAIN sheet' = {"next", "marks"}
  BY <1>1 DEF Empty
<1>6. Marked'
  BY <1>5 DEF Marked, Before
<1>7. Aligned(0)'
  <2>1. (0 + 0) * W + 0 = 0
    OBVIOUS
  <2> QED BY <1>1, <1>3, <1>5, <2>1 DEF Aligned
<1>8. Pictured(0)'
  <2>1. ASSUME NEW c \in Cells PROVE CellShows(c, c + LineOf(c, 0) * W)'
    <3>1. LineOf(c, 0)' = 0 /\ video'[c] = Blank
      BY <1>1, <1>3 DEF LineOf
    <3>2. Seen({}, Blank.ch, c + 0 * W) = Blank.ch
      BY SeenFirst
    <3> QED BY <1>3, <1>5, <3>1, <3>2 DEF CellShows
  <2>2. \A c \in Cells : video'[c].own = TRUE
    BY <1>1 DEF Blank
  <2>3. DOMAIN video' = Cells
    BY <1>1
  <2> QED BY <1>1, <1>3, <2>1, <2>2, <2>3 DEF Pictured
<1> QED BY <1>4, <1>6, <1>7, <1>8 DEF Layout

LEMMA TextInit ==
  ASSUME ScreenInit
  PROVE  Flow /\ Layout(0)
<1> USE ScreenAssumption
<1>1. /\ con = Idle /\ due = <<>> /\ sheet = Empty(0) /\ phase = "start" /\ iff = FALSE
      /\ curX = 0 /\ curY = 0 /\ video = [c \in Cells |-> Bios]
  BY DEF ScreenInit
<1>2. con.at = "idle" /\ AtFirst = Bios.ch
  BY <1>1 DEF Idle, AtFirst
<1>3. ~Breaking /\ ~Scrolling /\ Resting /\ ~Alarmed /\ OnScreen
  BY <1>1, <1>2 DEF Breaking, Scrolling, Resting, Alarmed, OnScreen
<1>4. Flow
  BY <1>1, <1>2, <1>3 DEF Flow
<1>5. sheet.next = 0 /\ sheet.marks = {} /\ DOMAIN sheet = {"next", "marks"}
  BY <1>1 DEF Empty
<1>6. Marked
  BY <1>5 DEF Marked, Before
<1>7. Aligned(0)
  <2>1. (0 + 0) * W + 0 = 0
    OBVIOUS
  <2> QED BY <1>1, <1>3, <1>5, <2>1 DEF Aligned
<1>8. Pictured(0)
  <2>1. ASSUME NEW c \in Cells PROVE CellShows(c, c + LineOf(c, 0) * W)
    <3>1. LineOf(c, 0) = 0 /\ video[c] = Bios
      BY <1>1, <1>3 DEF LineOf
    <3>2. Seen({}, Bios.ch, c + 0 * W) = Bios.ch
      BY SeenFirst
    <3> QED BY <1>2, <1>5, <3>1, <3>2 DEF CellShows
  <2>2. DOMAIN video = Cells
    BY <1>1
  <2> QED BY <1>2, <1>3, <2>1, <2>2 DEF Pictured
<1> QED BY <1>4, <1>6, <1>7, <1>8 DEF Layout

LEMMA TextInvariance ==
  ASSUME FormatsRight
  PROVE  ScreenSpec => []TextInv
<1>1. ScreenInit /\ CursorInv => TextInv
  <2>1. 0 \in Nat
    OBVIOUS
  <2> QED BY <2>1, TextInit DEF TextInv
<1>2. TextInv /\ CursorInv' /\ [ScreenNext]_vars => TextInv'
  <2> SUFFICES ASSUME TextInv, CursorInv', [ScreenNext]_vars PROVE TextInv'
    OBVIOUS
  <2>1. PICK d \in Nat : Layout(d)
    BY DEF TextInv
  <2>2. CursorInv /\ Flow
    BY DEF TextInv
  <2>3. CASE Scrolled
    <3>1. Flow' /\ Layout(d + 1)' /\ d + 1 \in Nat
      BY <2>1, <2>2, <2>3, TextScrolled
    <3> QED BY <3>1 DEF TextInv
  <2>4. CASE panic
    <3>1. Flow' /\ Layout(0)' /\ 0 \in Nat
      BY <2>2, <2>4, TextPanic
    <3> QED BY <3>1 DEF TextInv
  <2>5. CASE ~Scrolled /\ ~panic
    <3>1. Flow' /\ Layout(d)'
      BY <2>1, <2>2, <2>5, TextPut, TextNewLine, TextMoved, TextAdjust, TextScrollRead,
         TextScrollWrite, TextCursor, TextMain, TextHello, TextPrintf, TextBoot, TextHandler
         DEF ScreenNext, Step
    <3> QED BY <3>1 DEF TextInv
  <2> QED BY <2>3, <2>4, <2>5
<1> QED BY <1>1, <1>2, CursorInvariance, PTL DEF ScreenSpec

-----------------------------------------------------------------------------
\* Between two calls of the console the screen begins with the line Top.
LEMMA TopIsFirst ==
  ASSUME TextInv, Resting, NEW d \in Nat, Layout(d)
  PROVE  Top = d
<1> USE ScreenAssumption
<1>1. curX \in Nat /\ curY \in Nat /\ curX < W /\ curY < H /\ H \in Nat
  BY DEF TextInv, CursorInv, Shape, Flow, OnScreen
<1>2. ~Breaking
  BY DEF Resting, Breaking
<1>3. sheet.next = (curY + d) * W + curX /\ (d > 0 => curY >= H - 1)
  BY <1>2 DEF Layout, Aligned
<1> DEFINE q == curY + d
<1>4. q \in Nat /\ sheet.next = q * W + curX
  BY <1>1, <1>3
<1>5. sheet.next \div W = q
  <2> HIDE DEF q
  <2> QED BY <1>1, <1>4, Quotient
<1>6. IF q < H THEN d = 0 ELSE q - (H - 1) = d
  BY <1>1, <1>3
<1> QED BY <1>5, <1>6 DEF Top

\* ... and shows what the sheet does.
LEMMA CellsShown ==
  ASSUME TextInv, Resting
  PROVE  /\ due = <<>>
         /\ \A c \in Cells : video[c].own => video[c].ch = Shown(c)
         /\ Alarmed => \A c \in Cells : video[c].own = TRUE
<1>1. PICK d \in Nat : Layout(d)
  BY DEF TextInv
<1>2. Top = d
  BY <1>1, TopIsFirst
<1>3. due = <<>>
  BY DEF TextInv, Flow
<1>4. ASSUME NEW c \in Cells PROVE video[c].own => video[c].ch = Shown(c)
  <2>1. LineOf(c, d) = d
    BY DEF LineOf, Scrolling, Resting
  <2>2. CellShows(c, c + d * W)
    BY <1>1, <2>1 DEF Layout, Pictured
  <2> QED BY <1>2, <2>2 DEF CellShows, Shown
<1>5. Alarmed => \A c \in Cells : video[c].own = TRUE
  BY <1>1 DEF Layout, Pictured
<1> QED BY <1>3, <1>4, <1>5

(***************************************************************************)
(* On a screen of any size, for every sequence of messages whose formats   *)
(* are converted right, wherever the BIOS has left the cursor and whatever *)
(* the timer, the mouse and main write in between (conio.c, vga.c): every  *)
(* cell that is the console's shows the character that belongs there.      *)
(***************************************************************************)
THEOREM TextStaysIntact ==
  ASSUME FormatsRight
  PROVE  ScreenSpec => []TextIntact
<1>1. TextInv => TextIntact
  <2> SUFFICES ASSUME TextInv, AtRest
               PROVE  due = <<>> /\ \A c \in Cells : video[c].own => video[c].ch = Shown(c)
    BY DEF TextIntact
  <2>1. Resting
    BY DEF AtRest, TextInv, Flow, Resting
  <2> QED BY <2>1, CellsShown
<1> QED BY <1>1, TextInvariance, PTL

(***************************************************************************)
(* Panic ends with its message and nothing else on the screen, whatever it *)
(* interrupted: a scroll half done, a cursor half set, main's greeting; if *)
(* CON_vsprintf converts all messages right, the panic's too.              *)
(***************************************************************************)
THEOREM PanicIsShown ==
  ASSUME FormatsRight
  PROVE  ScreenSpec => []PanicShown
<1>1. TextInv => PanicShown
  <2> SUFFICES ASSUME TextInv, phase = "dead"
               PROVE  due = <<>> /\ \A c \in Cells : video[c].ch = Shown(c)
    BY DEF PanicShown
  <2>1. Resting /\ Alarmed
    BY DEF TextInv, Flow, Resting, Alarmed
  <2> QED BY <2>1, CellsShown
<1> QED BY <1>1, TextInvariance, PTL

=============================================================================
