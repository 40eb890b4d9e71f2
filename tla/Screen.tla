------------------------------- MODULE Screen -------------------------------
(***************************************************************************)
(* The text screen and those who write to it: the console of lib/conio.c   *)
(* (the boot messages, and those of fdc_init, which interrupts interrupt), *)
(* the timer's counter, the mouse cursor, main's greeting, and panic, also *)
(* from the keyboard's handler.  Characters only: what the mouse handler   *)
(* does to the colours is left out.                                        *)
(***************************************************************************)
EXTENDS Printf

CONSTANTS
  W, H,             \* VGA_TEXT_WIDTH (80) and VGA_TEXT_HEIGHT (25)
  ByteLimit,        \* the cursor's registers hold numbers below this: 256
  Messages,         \* what is printed, as sequences of parts
  PanicMessage,
  Ticks,            \* values of _ticks when the timer's handler shows it
  TimerX,           \* ... in this column of row 0: 70
  Hello, HelloX, HelloY,
  Moves,            \* how far the mouse moves at a time
  MaxCalls,         \* bound on the calls of CON_printf
  MaxIrqs           \* bound on the interrupts of the timer and the mouse

ASSUME ScreenAssumption ==
  /\ {W, H, ByteLimit} \subseteq Nat \ {0} /\ W * H < ByteLimit * ByteLimit
  /\ TimerX \in 0..(W - 1) /\ HelloX \in 0..(W - 1) /\ HelloY \in 0..(H - 1)
  /\ Moves \subseteq Int /\ Ticks \subseteq Int /\ {MaxCalls, MaxIrqs} \subseteq Nat

VARIABLES
  video,      \* video memory: a character, and whether it is the console's
  curX, curY, \* _curX, _curY
  crtc,       \* the selected register and the two halves of the cursor
  con,        \* the call of the console in progress
  mouse,      \* the mouse handler's static variables
  iff,        \* the interrupt flag
  phase,      \* how far the main thread is
  sheet, due, \* where the text belongs, and what is left of it (history)
  calls, irqs \* counters (bounds)

screen == <<video, crtc>>
console == <<curX, curY, con>>
history == <<sheet, due, calls, irqs>>
vars == <<screen, console, mouse, iff, phase, history>>

Cells == 0..(W * H - 1)
Blank == [ch |-> "", own |-> TRUE]     \* VGA_fill and VGA_scroll_down write 0
Bios == [ch |-> "o", own |-> TRUE]
Foreign(ch) == [ch |-> ch, own |-> FALSE]

\* at: the next thing to do; text: the characters left; i and val: the loop of
\* VGA_scroll_down and what it has read; k and pos: the next of the four port
\* writes of VGA_update_cursor and its argument; then: where that returns to.
Idle == [at |-> "idle", text |-> <<>>, i |-> 0, val |-> Blank,
         k |-> 1, pos |-> 0, then |-> "char"]

(***************************************************************************)
(* The reference: the text is laid out on an endless sheet, line by line   *)
(* from where the cursor was, a character for each that CON_puts takes.    *)
(***************************************************************************)
Empty(p) == [next |-> p, marks |-> {}]
Laid(s, ch) == IF ch = "\n" THEN [s EXCEPT !.next = (@ \div W + 1) * W]
               ELSE [next |-> s.next + 1, marks |-> s.marks \cup {<<s.next, ch>>}]
Lay == /\ IF due = <<>> THEN UNCHANGED <<sheet, due>>
          ELSE sheet' = Laid(sheet, Head(due)) /\ due' = Tail(due)
       /\ UNCHANGED <<calls, irqs>>

ScreenInit ==
  /\ video = [c \in Cells |-> Bios]
  /\ \E p \in Cells : crtc = [index |-> "other", lo |-> p % ByteLimit, hi |-> p \div ByteLimit]
  /\ curX = 0 /\ curY = 0 /\ con = Idle
  /\ mouse = [x |-> W \div 2, y |-> H \div 2, oldx |-> -1, oldy |-> -1, saved |-> ""]
  /\ iff = FALSE /\ phase = "start"
  /\ sheet = Empty(0) /\ due = <<>> /\ calls = 0 /\ irqs = 0

(***************************************************************************)
(* vga.c                                                                   *)
(***************************************************************************)
\* VGA_WriteChar writes nothing outside the screen.
VGA_WriteChar(v, off, cell) == IF off \in Cells THEN [v EXCEPT ![off] = cell] ELSE v

VGA_WriteString(v, off, str) ==
  [c \in Cells |-> IF c - off + 1 \in DOMAIN str THEN Foreign(str[c - off + 1]) ELSE v[c]]

\* VGA_get_cursor_offset.
CursorOffset == crtc.hi * ByteLimit + crtc.lo

\* The k-th port write of VGA_update_cursor.
Out_NoSelect(k, pos) ==
  CASE k \in {1, 3} -> crtc
    [] k = 2 -> [crtc EXCEPT ![crtc.index] = pos % ByteLimit]
    [] k = 4 -> [crtc EXCEPT ![crtc.index] = (pos \div ByteLimit) % ByteLimit]
Out(k, pos) ==
  CASE k = 1 -> [crtc EXCEPT !.index = "lo"]
    [] k = 2 -> [crtc EXCEPT ![crtc.index] = pos % ByteLimit]
    [] k = 3 -> [crtc EXCEPT !.index = "hi"]
    [] k = 4 -> [crtc EXCEPT ![crtc.index] = (pos \div ByteLimit) % ByteLimit]
CursorAt(pos) == [index |-> "hi", lo |-> pos % ByteLimit, hi |-> pos \div ByteLimit]

(***************************************************************************)
(* The console.  Interrupts come between any two steps.                    *)
(***************************************************************************)
Runs == phase \in {"boot", "on", "panic"}

\* CON_puts takes the next character of the text; CON_putc.
PutChar ==
  /\ Runs /\ con.at = "char" /\ con.text # <<>> /\ Head(con.text) # "\n"
  /\ video' = VGA_WriteChar(video, curY * W + curX, [ch |-> Head(con.text), own |-> TRUE])
  /\ curX' = curX + 1
  /\ con' = [con EXCEPT !.text = Tail(@), !.at = "adjust"]
  /\ Lay
  /\ UNCHANGED <<curY, crtc, mouse, iff, phase>>

\* CON_newline: CON_gotoXY moves the cursor first, then the variables.
NewLine ==
  /\ Runs /\ con.at = "char" /\ con.text # <<>> /\ Head(con.text) = "\n"
  /\ con' = [con EXCEPT !.text = Tail(@), !.at = "cursor", !.pos = (curY + 1) * W,
                        !.then = "newline"]
  /\ Lay
  /\ UNCHANGED <<screen, curX, curY, mouse, iff, phase>>

NewLineMoved ==
  /\ con.at = "newline"
  /\ curX' = 0 /\ curY' = curY + 1
  /\ con' = [con EXCEPT !.at = "adjust"]
  /\ UNCHANGED <<screen, mouse, iff, phase, history>>

\* _AdjScrollDrown, up to the loop of VGA_scroll_down.
Wrapped_OneLate == curX > W
Wrapped == curX >= W
Adjust ==
  /\ con.at = "adjust"
  /\ LET y == IF Wrapped THEN curY + 1 ELSE curY
         x == IF Wrapped THEN 0 ELSE curX
     IN  /\ curX' = x /\ curY' = y
         /\ con' = IF y >= H THEN [con EXCEPT !.at = "scroll", !.i = 0]
                   ELSE [con EXCEPT !.at = "cursor", !.pos = y * W + x, !.then = "char"]
  /\ UNCHANGED <<screen, mouse, iff, phase, history>>

\* One turn of the first loop is a read and a write, of the second a write.
ScrollRead ==
  /\ con.at = "scroll" /\ con.i < W * (H - 1)
  /\ con' = [con EXCEPT !.val = video[con.i + W], !.at = "write"]
  /\ UNCHANGED <<screen, curX, curY, mouse, iff, phase, history>>

ScrollWrite ==
  /\ \/ con.at = "write"
     \/ con.at = "scroll" /\ con.i >= W * (H - 1) /\ con.i \in Cells
  /\ video' = [video EXCEPT ![con.i] = IF con.at = "write" THEN con.val ELSE Blank]
  /\ con' = [con EXCEPT !.i = @ + 1, !.at = "scroll", !.val = Blank]
  /\ UNCHANGED <<crtc, curX, curY, mouse, iff, phase, history>>

Scrolled ==
  /\ con.at = "scroll" /\ con.i \notin Cells
  /\ curY' = curY - 1
  /\ con' = [con EXCEPT !.at = "cursor", !.pos = (curY - 1) * W + curX, !.then = "char", !.i = 0]
  /\ UNCHANGED <<screen, curX, mouse, iff, phase, history>>

UpdateCursor ==
  /\ con.at = "cursor"
  /\ crtc' = Out(con.k, con.pos)
  /\ con' = IF con.k < 4 THEN [con EXCEPT !.k = @ + 1]
            ELSE [con EXCEPT !.k = 1, !.at = con.then, !.pos = 0]
  /\ UNCHANGED <<video, curX, curY, mouse, iff, phase, history>>

Printed ==
  /\ Runs /\ con.at = "char" /\ con.text = <<>>
  /\ con' = Idle
  /\ phase' = IF phase = "panic" THEN "dead" ELSE phase
  /\ UNCHANGED <<screen, curX, curY, mouse, iff, history>>

(***************************************************************************)
(* The main thread.                                                        *)
(***************************************************************************)
\* CON_gotoXY to where the BIOS left the cursor.
_start_VGA_init ==
  /\ phase = "start"
  /\ crtc' = [CursorAt(CursorOffset) EXCEPT !.index = "other"]   \* VGA_enable_cursor
  /\ curX' = CursorOffset % W /\ curY' = CursorOffset \div W
  /\ sheet' = Empty(CursorOffset)
  /\ phase' = "boot"
  /\ UNCHANGED <<video, con, mouse, iff, due, calls, irqs>>

CON_printf(parts) ==
  /\ phase \in {"boot", "on"} /\ con.at = "idle" /\ calls < MaxCalls
  /\ con' = [Idle EXCEPT !.at = "char", !.text = CON_vsprintf(Format(parts), Arguments(parts))]
  /\ due' = Meaning(parts)
  /\ calls' = calls + 1
  /\ UNCHANGED <<screen, curX, curY, mouse, iff, phase, sheet, irqs>>

sti ==
  /\ phase = "boot" /\ con.at = "idle"
  /\ iff' = TRUE /\ phase' = "on"
  /\ UNCHANGED <<screen, console, mouse, history>>

\* main goes past the console: a string, then the cursor's port writes.
main ==
  /\ phase = "on" /\ con.at = "idle"
  /\ phase' = "main"
  /\ con' = [Idle EXCEPT !.at = "hello", !.text = Hello, !.i = HelloY * W + HelloX]
  /\ UNCHANGED <<screen, curX, curY, mouse, iff, history>>

main_Writes ==
  /\ con.at = "hello"
  /\ IF con.text # <<>>
     THEN /\ video' = VGA_WriteChar(video, con.i, Foreign(Head(con.text)))
          /\ con' = [con EXCEPT !.text = Tail(@), !.i = @ + 1]
     ELSE /\ con' = [Idle EXCEPT !.at = "cursor", !.pos = (H - 1) * W, !.then = "halt"]
          /\ UNCHANGED video
  /\ UNCHANGED <<crtc, curX, curY, mouse, iff, phase, history>>

\* cli, VGA_fill, CON_gotoXY(0, 0), CON_printf; called by the main thread, or by
\* the keyboard's handler whatever the main thread is doing.
Panics_NoHome ==
  /\ con' = [Idle EXCEPT !.at = "char", !.text = CON_vsprintf(Format(PanicMessage), Arguments(PanicMessage))]
  /\ iff' = FALSE /\ video' = [c \in Cells |-> Blank] /\ crtc' = crtc
  /\ UNCHANGED <<curX, curY>>
Panics ==
  /\ con' = [Idle EXCEPT !.at = "char", !.text = CON_vsprintf(Format(PanicMessage), Arguments(PanicMessage))]
  /\ iff' = FALSE /\ video' = [c \in Cells |-> Blank] /\ crtc' = CursorAt(0)
  /\ curX' = 0 /\ curY' = 0

panic ==
  /\ \/ phase \in {"boot", "on"} /\ con.at = "idle"
     \/ iff
  /\ Panics
  /\ phase' = "panic"
  /\ due' = Meaning(PanicMessage) /\ sheet' = Empty(0)
  /\ UNCHANGED <<mouse, calls, irqs>>

(***************************************************************************)
(* The interrupt handlers, which do not nest.                              *)
(***************************************************************************)
timer_callback ==
  /\ iff /\ irqs < MaxIrqs /\ irqs' = irqs + 1
  /\ \E t \in Ticks : video' = VGA_WriteString(video, TimerX, itoa(t, 10))
  /\ UNCHANGED <<crtc, console, mouse, iff, phase, sheet, due, calls>>

Clamp(z, limit) == IF z < 0 THEN 0 ELSE IF z >= limit THEN limit - 1 ELSE z

\* The character under the cursor is written back where the cursor was, and
\* the one where it is now is saved.
_mouse_handler ==
  /\ iff /\ irqs < MaxIrqs /\ irqs' = irqs + 1
  /\ \E dx, dy \in Moves :
       LET x == Clamp(mouse.x + dx, W)
           y == Clamp(mouse.y - dy, H)
           old == mouse.oldy * W + mouse.oldx
           back == IF old \in Cells /\ video[old].ch # mouse.saved
                   THEN VGA_WriteChar(video, old, Foreign(mouse.saved)) ELSE video
           moved == <<x, y>> # <<mouse.oldx, mouse.oldy>>
       IN  /\ video' = IF moved THEN back ELSE video
           /\ mouse' = IF moved THEN [x |-> x, y |-> y, oldx |-> x, oldy |-> y,
                                      saved |-> back[y * W + x].ch]
                       ELSE [mouse EXCEPT !.x = x, !.y = y]
  /\ UNCHANGED <<crtc, console, iff, phase, sheet, due, calls>>

Step == \/ PutChar \/ NewLine \/ NewLineMoved \/ Adjust
        \/ ScrollRead \/ ScrollWrite \/ Scrolled \/ UpdateCursor \/ Printed
        \/ _start_VGA_init \/ sti \/ main \/ main_Writes

ScreenNext == \/ Step
              \/ \E parts \in Messages : CON_printf(parts)
              \/ panic
              \/ timer_callback \/ _mouse_handler

ScreenSpec == ScreenInit /\ [][ScreenNext]_vars

-----------------------------------------------------------------------------
(***************************************************************************)
(* The screen shows the sheet's last H lines, up to the one the next       *)
(* character goes to, and before the text what was there at first.         *)
(***************************************************************************)
Top == IF sheet.next \div W < H THEN 0 ELSE sheet.next \div W - (H - 1)
AtFirst == IF phase \in {"panic", "dead"} THEN Blank.ch ELSE Bios.ch
Seen(marks, first, p) ==
  LET here == {m \in marks : m[1] = p}
  IN  CASE here # {} -> (CHOOSE m \in here : TRUE)[2]
        [] here = {} /\ p \in Cells -> first
        [] OTHER -> Blank.ch
Shown(c) == Seen(sheet.marks, AtFirst, c + Top * W)

(***************************************************************************)
(* What CON_vsprintf makes of the format and the arguments of a message is *)
(* what the message means: the digits, collected last one first and then   *)
(* turned round, are those of the number, every conversion takes its own   *)
(* argument, and what %s and %% bring in is not read as a format again.    *)
(***************************************************************************)
FormatsRight == \A parts \in Messages \cup {PanicMessage} :
                  CON_vsprintf(Format(parts), Arguments(parts)) = Meaning(parts)

AtRest == phase = "main" \/ (con.at = "idle" /\ phase # "dead")

(***************************************************************************)
(* The console's text is where it belongs, however it wrapped and scrolled *)
(* and whatever interrupted it: a cell that differs was last written by    *)
(* the timer or by main, or holds, or has scrolled from one that held, a   *)
(* character the mouse handler wrote back late.                            *)
(***************************************************************************)
TextIntact == AtRest => /\ due = <<>>
                        /\ \A c \in Cells : video[c].own => video[c].ch = Shown(c)

(***************************************************************************)
(* The blinking cursor is where the next character goes, although it is    *)
(* written in four port writes that share the selected register, and the   *)
(* console keeps its own copy and never reads it back; main leaves it at   *)
(* the start of the last row.                                              *)
(***************************************************************************)
CursorRight ==
  /\ con.at = "idle" /\ phase \in {"boot", "on", "dead"} =>
       curX \in 0..(W - 1) /\ curY \in 0..(H - 1) /\ CursorOffset = curY * W + curX
  /\ con.at = "halt" => CursorOffset = (H - 1) * W

(***************************************************************************)
(* Whatever panic interrupted (a scroll, a write of the cursor, main), the *)
(* screen ends with its message and nothing else.                          *)
(***************************************************************************)
PanicShown == phase = "dead" => due = <<>> /\ \A c \in Cells : video[c].ch = Shown(c)
=============================================================================
