--------------------------- MODULE ScancodeQueue ---------------------------
(* What the keyboard path of drivers/ps2.c promises to PS2_get_scancode: a  *)
(* bounded first-in first-out queue between the keyboard interrupt and the  *)
(* main program.  A code that arrives when the queue is full is dropped and *)
(* no other code is ever lost, duplicated, reordered or corrupted.          *)
EXTENDS Naturals, Sequences

CONSTANTS Codes,      \* the scancode bytes the keyboard sends
          NoCode,     \* no byte
          Capacity    \* how many undelivered codes are kept

VARIABLES line,       \* the byte waiting in the controller, or NoCode
          queue,      \* the codes accepted and not yet delivered
          got         \* the code delivered last, or NoCode

vars == <<line, queue, got>>

Init == line = NoCode /\ queue = << >> /\ got = NoCode

(* The keyboard hands a byte to the controller. *)
Arrive(c) ==
    /\ line = NoCode
    /\ line' = c
    /\ UNCHANGED <<queue, got>>

(* The interrupt handler takes the byte and keeps it. *)
Accept ==
    /\ line # NoCode
    /\ Len(queue) < Capacity
    /\ queue' = Append(queue, line)
    /\ line' = NoCode
    /\ UNCHANGED got

(* The interrupt handler takes the byte and there is no room for it. *)
Drop ==
    /\ line # NoCode
    /\ Len(queue) = Capacity
    /\ line' = NoCode
    /\ UNCHANGED <<queue, got>>

(* The main program takes the oldest code. *)
Deliver ==
    /\ queue # << >>
    /\ got' = Head(queue)
    /\ queue' = Tail(queue)
    /\ UNCHANGED line

Next == (\E c \in Codes : Arrive(c)) \/ Accept \/ Drop \/ Deliver

Spec == Init /\ [][Next]_vars
=============================================================================
