------------------------------ MODULE Keyboard ------------------------------
(***************************************************************************)
(* drivers/ps2.c once it is up: the handlers of IRQ 1 and IRQ 12, which    *)
(* read the same port, and PS2_get_char, which makes key events out of     *)
(* scancodes.  The ring between them is the bounded queue that             *)
(* ScancodeRing implements; handlers do not nest (Interrupts).             *)
(***************************************************************************)
EXTENDS PS2, TLC

CONSTANTS
  Keys,       \* the keys that are hit
  MaxActions, \* how often a key is pressed or released
  MaxMoves,   \* how often the mouse is moved
  RingSize    \* codes the ring holds: PS2_RING_BUFFER_SIZE - 1

ASSUME KeyAssumption == Keys \subseteq {"a", "one", "up", "lshift", "rctrl"}
ASSUME BoundAssumption == {MaxActions, MaxMoves, RingSize} \subseteq Nat

VARIABLES
  handler, \* "none", "keyboard", or how many bytes the mouse handler has read
  queue,   \* the ring
  key,     \* locals of PS2_get_char: scancode, released, extended
  mod,     \* its static modifiers
  event,   \* the event it returned last
  moves,   \* mouse movements so far
  held,    \* the keys that are down
  acts,    \* what was done with them, and the byte it ends with (history)
  eaten,   \* bytes PS2_get_char has taken (history)
  stolen,  \* a handler has read a byte of the other's device (history)
  full     \* a code was dropped (history)

decoder == <<key, mod, event, eaten>>
user == <<moves, held, acts>>
irq == <<handler, queue, stolen, full>>
ps2 == <<driver, controller, wires, history>>
vars == <<ps2, irq, decoder, user>>

-----------------------------------------------------------------------------
(***************************************************************************)
(* The user.  What a key sends in scancode set 2.                          *)
(***************************************************************************)
EXTENDED == 224
RELEASED == 240
Code(k) == CASE k = "a" -> 28 [] k = "one" -> 22 [] k = "up" -> 117
             [] k = "lshift" -> 18 [] k = "rctrl" -> 20
IsExtended(k) == k \in {"up", "rctrl"}
IsModifier(k) == k \in {"lshift", "rctrl"}

Sent(k, released) == (IF IsExtended(k) THEN <<EXTENDED>> ELSE << >>)
                     \o (IF released THEN <<RELEASED>> ELSE << >>) \o <<Code(k)>>

Acted == IF acts = << >> THEN 0 ELSE acts[Len(acts)].end

\* A bound: one action after PS2_init has been disturbed or has been too early.
Bound == IF pc = "init" \/ early \/ late THEN 1 ELSE MaxActions

Hit(k) ==
  LET released == k \in held
      bytes == Sent(k, released)
  IN /\ machine.keyboard /\ pc # "panic" /\ Len(acts) < Bound
     /\ Say("keyboard", bytes)
     /\ held' = IF released THEN held \ {k} ELSE held \cup {k}
     /\ acts' = Append(acts, [key |-> k, released |-> released, end |-> Acted + Len(bytes)])
     /\ early' = (early \/ pc = "init")
     /\ UNCHANGED <<driver, controller, out, requests, late, irq, decoder, moves>>

\* Bit 3 is set in the first of the three bytes of a movement.  The same bound.
Move ==
  /\ pc = "up" /\ reporting /\ ~early /\ ~late /\ moves < MaxMoves
  /\ moves' = moves + 1
  /\ Say("mouse", <<8, 1, 0>>)
  /\ UNCHANGED <<driver, controller, out, requests, history, irq, decoder, held, acts>>

-----------------------------------------------------------------------------
(***************************************************************************)
(* The handlers.                                                           *)
(***************************************************************************)
Enter(src) ==
  /\ pc = "up" /\ handler = "none"
  /\ src \in requests
  /\ requests' = requests \ {src}
  /\ handler' = IF src = "keyboard" THEN "keyboard" ELSE "mouse0"
  /\ UNCHANGED <<driver, controller, out, sent, history, queue, stolen, full, decoder, user>>

Stolen(src) == stolen' = (stolen \/ (out.new /\ out.src # src))

\* A code that finds the ring full is dropped.
Kept_Unbounded(q, c) == Append(q, c)
Kept_Early(q, c) == IF Len(q) < RingSize - 1 THEN Append(q, c) ELSE q
Kept(q, c) == IF Len(q) < RingSize THEN Append(q, c) ELSE q

keyboard_handler ==
  /\ pc = "up" /\ handler = "keyboard" /\ out.new
  /\ ReadData /\ Stolen("keyboard")
  /\ queue' = Kept(queue, out.byte)
  /\ full' = (full \/ Len(queue) = RingSize)
  /\ handler' = "none"
  /\ UNCHANGED <<driver, history, decoder, user>>

keyboard_handler_times_out ==
  /\ pc = "up" /\ handler = "keyboard" /\ ~out.new /\ Arriving = {}
  /\ KERNEL_PANIC
  /\ UNCHANGED <<cfg, controller, wires, history, irq, decoder, user>>

After(h) == CASE h = "mouse0" -> IF Bits(out.byte, 8) THEN "mouse1" ELSE "none"
              [] h = "mouse1" -> "mouse2"
              [] h = "mouse2" -> "none"

\* No polling here; the position and the cursor are not modelled.
mouse_handler ==
  /\ handler \in {"mouse0", "mouse1", "mouse2"}
  /\ ReadData /\ Stolen("mouse")
  /\ handler' = After(handler)
  /\ UNCHANGED <<driver, history, queue, full, decoder, user>>

-----------------------------------------------------------------------------
(***************************************************************************)
(* PS2_get_char: a byte at a time until a scancode is there.               *)
(***************************************************************************)
NoKey == [scancode |-> 0, released |-> FALSE, extended |-> FALSE]

Modifier(c, extended) ==
  CASE c = 20 /\ extended -> "rctrl"
    [] c = 17 /\ extended -> "ralt"
    [] c = 18 /\ ~extended -> "lshift"
    [] c = 89 /\ ~extended -> "rshift"
    [] c = 20 /\ ~extended -> "lctrl"
    [] c = 17 /\ ~extended -> "lalt"
    [] OTHER -> "none"

Decoded_FallsThrough(c) ==
  CASE c = EXTENDED -> [key EXCEPT !.extended = TRUE]
    [] c = RELEASED -> [key EXCEPT !.scancode = RELEASED]
    [] OTHER -> IF Modifier(c, key.extended) = "none" THEN [key EXCEPT !.scancode = c] ELSE key
Decoded(c) ==
  CASE c = EXTENDED -> [key EXCEPT !.extended = TRUE]
    [] c = RELEASED -> [key EXCEPT !.released = TRUE]
    [] OTHER -> IF Modifier(c, key.extended) = "none" THEN [key EXCEPT !.scancode = c] ELSE key

Digits == (22 :> <<"1", "!">>) @@ (30 :> <<"2", "@">>) @@ (38 :> <<"3", "#">>)
          @@ (37 :> <<"4", "$">>) @@ (46 :> <<"5", "%">>) @@ (54 :> <<"6", "^">>)
          @@ (61 :> <<"7", "&">>) @@ (62 :> <<"8", "*">>) @@ (70 :> <<"9", "(">>)
          @@ (69 :> <<"0", ")">>)
Ascii(k, m) ==
  IF k.released \/ k.scancode \notin DOMAIN Digits THEN "none"
  ELSE Digits[k.scancode][IF m \cap {"lshift", "rshift"} # {} THEN 2 ELSE 1]

Return(k, m) == event' = [scancode |-> k.scancode, released |-> k.released, modifiers |-> m,
                          ascii |-> Ascii(k, m), after |-> event.at, at |-> eaten + 1]

PS2_get_char ==
  LET c == Head(queue)
      k == Decoded(c)
      m == IF c \in {EXTENDED, RELEASED} THEN mod ELSE mod \cup ({Modifier(c, key.extended)} \ {"none"})
  IN /\ pc = "up" /\ handler = "none" /\ queue # << >>
     /\ queue' = Tail(queue)
     /\ eaten' = eaten + 1
     /\ mod' = m
     /\ IF k.scancode = 0 THEN key' = k /\ UNCHANGED event
                          ELSE key' = NoKey /\ Return(k, m)
     /\ UNCHANGED <<ps2, handler, stolen, full, user>>

-----------------------------------------------------------------------------
Init ==
  /\ ControllerInit /\ DriverInit
  /\ handler = "none" /\ queue = << >>
  /\ key = NoKey /\ mod = {}
  /\ event = [scancode |-> 0, released |-> FALSE, modifiers |-> {}, ascii |-> "none", after |-> 0, at |-> 0]
  /\ moves = 0 /\ held = {} /\ acts = << >>
  /\ eaten = 0 /\ stolen = FALSE /\ full = FALSE

InitStep == PS2_init /\ UNCHANGED <<irq, decoder, user>>
DeliverStep == Deliver /\ UNCHANGED <<irq, decoder, user>>
Handle == (\E src \in {"keyboard", "mouse"} : Enter(src))
          \/ keyboard_handler \/ keyboard_handler_times_out \/ mouse_handler
Stop == pc = "panic" /\ UNCHANGED vars

Next == \/ InitStep \/ DeliverStep \/ Handle \/ PS2_get_char
        \/ (\E k \in Keys : Hit(k)) \/ Move
        \/ Stop

\* The controller delivers, the processor takes interrupts, and the program asks
\* for key events again and again.
Spec == Init /\ [][Next]_vars
        /\ WF_vars(InitStep) /\ WF_vars(DeliverStep) /\ WF_vars(Handle) /\ WF_vars(PS2_get_char)

-----------------------------------------------------------------------------
TypeOK ==
  /\ pc \in {"init", "up", "panic"}
  /\ {config, cfg, out.byte} \subseteq 0 .. 255
  /\ expecting \in {"config", "mouse", "keyboard"}
  /\ keyboard.set \in 0 .. 255 /\ requests \subseteq {"keyboard", "mouse"}
  /\ handler \in {"none", "keyboard", "mouse0", "mouse1", "mouse2"}
  /\ Len(queue) <= RingSize /\ \A i \in DOMAIN queue : queue[i] \in 0 .. 255
  /\ key.scancode = 0 /\ mod \subseteq {"lshift", "rshift", "lctrl", "rctrl", "lalt", "ralt"}

(***************************************************************************)
(* PS2_init that has not read an answer too early, and was not disturbed   *)
(* by a key, leaves the controller as the rest of the driver expects it:   *)
(* set 2, not translated, both ports on with their interrupts, and no      *)
(* answer left over that a handler would take for a scancode.              *)
(***************************************************************************)
InitRight == pc = "up" /\ acts = << >> /\ moves = 0 /\ ~late =>
  /\ keyboard.set = SET_SCANCODE2 /\ ~Bits(config, Translate)
  /\ Connected("keyboard") /\ Bits(config, Int1)
  /\ reporting = machine.port2
  /\ machine.port2 => Connected("mouse") /\ Bits(config, Int2)
  /\ ~out.new /\ \A src \in DOMAIN sent : sent[src] = << >>

(***************************************************************************)
(* The driver panics only for a reason: there is no keyboard, an answer    *)
(* was read too early, a key was hit during initialisation, the self test  *)
(* turned translation on again, or a handler has read a byte of the other  *)
(* device and left the other handler polling for it.                       *)
(***************************************************************************)
PanicHasReason == pc = "panic" => ~machine.keyboard \/ late \/ early \/ machine.resets \/ stolen

(***************************************************************************)
(* A key event stands for the action its last byte ends: it has that       *)
(* key's scancode, every other action since the last event is one of a     *)
(* modifier, and so no key goes unreported.  A modifier is never reported, *)
(* but for one without prefix after one with, since `extended' outlives    *)
(* the code it was read for.  A key that was released is reported as       *)
(* released; `released' outlives its code too, so an event may say so only *)
(* if the key or a modifier since the last event was released.  All this   *)
(* as long as no byte was dropped, stolen or misled.                       *)
(***************************************************************************)
Clean == ~late /\ ~early /\ ~stolen /\ ~full
Since == {i \in DOMAIN acts : acts[i].end \in event.after + 1 .. event.at}

EventsFollowKeys == Clean /\ event.at > 0 =>
  \E i \in Since :
    /\ acts[i].end = event.at
    /\ event.scancode = Code(acts[i].key)
    /\ \A j \in Since \ {i} : IsModifier(acts[j].key)
    /\ IsModifier(acts[i].key) => /\ ~IsExtended(acts[i].key)
                                  /\ \E j \in Since \ {i} : IsExtended(acts[j].key)
    /\ acts[i].released => event.released
    /\ event.released => \E j \in Since : acts[j].released

(***************************************************************************)
(* What the comments of PS2_get_char say of its two prefixes, "if it is a  *)
(* released key" and "if it is an extended key": the first is about the    *)
(* key that is reported, and so is the second, which keeps the codes of    *)
(* the modifiers apart, so that none of them is reported as a key.         *)
(***************************************************************************)
ReleasedIsItsOwn == Clean /\ event.at > 0 =>
  \E i \in Since : acts[i].end = event.at /\ (event.released <=> acts[i].released)

ModifiersAreNoKeys == Clean =>
  \A i \in Since : acts[i].end = event.at => ~IsModifier(acts[i].key)

(***************************************************************************)
(* PS2_init ends, however slow the controller is: every poll has a limit.  *)
(***************************************************************************)
InitEnds == <>(pc # "init")

(***************************************************************************)
(* Every key that is hit is reported, unless its bytes met one of the      *)
(* accidents above.                                                        *)
(***************************************************************************)
Owed == \E i \in DOMAIN acts : acts[i].end > event.at /\ ~IsModifier(acts[i].key)
KeysReported == Owed ~> ~Owed \/ ~Clean \/ pc = "panic"
=============================================================================
