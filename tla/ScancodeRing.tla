---------------------------- MODULE ScancodeRing ----------------------------
(* The ring buffer of drivers/ps2.c between the keyboard interrupt handler  *)
(* (_keyboard_handler_scancode, the only producer) and the main program     *)
(* (PS2_get_scancode, the only consumer).                                   *)
(*                                                                          *)
(* The handler runs to completion with interrupts off, so its push is one   *)
(* step.  It may come between any two memory accesses of the consumer, so   *)
(* _PS2_ring_buf_pop is split at each access to the shared ring.  buf is    *)
(* not volatile while tail is: the compiler may load the slot before or     *)
(* after the store to tail, and both builds are modelled.                   *)
EXTENDS Integers, Sequences

CONSTANTS Codes,      \* the scancode bytes the keyboard sends
          NoCode,     \* byte 0: what the zeroed ring holds at boot
          Size        \* PS2_RING_BUFFER_SIZE

(* The _Static_assert of ps2.c; head and tail are uint8_t. *)
ASSUME SizeAssumption == Size \in 1 .. 255
ASSUME CodesAssumption == NoCode \notin Codes

VARIABLES port,       \* the controller's output buffer, or NoCode
          buf,        \* g_ring_buf.buf
          head,       \* g_ring_buf.head
          tail,       \* g_ring_buf.tail
          pc,         \* where PS2_get_scancode is; "idle" outside of it
          loaded,     \* the byte read from the ring, before tail moves
          slot,       \* the slot still to be read, after tail moved
          ret         \* what PS2_get_scancode returned last

ring == <<buf, head, tail>>
consumer == <<pc, loaded, slot, ret>>
vars == <<port, ring, consumer>>

Slots == 0 .. Size - 1
Bytes == Codes \cup {NoCode}

TypeOK ==
    /\ port \in Bytes
    /\ buf \in [Slots -> Bytes]
    /\ head \in Slots
    /\ tail \in Slots
    /\ pc \in {"idle", "pop", "spin", "take", "store", "late"}
    /\ loaded \in Bytes
    /\ slot \in Slots
    /\ ret \in Bytes

Init ==
    /\ port = NoCode
    /\ buf = [i \in Slots |-> NoCode]
    /\ head = 0
    /\ tail = 0
    /\ pc = "idle"
    /\ loaded = NoCode
    /\ slot = 0
    /\ ret = NoCode

Following(i) == (i + 1) % Size

Empty == head = tail

(* Names with a suffix after an underscore are seeded faults: the           *)
(* definition that follows them, as a mistake in the code would make it.    *)
Full_Never == FALSE
Full_Early == tail \in {Following(head), Following(Following(head))}
Full == Following(head) = tail

----------------------------------------------------------------------------
(* The keyboard puts a byte in the controller, which raises IRQ 1. *)
KeyByte(c) ==
    /\ port = NoCode
    /\ port' = c
    /\ UNCHANGED <<ring, consumer>>

(* _keyboard_handler_scancode: read the byte, push it unless full. *)
KeyboardIRQ ==
    /\ port # NoCode
    /\ port' = NoCode
    /\ IF Full THEN UNCHANGED ring
               ELSE /\ buf' = [buf EXCEPT ![head] = port]
                    /\ head' = Following(head)
                    /\ UNCHANGED tail
    /\ UNCHANGED consumer

(* The main program calls PS2_get_scancode. *)
GetScancode ==
    /\ pc = "idle"
    /\ pc' = "pop"
    /\ UNCHANGED <<port, ring, loaded, slot, ret>>

(* _PS2_ring_buf_pop finds the ring empty, or goes on to take a code. *)
PopTest ==
    /\ pc = "pop"
    /\ pc' = IF Empty THEN "spin" ELSE "take"
    /\ UNCHANGED <<port, ring, loaded, slot, ret>>

(* The inner loop of PS2_get_scancode ends when the ring is not empty. *)
(* The fault is a head that is not volatile and is read once.               *)
SpinEnds_Cached == FALSE /\ UNCHANGED vars
SpinEnds ==
    /\ pc = "spin"
    /\ ~Empty
    /\ pc' = "pop"
    /\ UNCHANGED <<port, ring, loaded, slot, ret>>

(* The build that reads the slot first: read it ... *)
LoadSlot ==
    /\ pc = "take"
    /\ loaded' = buf[tail]
    /\ pc' = "store"
    /\ UNCHANGED <<port, ring, slot, ret>>

(* ... then move tail and return. *)
StoreTail ==
    /\ pc = "store"
    /\ tail' = Following(tail)
    /\ ret' = loaded
    /\ pc' = "idle"
    /\ UNCHANGED <<port, buf, head, loaded, slot>>

(* The build that moves tail first: move it ... *)
StoreTailFirst ==
    /\ pc = "take"
    /\ slot' = tail
    /\ tail' = Following(tail)
    /\ pc' = "late"
    /\ UNCHANGED <<port, buf, head, loaded, ret>>

(* ... then read the slot it left behind and return. *)
LoadLate ==
    /\ pc = "late"
    /\ ret' = buf[slot]
    /\ pc' = "idle"
    /\ UNCHANGED <<port, ring, loaded, slot>>

Consumer == GetScancode \/ PopTest \/ SpinEnds \/ LoadSlot \/ StoreTail
              \/ StoreTailFirst \/ LoadLate

Next == (\E c \in Codes : KeyByte(c)) \/ KeyboardIRQ \/ Consumer

Spec == Init /\ [][Next]_vars

(* IRQ 1 is unmasked and interrupts are on while the kernel reads keys; the *)
(* main program loops on PS2_get_char and is resumed after every handler.   *)
FairSpec == Spec /\ WF_vars(KeyboardIRQ) /\ WF_vars(Consumer)

----------------------------------------------------------------------------
(* What the ring holds, oldest first. *)
Count == IF head >= tail THEN head - tail ELSE head - tail + Size
At(i) == IF tail + i < Size THEN tail + i ELSE tail + i - Size
Contents == [i \in 1 .. Count |-> buf[At(i - 1)]]

(* A code counts as delivered when tail has moved past it. *)
Delivered == IF pc = "late" THEN buf[slot] ELSE ret

Queue == INSTANCE ScancodeQueue
           WITH Capacity <- Size - 1, line <- port, queue <- Contents,
                got <- Delivered

(* The ring and its handlers implement the bounded queue: whatever the      *)
(* interleaving of interrupt and pop, and in both builds, codes come out in *)
(* order, once each, unchanged, and are dropped only when Size - 1 codes    *)
(* are already waiting.                                                     *)
ImplementsQueue == Queue!Spec

(* The slot the consumer is about to read, or has just given up but not     *)
(* read, holds the code of the pop that is under way: the handler never     *)
(* overwrites it.  With tail moved first only the one slot that the full    *)
(* test keeps unused protects it.                                           *)
SlotIntact ==
    [][ /\ pc \in {"take", "store"} => buf'[tail] = buf[tail]
        /\ pc = "late" => buf'[slot] = buf[slot] ]_vars

(* Once past the empty test the ring cannot become empty under the pop: the *)
(* handler only adds.                                                       *)
TakeFindsCode == pc \in {"take", "store"} => head # tail

(* PS2_get_scancode returns whenever a byte has been accepted: the nested   *)
(* busy-wait does not get stuck on a code that arrived between the failed   *)
(* pop and the inner loop.                                                  *)
WaitEnds == (pc \in {"pop", "spin"} /\ ~Empty) ~> pc = "idle"
=============================================================================
