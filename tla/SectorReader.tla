----------------------------- MODULE SectorReader -----------------------------
(***************************************************************************)
(* What drivers/fdc.c promises to those who read sectors, at best: calls   *)
(* come one at a time, and a call attempts the transfer at most once.  It  *)
(* brings the sector asked for to the buffer, whole, or nothing.  A call   *)
(* that attempted it returns the buffer, even if nothing came; one that    *)
(* did not returns NULL.  Between calls nothing is brought.                *)
(***************************************************************************)
EXTENDS Integers

CONSTANTS Drives, Lbas,  \* what can be asked for
          Buffers,       \* where sectors can go
          NULL,          \* the answer of a call that has failed
          NotCalled,     \* no call has ended yet
          Nothing        \* no sector has been brought yet

VARIABLES phase,         \* "idle", "asked", "attempted" or "halted"
          request,       \* the sector asked for last
          buffer,        \* where sectors go
          brought,       \* the sector brought last, and where to
          answer         \* what the last call returned

vars == <<phase, request, buffer, brought, answer>>

NoRequest == [drive |-> 0, lba |-> -1]

Init == /\ phase = "idle" /\ request = NoRequest /\ buffer \in Buffers
        /\ brought = Nothing /\ answer = NotCalled

SetBuffer(b) == /\ phase = "idle" /\ buffer' = b
                /\ UNCHANGED <<phase, request, brought, answer>>

Ask(d, lba) == /\ phase = "idle" /\ phase' = "asked"
               /\ request' = [drive |-> d, lba |-> lba]
               /\ UNCHANGED <<buffer, brought, answer>>

WholeSector == [drive |-> request.drive, lba |-> request.lba,
                start |-> buffer, straight |-> TRUE]

Attempt == /\ phase = "asked" /\ phase' = "attempted"
           /\ brought' \in {brought, WholeSector}
           /\ UNCHANGED <<request, buffer, answer>>

Answer(from, r) == /\ phase = from /\ phase' = "idle" /\ answer' = r
                   /\ UNCHANGED <<request, buffer, brought>>

\* The kernel panics, in a call or before the first one.
Halt == /\ phase' = "halted"
        /\ UNCHANGED <<request, buffer, brought, answer>>

Next == \/ \E b \in Buffers : SetBuffer(b)
        \/ \E d \in Drives, lba \in Lbas : Ask(d, lba)
        \/ Attempt \/ Answer("attempted", buffer) \/ Answer("asked", NULL)
        \/ Halt

Spec == Init /\ [][Next]_vars
=============================================================================
