----------------------------- MODULE Interrupts -----------------------------
(***************************************************************************)
(* How an interrupt reaches its handler and the interrupted code resumes:  *)
(* the two cascaded 8259s as PIC_init programs them (external), the entry  *)
(* stubs of IRQ.S and ISR.S, IRQ_UniversalHandler and PIC_EOI.             *)
(*                                                                         *)
(* One processor, so the only concurrency is between the code and the      *)
(* devices: a device may raise its line between any two steps.             *)
(***************************************************************************)
EXTENDS Integers, Sequences

CONSTANTS
  Lines,      \* the lines that have a device
  Fault       \* the exception the running code may raise

\* The master's line that the slave is wired to: PIC_init tells the master a
\* mask (4) and the slave the number (2).
Cascade == 2

ASSUME LinesAssumption == Lines \subseteq (0..15) \ {Cascade}
ASSUME FaultAssumption == Fault \notin 0..15

VARIABLES
  irr,        \* lines that wait for the processor (both request registers)
  isr,        \* lines in service (both in-service registers)
  iff,        \* the interrupt flag, EFLAGS.IF
  frames      \* handlers on the stack, the running one last

intVars == <<irr, isr, iff, frames>>

Master == 0..7
Slave == 8..15

(***************************************************************************)
(* The 8259 pair.  Every interrupt of the slave reaches the processor      *)
(* through the master's line 2, which puts 8..15 between 1 and 3.          *)
(***************************************************************************)
MasterLine(n) == IF n \in Master THEN n ELSE Cascade

\* The controllers hold n back while a line that is at least as urgent is in
\* service.
Deliverable(n) == /\ \A m \in isr \cap Master : MasterLine(n) < m
                  /\ n \in Slave => \A m \in isr \cap Slave : n < m

MoreUrgent(m, n) == \/ MasterLine(m) < MasterLine(n)
                    \/ MasterLine(m) = MasterLine(n) /\ m < n
MostUrgent(n) == \A m \in irr : Deliverable(m) => ~MoreUrgent(m, n)

\* A non-specific end of interrupt: the most urgent line in service is done.
Ended(chip) == {n \in chip : \E m \in chip : m < n}

(***************************************************************************)
(* A frame holds what the stub pushed: the line, and the interrupt flag    *)
(* that iretd will restore.  "at" is what is left to do: "eoi", then the   *)
(* "handler", then "return".                                               *)
(***************************************************************************)
Frame(n, at) == [line |-> n, at |-> at, saved |-> iff]
Top == frames[Len(frames)]
Running(at) == frames # <<>> /\ Top.at = at
Resume(at) == frames' = [frames EXCEPT ![Len(frames)].at = at]

\* Frames of hardware interrupts.
IrqFrames == {i \in DOMAIN frames : frames[i].line # Fault}

Init == /\ irr = {} /\ isr = {}
        /\ iff = TRUE
        /\ frames = <<>>

(***************************************************************************)
(* Devices and controllers.                                                *)
(***************************************************************************)
Raise(n) == /\ n \notin irr
            /\ irr' = irr \cup {n}
            /\ UNCHANGED <<isr, iff, frames>>

(***************************************************************************)
(* The processor takes an interrupt: through an interrupt gate, so IF is   *)
(* clear when the stub starts, and the stub's cli clears it again.         *)
(***************************************************************************)
Entered == FALSE

Accept(n) ==
  /\ iff
  /\ n \in irr /\ Deliverable(n) /\ MostUrgent(n)
  /\ irr' = irr \ {n}
  /\ isr' = isr \cup {n, MasterLine(n)}
  /\ frames' = Append(frames, Frame(n, "eoi"))
  /\ iff' = Entered

\* A request that went away before the processor asked for its number comes
\* out as the least urgent line of its chip, which is then not in service.
\* (The mouse handler does this to the keyboard when it reads its byte.)
Spurious(n) ==
  /\ iff
  /\ n \in {7, 15} /\ Deliverable(n) /\ MostUrgent(n)
  /\ isr' = IF n = 15 THEN isr \cup {Cascade} ELSE isr
  /\ frames' = Append(frames, Frame(n, "eoi"))
  /\ iff' = Entered
  /\ UNCHANGED irr

\* The running code divides by zero, touches an unmapped page, ...: the gates
\* of ISR_init lead to ISR_UniversalHandler, which knows no controller.
\* (A fault inside that handler is left out.)
TakeFault ==
  /\ frames # <<>> => Top.line # Fault
  /\ frames' = Append(frames, Frame(Fault, "handler"))
  /\ iff' = Entered
  /\ UNCHANGED <<irr, isr>>

(***************************************************************************)
(* PIC_EOI: the slave first for its own lines, then always the master.  It *)
(* names no line, so each chip ends whatever is its most urgent one.       *)
(***************************************************************************)
EOI_MasterOnly(n) == (isr \cap Slave) \cup Ended(isr \cap Master)
EOI_OneChip(n) == IF n > 7 THEN Ended(isr \cap Slave) \cup (isr \cap Master)
                           ELSE (isr \cap Slave) \cup Ended(isr \cap Master)
EOI(n) == (IF n > 7 THEN Ended(isr \cap Slave) ELSE isr \cap Slave)
            \cup Ended(isr \cap Master)

\* IRQ_UniversalHandler first ends the interrupt at the controllers ...
EndOfInterrupt == /\ Running("eoi")
                  /\ isr' = EOI(Top.line)
                  /\ Resume("handler")
                  /\ UNCHANGED <<irr, iff>>

\* ... then calls the handler of the line, if one is registered (what that
\* one does is the business of the module that composes this one), and
\* returns to the stub.
CallHandler(n) == /\ Running("handler") /\ Top.line = n
                  /\ Resume("return")
                  /\ UNCHANGED <<irr, isr, iff>>

\* sti; iretd: sti takes effect after the next instruction, and that one
\* restores the flag the frame holds.
Restored_Sti(f) == TRUE
Restored(f) == f.saved

Return == /\ Running("return")
          /\ iff' = Restored(Top)
          /\ frames' = SubSeq(frames, 1, Len(frames) - 1)
          /\ UNCHANGED <<irr, isr>>

\* Code outside the handlers masks interrupts for a while: pushfd; cli ...
\* popfd in PIT_set_timer_freq.
Mask == /\ frames = <<>> /\ iff
        /\ iff' = FALSE
        /\ UNCHANGED <<irr, isr, frames>>
Unmask == /\ frames = <<>> /\ ~iff
          /\ iff' = TRUE
          /\ UNCHANGED <<irr, isr, frames>>

Serve == \/ EndOfInterrupt
         \/ \E n \in Lines \cup {7, 15, Fault} : CallHandler(n)
         \/ Return

Next == \/ \E n \in Lines : Raise(n)
        \/ \E n \in Lines : Accept(n)
        \/ \E n \in {7, 15} : Spurious(n)
        \/ TakeFault
        \/ Serve
        \/ Mask \/ Unmask

(***************************************************************************)
(* The processor runs the handlers to their end, and masked stretches are  *)
(* short.  It looks for interrupts before every instruction it executes    *)
(* with IF set, hence the strong fairness of Accept.                       *)
(***************************************************************************)
Fairness == /\ WF_intVars(Serve) /\ WF_intVars(Unmask)
            /\ \A n \in Lines : SF_intVars(Accept(n))

Spec == Init /\ [][Next]_intVars /\ Fairness

-----------------------------------------------------------------------------
FrameRecords == [line : Lines \cup {7, 15, Fault},
                 at : {"eoi", "handler", "return"}, saved : BOOLEAN]

TypeOK == /\ irr \subseteq Lines
          /\ isr \subseteq Lines \cup {2}
          /\ iff \in BOOLEAN
          /\ frames \in Seq(FrameRecords)

(***************************************************************************)
(* Handlers of hardware interrupts never nest, not even when one of them   *)
(* faults: their variables (the ring's head, _ticks, the mouse position)   *)
(* need no lock against each other.                                        *)
(***************************************************************************)
NoNesting == \A i, j \in IrqFrames : i = j

(***************************************************************************)
(* The non-specific EOI hits the line it is meant for: once it is sent,    *)
(* nothing is in service, so the handler that follows, and the code that   *)
(* follows it, hold back no other line.                                    *)
(***************************************************************************)
NothingLeftInService ==
  (\A i \in DOMAIN frames : frames[i].at # "eoi") => isr = {}

(***************************************************************************)
(* A line that is raised is served, if the more urgent lines fall silent   *)
(* (lines that are busy for ever can starve it: the controllers' priority  *)
(* is fixed) and faults stop: a handler that faults and whose fault nobody *)
(* repairs is resumed at the faulting instruction, for ever.               *)
(***************************************************************************)
Silent(n) == \A m \in irr \ {n} : ~MoreUrgent(m, n)
FaultsStop == <>[][~TakeFault]_intVars
PendingServed ==
  FaultsStop => \A n \in Lines : <>[]Silent(n) => []<>(n \notin irr)
=============================================================================
