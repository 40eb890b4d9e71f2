----------------------------- MODULE KernelStart -----------------------------
(***************************************************************************)
(* The order in which _start_init brings the machine up, on top of the     *)
(* interrupt path of Interrupts: descriptor tables, interrupt controllers, *)
(* gates, handlers, the sti, and then the floppy driver, which waits for   *)
(* interrupts.  Devices raise their lines all the time, and the code may   *)
(* run into an exception at any step.                                      *)
(***************************************************************************)
EXTENDS Interrupts

CONSTANTS
  MAX_INTERRUPTS,   \* entries of the IDT: 256
  TextStart,        \* where the linker puts the entry points of the stubs
  TssAddress,       \* ... and g_tss
  Exceptions        \* exceptions the code may run into

ASSUME StartAssumption ==
  /\ MAX_INTERRUPTS \in Nat /\ MAX_INTERRUPTS >= 48
  /\ TextStart \in Nat /\ TextStart + 64 < 2^22       \* in the 4 MB VMM_init maps
  /\ TssAddress \in 0..(2^22 - 1)
  /\ Exceptions \subseteq 0..31

\* Interrupt vectors; the controllers' bases after PIC_init.
PIC1_BASE_INT == 32
PIC2_BASE_INT == 40
INT_Page_Fault == 14

\* Entry points of IRQ.S and ISR.S, and the default one.
IRQ_INT(n) == TextStart + n
ISR_INT(n) == TextStart + 16 + n
IDT_default_handler == TextStart + 48

VARIABLES
  stage,      \* where _start_init is
  gdt,        \* the table in GDTR, without the null descriptor
  idt,        \* the table in IDTR: vector -> gate; <<>> before lidt
  chips,      \* the two 8259s: vector base and the word they expect next
  icws,       \* what PIC_init still has to write
  handlers,   \* the vectors with an entry in isr_handlers
  driven,     \* lines of devices the kernel has set going
  served,     \* lines whose handler has run since the code last looked
  waits,      \* lines fdc_init still has to wait for
  burst,      \* lines raised since the code last ran undisturbed
  cpu         \* "run", "panic", "hang" (default handler), "reset" or "lost"

startVars == <<stage, gdt, idt, chips, icws, handlers, driven, served,
               waits, burst, cpu>>
vars == <<intVars, startVars>>

(***************************************************************************)
(* Descriptors, as the code writes them and the processor reads them.      *)
(***************************************************************************)
Descriptor(limit, attr, limit_attr, base) ==
  [limit |-> limit, attr |-> attr, limit_attr |-> limit_attr,
   base_lo |-> base % 2^16, base_mi |-> (base \div 2^16) % 2^8,
   base_hi |-> (base \div 2^24) % 2^8]

Code(dpl) == Descriptor(65535, 2 + 3 * 8 + dpl * 32 + 128, 15 + 64 + 128, 0)
Data(dpl) == Descriptor(65535, 2 + 2 * 8 + dpl * 32 + 128, 15 + 64 + 128, 0)
Task == Descriptor(104 - 1, 9 + 128, 0, TssAddress)

\* The boot loader's table has the same first two segments.
LoaderGDT == <<Code(0), Data(0)>>
gdtd == <<Code(0), Data(0), Code(3), Data(3), Task>>

GDT_KERNEL_CODE_SEL == 8
GDT_KERNEL_DATA_SEL == 16

Bit(x, i) == (x \div 2^i) % 2 = 1
Flat(d) == /\ d.base_lo + d.base_mi + d.base_hi = 0
           /\ d.limit = 65535 /\ d.limit_attr % 16 = 15
           /\ Bit(d.limit_attr, 6) /\ Bit(d.limit_attr, 7)
Kernel(d) == Bit(d.attr, 7) /\ (d.attr \div 32) % 4 = 0 /\ Bit(d.attr, 4)
KernelCode(sel) == LET i == sel \div 8 IN
  i \in DOMAIN gdt /\ Flat(gdt[i]) /\ Kernel(gdt[i]) /\ Bit(gdt[i].attr, 3)
KernelData(sel) == LET i == sel \div 8 IN
  i \in DOMAIN gdt /\ Flat(gdt[i]) /\ Kernel(gdt[i]) /\ ~Bit(gdt[i].attr, 3)
    /\ Bit(gdt[i].attr, 1)

IDT_GATE_INT32 == 14

\* IDT_set_IDT_handler with the arguments of its two callers; the seeded
\* fault of a base whose upper half is not shifted down.
Gate_HighHalf(base) ==
  [base_lo |-> base % 2^16, base_hi |-> base % 2^16,
   selector |-> GDT_KERNEL_CODE_SEL, flags |-> IDT_GATE_INT32 + 0 * 32 + 128]
Gate(base) ==
  [base_lo |-> base % 2^16, base_hi |-> (base \div 2^16) % 2^16,
   selector |-> GDT_KERNEL_CODE_SEL, flags |-> IDT_GATE_INT32 + 0 * 32 + 128]

\* Where the processor goes through the gate of vector v: an interrupt gate
\* into a code segment of the kernel.
Target(v) == idt[v].base_hi * 2^16 + idt[v].base_lo
Usable(v) == /\ v \in DOMAIN idt
             /\ Bit(idt[v].flags, 7) /\ idt[v].flags % 32 = IDT_GATE_INT32
             /\ KernelCode(idt[v].selector)

(***************************************************************************)
(* The 8259s: a command with bit 4 starts the initialisation, forgets the  *)
(* requests of the chip and expects three more words at the data port.     *)
(* The BIOS left them at 8 and 112.                                        *)
(***************************************************************************)
Chip(c) == IF c = 1 THEN Master ELSE Slave
Outb(chip, port, val) == [chip |-> chip, port |-> port, val |-> val]

PIC_init_writes ==
  <<Outb(1, "cmd", 17), Outb(2, "cmd", 17),
    Outb(1, "data", PIC1_BASE_INT), Outb(2, "data", PIC2_BASE_INT),
    Outb(1, "data", 4), Outb(2, "data", 2),
    Outb(1, "data", 1), Outb(2, "data", 1)>>

Programmed(c, w) ==
  CASE w.port = "cmd" -> [c EXCEPT !.icw = 2]
    [] w.port # "cmd" /\ c.icw = 2 -> [c EXCEPT !.icw = 3, !.base = w.val]
    [] OTHER -> [c EXCEPT !.icw = (@ + 1) % 5]

Vector(n) == IF n \in Master THEN chips[1].base + n ELSE chips[2].base + n - 8

-----------------------------------------------------------------------------
StartInit ==
  /\ irr = {} /\ isr = {} /\ frames = <<>>
  /\ iff = FALSE                            \* the cli of _start
  /\ stage = "check"
  /\ gdt = LoaderGDT /\ idt = <<>>
  /\ chips = <<[base |-> 8, icw |-> 0], [base |-> 112, icw |-> 0]>>
  /\ icws = PIC_init_writes
  /\ handlers = {} /\ driven = {} /\ served = {} /\ waits = <<>> /\ burst = {}
  /\ cpu = "run"

\* The main thread is at stage s, and no handler is on top of it.
At(s) == cpu = "run" /\ frames = <<>> /\ stage = s

Panic == cpu' = "panic" /\ iff' = FALSE /\ UNCHANGED stage
Go(s) == stage' = s /\ UNCHANGED <<cpu, iff>>

\* EAX, the kernel's address, the markers of the boot information.
Checks == /\ At("check")
          /\ Panic \/ Go("tables")
          /\ UNCHANGED <<irr, isr, frames, gdt, idt, chips, icws, handlers, driven, served, waits, burst>>

init_descriptor_tables ==
  /\ At("tables")
  /\ iff' = FALSE
  /\ gdt' = gdtd
  /\ idt' = [v \in 0..(MAX_INTERRUPTS - 1) |-> Gate(IDT_default_handler)]
  /\ stage' = "pic"
  /\ UNCHANGED <<irr, isr, frames, chips, icws, handlers, driven, served, waits, burst, cpu>>

PIC_init ==
  /\ At("pic")
  /\ LET w == Head(icws) IN
       /\ chips' = [chips EXCEPT ![w.chip] = Programmed(@, w)]
       /\ irr' = IF w.port = "cmd" THEN irr \ Chip(w.chip) ELSE irr
  /\ icws' = Tail(icws)
  /\ stage' = IF Len(icws) = 1 THEN "isr" ELSE stage
  /\ UNCHANGED <<isr, iff, frames, gdt, idt, handlers, driven, served, waits, burst, cpu>>

IDT_set_gate(gates) == idt' = [v \in DOMAIN idt |->
                                 IF v \in DOMAIN gates THEN Gate(gates[v]) ELSE idt[v]]

\* Not for 15, which Intel reserves.
ISR_Gates == [v \in (0..21) \ {15} |-> ISR_INT(v)]
ISR_init ==
  /\ At("isr")
  /\ IDT_set_gate(ISR_Gates)
  /\ Go("irq")
  /\ UNCHANGED <<irr, isr, frames, gdt, chips, icws, handlers, driven, served, waits, burst>>

IRQ_init ==
  /\ At("irq")
  /\ IDT_set_gate([v \in 32..47 |-> IRQ_INT(v - PIC1_BASE_INT)])
  /\ Go("pit")
  /\ UNCHANGED <<irr, isr, frames, gdt, chips, icws, handlers, driven, served, waits, burst>>

\* IRQ_register_interrupt_handler for a set of lines.
Registered(ns) == handlers' = handlers \cup {PIC1_BASE_INT + n : n \in ns}

PIT_init ==
  /\ At("pit")
  /\ driven' = driven \cup {0} /\ Registered({0})
  /\ Go("ps2")
  /\ UNCHANGED <<irr, isr, frames, gdt, idt, chips, icws, served, waits, burst>>

\* PS2_init (module PS2 has its steps) finds one port or two, or panics.
PS2_init ==
  /\ At("ps2")
  /\ \/ Panic /\ UNCHANGED <<driven, handlers>>
     \/ \E ns \in {{1}, {1, 12}} :
          driven' = driven \cup ns /\ Registered(ns) /\ Go("memory")
  /\ UNCHANGED <<irr, isr, frames, gdt, idt, chips, icws, served, waits, burst>>

\* _start_boot_info, _start_PMM_init and VMM_init (modules MemoryMap, PMM and
\* VMM) panic, or leave the page fault handler registered.
Memory_init ==
  /\ At("memory")
  /\ \/ Panic /\ UNCHANGED handlers
     \/ handlers' = handlers \cup {INT_Page_Fault} /\ Go("sti")
  /\ UNCHANGED <<irr, isr, frames, gdt, idt, chips, icws, driven, served, waits, burst>>

\* The seeded fault of a boot that forgets to enable interrupts.
sti_Forgotten ==
  /\ At("sti") /\ Go("fdc")
  /\ UNCHANGED <<irr, isr, frames, gdt, idt, chips, icws, handlers, driven, served, waits, burst>>
sti ==
  /\ At("sti")
  /\ iff' = TRUE /\ stage' = "fdc"
  /\ UNCHANGED <<irr, isr, frames, gdt, idt, chips, icws, handlers, driven, served, waits, burst, cpu>>

(***************************************************************************)
(* fdc_init registers its handler, and then, for each drive there is,      *)
(* waits for the interrupt of the reset, sleeps while the motor starts,    *)
(* waits for the calibration and sleeps again (module Floppy has its       *)
(* steps, and the retries).                                                *)
(***************************************************************************)
fdc_init_Late ==
  /\ At("fdc") /\ UNCHANGED handlers
  /\ \E w \in {<<>>, <<6, 0, 6, 0>>} : waits' = w
  /\ Go("reset")
  /\ UNCHANGED <<irr, isr, frames, gdt, idt, chips, icws, driven, served, burst>>
fdc_init ==
  /\ At("fdc")
  /\ Registered({6})
  /\ \E w \in {<<>>, <<6, 0, 6, 0>>} : waits' = w
  /\ Go("reset")
  /\ UNCHANGED <<irr, isr, frames, gdt, idt, chips, icws, driven, served, burst>>

fdc_reset ==
  /\ At("reset")
  /\ driven' = IF waits = <<>> THEN driven ELSE driven \cup {6}
  /\ Go("wait")
  /\ UNCHANGED <<irr, isr, frames, gdt, idt, chips, icws, handlers, served, waits, burst>>

\* A wait ends when the handler has run; a sleep counts from where it begins.
Waited ==
  /\ At("wait") /\ waits # <<>> /\ Head(waits) \in served
  /\ served' = served \ {Head(waits), 0}
  /\ waits' = Tail(waits)
  /\ Go("wait")
  /\ UNCHANGED <<irr, isr, frames, gdt, idt, chips, icws, handlers, driven, burst>>

\* The drive cannot be calibrated, or main is reached and halts for good.
Finish ==
  /\ At("wait") /\ waits = <<>>
  /\ (6 \in driven /\ Panic) \/ Go("main")
  /\ UNCHANGED <<irr, isr, frames, gdt, idt, chips, icws, handlers, driven, served, waits, burst>>

BootStep == \/ Checks \/ init_descriptor_tables \/ PIC_init \/ ISR_init \/ IRQ_init
            \/ PIT_init \/ PS2_init \/ Memory_init \/ sti
            \/ fdc_init \/ fdc_reset \/ Waited \/ Finish

-----------------------------------------------------------------------------
\* The stub of line n pushes n, and loads the data segment 16.
OwnStub(n) == /\ Usable(Vector(n)) /\ Target(Vector(n)) = IRQ_INT(n)
              /\ KernelData(GDT_KERNEL_DATA_SEL)

\* Periods are longer than handlers: no device raises its line a second time
\* before the processor has caught up with what is pending.
Recent == IF irr = {} /\ frames = <<>> THEN {} ELSE burst
Device(n) == /\ cpu = "run"
             /\ n \notin Recent /\ Raise(n)
             /\ burst' = Recent \cup {n}
             /\ UNCHANGED <<stage, gdt, idt, chips, icws, handlers, driven, served, waits, cpu>>

Taken(n) == /\ cpu = "run"
            /\ Accept(n) \/ Spurious(n)
            /\ cpu' = IF OwnStub(n) THEN cpu ELSE "lost"
            /\ UNCHANGED <<stage, gdt, idt, chips, icws, handlers, driven, served, waits, burst>>

\* The exceptions for which the processor pushes an error code, and the stubs
\* of ISR.S that do not push one in its place.
ErrorCode == {8, 10, 11, 12, 13, 14, 17, 21, 29, 30}
NoPush == {8, 10, 11, 12, 13, 14, 17, 21}

\* Without a table the processor resets; the default handler hangs; a stub
\* that leaves the stack unbalanced does not return to where it came from.
Exception(v) ==
  /\ cpu = "run"
  /\ TakeFault
  /\ cpu' = CASE idt = <<>> -> "reset"
              [] Usable(v) /\ Target(v) = IDT_default_handler -> "hang"
              [] /\ Usable(v) /\ Target(v) = ISR_INT(v)
                 /\ v \in ErrorCode <=> v \in NoPush -> cpu
              [] OTHER -> "lost"
  /\ UNCHANGED <<stage, gdt, idt, chips, icws, handlers, driven, served, waits, burst>>

HandlerRuns(n) ==
  /\ cpu = "run" /\ CallHandler(n)
  /\ served' = IF PIC1_BASE_INT + n \in handlers THEN served \cup {n} ELSE served
  /\ UNCHANGED <<stage, gdt, idt, chips, icws, handlers, driven, waits, burst, cpu>>

\* ISR_UniversalHandler calls what is registered, or prints the number; the
\* faulting instruction is then executed again.
FaultHandled == cpu = "run" /\ CallHandler(Fault) /\ UNCHANGED startVars

StubStep == cpu = "run" /\ (EndOfInterrupt \/ Return) /\ UNCHANGED startVars

Handle == (\E n \in Lines \cup {7, 15} : HandlerRuns(n)) \/ FaultHandled \/ StubStep

StartNext == \/ BootStep
             \/ \E n \in Lines : Device(n)
             \/ \E n \in Lines \cup {7, 15} : Taken(n)
             \/ \E v \in Exceptions : Exception(v)
             \/ Handle

(***************************************************************************)
(* The processor goes on; it looks for interrupts before every instruction *)
(* that runs with IF set; the interrupted code gets on between interrupts, *)
(* whose handlers are short; the timer ticks, and the floppy controller    *)
(* answers once it has been set going.                                     *)
(***************************************************************************)
StartFairness ==
  /\ SF_vars(BootStep) /\ WF_vars(Handle)
  /\ \A n \in Lines : SF_vars(Taken(n))
  /\ SF_vars(Device(0)) /\ SF_vars(6 \in driven /\ Device(6))

StartSpec == StartInit /\ [][StartNext]_vars /\ StartFairness

-----------------------------------------------------------------------------
StartTypeOK ==
  /\ irr \subseteq Lines /\ isr \subseteq Lines \cup {2} /\ iff \in BOOLEAN
  /\ frames \in Seq(FrameRecords)
  /\ DOMAIN idt \subseteq 0..(MAX_INTERRUPTS - 1)
  /\ handlers \subseteq DOMAIN idt
  /\ driven \cup burst \subseteq 0..15 /\ served \subseteq Lines \cup {7, 15}

(***************************************************************************)
(* Wherever the boot is, and whatever was raised before: an interrupt that *)
(* is taken, or an exception once there is a table, enters its own stub or *)
(* the default handler, in the kernel's segments, and returns.  The        *)
(* vectors, gates and segments are set up by five functions in turn while  *)
(* lines are pending.                                                      *)
(***************************************************************************)
EveryEntryLands == cpu # "lost"

(***************************************************************************)
(* No interrupt of a device the kernel has set going finds                 *)
(* IRQ_UniversalHandler without a handler, which would drop it: the        *)
(* keyboard's byte would stay in the controller and no other would follow. *)
(***************************************************************************)
HandlersInTime ==
  \A i \in DOMAIN frames :
    frames[i].line \in driven /\ frames[i].at # "return" =>
      PIC1_BASE_INT + frames[i].line \in handlers

(***************************************************************************)
(* The boot ends in main, in a panic, or in an exception nobody can        *)
(* handle: fdc_init does not wait for ever, because the handlers and the   *)
(* sti came before it.                                                     *)
(***************************************************************************)
StartEnds == FaultsStop => <>(stage = "main" \/ cpu # "run")
=============================================================================
