-------------------------- MODULE KernelStart_proofs --------------------------
(***************************************************************************)
(* For every set of lines and exceptions, and every place of the image in  *)
(* the mapped memory: wherever the boot is, each interrupt enters its own  *)
(* stub and finds its handler registered, each exception enters its stub   *)
(* or the default handler, and handlers do not nest.  The first part is    *)
(* about the interrupt path alone, whatever code it interrupts.            *)
(***************************************************************************)
EXTENDS KernelStart, SequenceTheorems, TLAPS

-----------------------------------------------------------------------------
(***************************************************************************)
(* The interrupt path.                                                     *)
(***************************************************************************)

(***************************************************************************)
(* The stack is at most a hardware interrupt and a fault on top of it.     *)
(* IF is clear while it is not empty, only the bottom frame may set it     *)
(* again, and what is in service belongs to that frame until its EOI.      *)
(***************************************************************************)
Calm == frames = <<>> /\ isr = {}

Bottom(f) == /\ f \in FrameRecords /\ ~iff
             /\ IF f.at = "eoi" THEN /\ f.line # Fault
                                    /\ isr \subseteq {f.line, MasterLine(f.line)}
                               ELSE isr = {}

OneFrame == \E f \in FrameRecords : frames = <<f>> /\ Bottom(f)

TwoFrames == \E f, g \in FrameRecords :
  /\ frames = <<f, g>>
  /\ Bottom(f) /\ f.line # Fault
  /\ g.line = Fault /\ g.at # "eoi" /\ ~g.saved

IInv == /\ irr \subseteq Lines /\ isr \subseteq Lines \cup {Cascade}
        /\ iff \in BOOLEAN
        /\ Calm \/ OneFrame \/ TwoFrames

(***************************************************************************)
(* Pushing and popping on stacks this small.                               *)
(***************************************************************************)
LEMMA PushOnOne ==
  ASSUME NEW f, NEW g
  PROVE  Append(<<f>>, g) = <<f, g>>
<1> DEFINE S == {f, g}
           s == Append(<<f>>, g)
           t == <<f, g>>
<1>1. s \in Seq(S) /\ t \in Seq(S)
  OBVIOUS
<1>2. Len(s) = 2 /\ Len(t) = 2 /\ s[1] = t[1] /\ s[2] = t[2]
  BY <1>1
<1>3. \A i \in 1..Len(s) : i = 1 \/ i = 2
  BY <1>2
<1> HIDE DEF S, s, t
<1>4. s = t
  BY <1>1, <1>2, <1>3, SeqEqual
<1> QED BY <1>4 DEF s, t

LEMMA PopFromTwo ==
  ASSUME NEW f, NEW g
  PROVE  SubSeq(<<f, g>>, 1, Len(<<f, g>>) - 1) = <<f>>
<1> DEFINE S == {f, g}
           s == SubSeq(<<f, g>>, 1, 1)
           t == <<f>>
<1>1. s \in Seq(S) /\ t \in Seq(S)
  OBVIOUS
<1>2. Len(s) = 1 /\ Len(t) = 1 /\ s[1] = t[1]
  BY <1>1
<1> HIDE DEF S, s, t
<1>3. s = t
  BY <1>1, <1>2, SeqEqual
<1> QED BY <1>3 DEF s, t

LEMMA StackShapes ==
  ASSUME NEW f, NEW g
  PROVE  /\ <<f>> # <<>> /\ Len(<<f>>) = 1 /\ <<f>>[1] = f
         /\ <<f, g>> # <<>> /\ Len(<<f, g>>) = 2
         /\ <<f, g>>[1] = f /\ <<f, g>>[2] = g
         /\ DOMAIN <<f>> = {1} /\ DOMAIN <<f, g>> = {1, 2}
OBVIOUS

(***************************************************************************)
(* A chip with at most one line in service has none after an EOI.          *)
(***************************************************************************)
LEMMA EndedSingle ==
  ASSUME NEW n \in Int, NEW chip, chip \subseteq {n}
  PROVE  Ended(chip) = {}
<1> SUFFICES ASSUME NEW x \in chip, NEW m \in chip, m < x PROVE FALSE
  BY DEF Ended
<1>1. x = n /\ m = n
  OBVIOUS
<1> QED BY <1>1

(***************************************************************************)
(* PIC_EOI for the one line that is in service leaves nothing in service,  *)
(* on either chip.                                                         *)
(***************************************************************************)
LEMMA EOIClears ==
  ASSUME NEW n \in 0..15, isr \subseteq {n, MasterLine(n)}
  PROVE  EOI(n) = {}
<1>1. CASE n > 7
  <2>1. isr \cap Slave \subseteq {n} /\ isr \cap Master \subseteq {2}
    BY <1>1 DEF MasterLine, Master, Slave, Cascade
  <2>2. Ended(isr \cap Slave) = {} /\ Ended(isr \cap Master) = {}
    BY <2>1, EndedSingle
  <2> QED BY <1>1, <2>2 DEF EOI
<1>2. CASE ~(n > 7)
  <2>1. isr \cap Slave = {} /\ isr \cap Master \subseteq {n}
    BY <1>2 DEF MasterLine, Master, Slave, Cascade
  <2>2. Ended(isr \cap Master) = {}
    BY <2>1, EndedSingle
  <2> QED BY <1>2, <2>1, <2>2 DEF EOI
<1> QED BY <1>1, <1>2

(***************************************************************************)
(* What is pushed is a frame, and a frame stays one as its work goes on.   *)
(***************************************************************************)
LEMMA FrameTypes ==
  ASSUME iff \in BOOLEAN
  PROVE  /\ \A n \in Lines \cup {7, 15} : Frame(n, "eoi") \in FrameRecords
         /\ Frame(Fault, "handler") \in FrameRecords
         /\ \A f \in FrameRecords :
              /\ [f EXCEPT !.at = "handler"] \in FrameRecords
              /\ [f EXCEPT !.at = "return"] \in FrameRecords
BY DEF Frame, FrameRecords

(***************************************************************************)
(* The handler on top of the stack advances, and the EOI is over by the    *)
(* time it does.                                                           *)
(***************************************************************************)
LEMMA Advance ==
  ASSUME IInv, NEW at \in {"handler", "return"}, frames # <<>>, Resume(at),
         irr' = irr, iff' = iff, isr' \subseteq isr,
         Top.at = "eoi" => isr' = {}
  PROVE  IInv'
<1>1. CASE OneFrame
  <2> PICK f \in FrameRecords : frames = <<f>> /\ Bottom(f)
    BY <1>1 DEF OneFrame
  <2> DEFINE h == [f EXCEPT !.at = at]
  <2>1. frames' = <<h>> /\ Top = f
    BY DEF Resume, Top
  <2>2. h \in FrameRecords /\ h.at # "eoi" /\ h.at = at
    BY DEF FrameRecords
  <2>3. isr' = {}
    BY <2>1 DEF Bottom
  <2> HIDE DEF h
  <2>4. OneFrame'
    BY <2>1, <2>2, <2>3 DEF OneFrame, Bottom
  <2> QED BY <2>3, <2>4 DEF IInv
<1>2. CASE TwoFrames
  <2> PICK f \in FrameRecords, g \in FrameRecords :
           /\ frames = <<f, g>>
           /\ Bottom(f) /\ f.line # Fault
           /\ g.line = Fault /\ g.at # "eoi" /\ ~g.saved
    BY <1>2 DEF TwoFrames
  <2> DEFINE h == [g EXCEPT !.at = at]
  <2>1. frames' = <<f, h>>
    BY DEF Resume, Top
  <2>2. h \in FrameRecords /\ h.at # "eoi" /\ h.line = Fault /\ ~h.saved
    BY DEF FrameRecords
  <2>3. Bottom(f)'
    BY DEF Bottom, IInv
  <2> HIDE DEF h
  <2>4. TwoFrames'
    BY <2>1, <2>2, <2>3 DEF TwoFrames
  <2> QED BY <2>4 DEF IInv
<1> QED BY <1>1, <1>2 DEF IInv, Calm

(***************************************************************************)
(* A hardware interrupt is taken: only with IF set, so on an empty stack.  *)
(***************************************************************************)
LEMMA Entry ==
  ASSUME IInv, iff, NEW n \in Lines \cup {7, 15},
         irr' \subseteq irr, isr' \subseteq isr \cup {n, MasterLine(n)},
         isr' \subseteq Lines \cup {Cascade},
         frames' = Append(frames, Frame(n, "eoi")), iff' = FALSE
  PROVE  IInv'
<1> USE LinesAssumption, FaultAssumption
<1> DEFINE f == Frame(n, "eoi")
<1>1. frames = <<>> /\ isr = {} /\ n # Fault
  BY DEF IInv, Calm, OneFrame, TwoFrames, Bottom
<1>2. f \in FrameRecords /\ f.line = n /\ f.at = "eoi"
  BY FrameTypes DEF IInv, Frame
<1>3. frames' = <<f>>
  BY <1>1
<1> HIDE DEF f
<1>4. OneFrame'
  BY <1>1, <1>2, <1>3 DEF OneFrame, Bottom
<1> QED BY <1>4 DEF IInv

(***************************************************************************)
(* The invariant the whole module rests on.                                *)
(***************************************************************************)
LEMMA StepInv == IInv /\ [Next]_intVars => IInv'
<1> SUFFICES ASSUME IInv, [Next]_intVars PROVE IInv'
  OBVIOUS
<1> USE LinesAssumption, FaultAssumption
<1>1. CASE \E n \in Lines : Raise(n)
  <2>1. irr' \subseteq Lines /\ isr' = isr /\ iff' = iff /\ frames' = frames
    BY <1>1 DEF Raise, IInv
  <2> QED BY <2>1 DEF IInv, Calm, OneFrame, TwoFrames, Bottom
<1>2. CASE \E n \in Lines : Accept(n)
  <2> PICK n \in Lines : Accept(n)
    BY <1>2
  <2>1. isr' \subseteq Lines \cup {Cascade}
    BY DEF Accept, MasterLine, IInv
  <2> QED BY <2>1, Entry DEF Accept, Entered
<1>3. CASE \E n \in {7, 15} : Spurious(n)
  <2> PICK n \in {7, 15} : Spurious(n)
    BY <1>3
  <2>1. /\ isr' \subseteq isr \cup {n, MasterLine(n)}
        /\ isr' \subseteq Lines \cup {Cascade}
    BY DEF Spurious, MasterLine, Master, Cascade, IInv
  <2> QED BY <2>1, Entry DEF Spurious, Entered
<1>4. CASE TakeFault
  <2> DEFINE g == Frame(Fault, "handler")
  <2>1. /\ frames' = Append(frames, g) /\ iff' = FALSE
        /\ irr' = irr /\ isr' = isr
    BY <1>4 DEF TakeFault, Entered
  <2>2. g \in FrameRecords /\ g.line = Fault /\ g.at = "handler" /\ g.saved = iff
    BY FrameTypes DEF IInv, Frame
  <2> HIDE DEF g
  <2>3. CASE Calm
    <3>1. frames' = <<g>>
      BY <2>1, <2>3 DEF Calm
    <3>2. OneFrame'
      BY <2>1, <2>2, <2>3, <3>1 DEF Calm, OneFrame, Bottom
    <3> QED BY <2>1, <3>2 DEF IInv
  <2>4. CASE OneFrame
    <3> PICK f \in FrameRecords : frames = <<f>> /\ Bottom(f)
      BY <2>4 DEF OneFrame
    <3>1. frames' = <<f, g>>
      BY <2>1, PushOnOne
    <3>2. Top = f /\ f.line # Fault
      BY <1>4, StackShapes DEF TakeFault, Top
    <3>3. Bottom(f)' /\ ~g.saved
      BY <2>1, <2>2 DEF Bottom
    <3>4. TwoFrames'
      BY <2>2, <3>1, <3>2, <3>3 DEF TwoFrames
    <3> QED BY <2>1, <3>4 DEF IInv
  <2>5. CASE TwoFrames
    <3> PICK f \in FrameRecords, g1 \in FrameRecords :
             frames = <<f, g1>> /\ g1.line = Fault
      BY <2>5 DEF TwoFrames
    <3>1. Top = g1
      BY StackShapes DEF Top
    <3> QED BY <1>4, <3>1, StackShapes DEF TakeFault
  <2> QED BY <2>3, <2>4, <2>5 DEF IInv
<1>5. CASE EndOfInterrupt
  <2>1. frames # <<>> /\ Top.at = "eoi"
    BY <1>5 DEF EndOfInterrupt, Running
  <2>2. OneFrame
    <3>1. ASSUME NEW f, NEW g, frames = <<f, g>>
          PROVE  Top = g
      BY <3>1, StackShapes DEF Top
    <3>2. ~TwoFrames
      BY <2>1, <3>1 DEF TwoFrames
    <3> QED BY <2>1, <3>2 DEF IInv, Calm
  <2> PICK f \in FrameRecords : frames = <<f>> /\ Bottom(f)
    BY <2>2 DEF OneFrame
  <2>3. Top = f
    BY StackShapes DEF Top
  <2>4. f.line # Fault /\ isr \subseteq {f.line, MasterLine(f.line)}
    BY <2>1, <2>3 DEF Bottom
  <2>5. f.line \in Lines \cup {7, 15, Fault}
    BY DEF FrameRecords
  <2>6. f.line \in 0..15
    <3>1. f.line \in Lines \/ f.line = 7 \/ f.line = 15
      BY <2>4, <2>5
    <3>2. Lines \subseteq 0..15
      OBVIOUS
    <3>3. 7 \in 0..15 /\ 15 \in 0..15
      OBVIOUS
    <3> QED BY <3>1, <3>2, <3>3
  <2>7. isr' = {}
    BY <1>5, <2>3, <2>4, <2>6, EOIClears DEF EndOfInterrupt
  <2> QED BY <1>5, <2>1, <2>7, Advance DEF EndOfInterrupt
<1>6. CASE \E n \in Lines \cup {7, 15, Fault} : CallHandler(n)
  <2>1. frames # <<>> /\ Top.at = "handler" /\ Resume("return")
    BY <1>6 DEF CallHandler, Running
  <2> QED BY <1>6, <2>1, Advance DEF CallHandler
<1>7. CASE Return
  <2>1. /\ frames # <<>> /\ Top.at = "return"
        /\ frames' = SubSeq(frames, 1, Len(frames) - 1)
        /\ iff' = Top.saved /\ irr' = irr /\ isr' = isr
    BY <1>7 DEF Return, Running, Restored
  <2>2. CASE OneFrame
    <3> PICK f \in FrameRecords : frames = <<f>> /\ Bottom(f)
      BY <2>2 DEF OneFrame
    <3>1. Top = f /\ frames' = <<>>
      BY <2>1, StackShapes DEF Top
    <3>2. isr' = {} /\ iff' \in BOOLEAN
      BY <2>1, <3>1 DEF Bottom, FrameRecords
    <3> QED BY <2>1, <3>1, <3>2 DEF IInv, Calm
  <2>3. CASE TwoFrames
    <3> PICK f \in FrameRecords, g \in FrameRecords :
             /\ frames = <<f, g>>
             /\ Bottom(f) /\ f.line # Fault
             /\ g.line = Fault /\ g.at # "eoi" /\ ~g.saved
      BY <2>3 DEF TwoFrames
    <3>1. Top = g /\ frames' = <<f>>
      BY <2>1, StackShapes, PopFromTwo DEF Top
    <3>2. Bottom(f)' /\ iff' \in BOOLEAN
      BY <2>1, <3>1 DEF Bottom, FrameRecords
    <3>3. OneFrame'
      BY <3>1, <3>2 DEF OneFrame
    <3> QED BY <2>1, <3>2, <3>3 DEF IInv
  <2> QED BY <2>1, <2>2, <2>3 DEF IInv, Calm
<1>8. CASE Mask \/ Unmask
  <2>1. /\ frames = <<>> /\ iff' \in BOOLEAN
        /\ irr' = irr /\ isr' = isr /\ frames' = frames
    BY <1>8 DEF Mask, Unmask
  <2>2. Calm
    BY <2>1, StackShapes DEF IInv, OneFrame, TwoFrames
  <2> QED BY <2>1, <2>2 DEF IInv, Calm
<1>9. CASE UNCHANGED intVars
  BY <1>9 DEF intVars, IInv, Calm, OneFrame, TwoFrames, Bottom
<1> QED BY <1>1, <1>2, <1>3, <1>4, <1>5, <1>6, <1>7, <1>8, <1>9 DEF Next, Serve

LEMMA Invariance == Spec => []IInv
<1>1. Init => IInv
  BY DEF Init, IInv, Calm
<1> QED BY <1>1, StepInv, PTL DEF Spec

(***************************************************************************)
(* What the shapes of the stack say.                                       *)
(***************************************************************************)
LEMMA FromShapes == IInv => NoNesting /\ NothingLeftInService
<1>1. IInv => NoNesting
  BY StackShapes DEF IInv, Calm, OneFrame, TwoFrames, NoNesting, IrqFrames
<1>2. IInv => NothingLeftInService
  BY StackShapes DEF IInv, Calm, OneFrame, TwoFrames, Bottom, NothingLeftInService
<1> QED BY <1>1, <1>2

LEMMA StackOfFrames == IInv => frames \in Seq(FrameRecords)
<1>1. <<>> \in Seq(FrameRecords)
  OBVIOUS
<1>2. \A f \in FrameRecords : <<f>> \in Seq(FrameRecords)
  OBVIOUS
<1>3. \A f, g \in FrameRecords : <<f, g>> \in Seq(FrameRecords)
  OBVIOUS
<1> QED BY <1>1, <1>2, <1>3 DEF IInv, Calm, OneFrame, TwoFrames

(***************************************************************************)
(* Handlers of hardware interrupts never nest (IRQ.S, ISR.S).              *)
(***************************************************************************)
THEOREM HandlersDoNotNest == Spec => []NoNesting
BY FromShapes, Invariance, PTL

(***************************************************************************)
(* Every PIC_EOI ends the interrupt it is sent for (PIC.c:114-120).        *)
(***************************************************************************)
THEOREM EOIEndsTheRightLine == Spec => []NothingLeftInService
BY FromShapes, Invariance, PTL

-----------------------------------------------------------------------------
(***************************************************************************)
(* The start of the kernel.                                                *)
(***************************************************************************)

(***************************************************************************)
(* The stages of _start_init, by what is behind them.                      *)
(***************************************************************************)
Late == {"fdc", "reset", "wait", "main"}
AfterIrq == {"pit", "ps2", "memory", "sti"} \cup Late
AfterIsr == {"irq"} \cup AfterIrq
AfterPic == {"isr"} \cup AfterIsr
AfterTables == {"pic"} \cup AfterPic
Stages == {"check", "tables"} \cup AfterTables

(***************************************************************************)
(* Where the gate of a vector leads, given what is set up so far.          *)
(***************************************************************************)
EntryOf(s, v) ==
  IF s \in AfterIsr /\ v \in (0..21) \ {15} THEN ISR_INT(v)
  ELSE IF s \in AfterIrq /\ v \in 32..47 THEN IRQ_INT(v - 32)
  ELSE IDT_default_handler

TablesInv ==
  IF stage \in AfterTables
  THEN /\ gdt = gdtd
       /\ idt = [v \in 0..(MAX_INTERRUPTS - 1) |-> Gate(EntryOf(stage, v))]
  ELSE idt = <<>>

(***************************************************************************)
(* The controllers after d of PIC_init's eight writes.                     *)
(***************************************************************************)
ChipsAfter(d) ==
  <<[base |-> IF d < 3 THEN 8 ELSE 32,
     icw |-> IF d < 1 THEN 0 ELSE IF d < 3 THEN 2 ELSE IF d < 5 THEN 3
             ELSE IF d < 7 THEN 4 ELSE 0],
    [base |-> IF d < 4 THEN 112 ELSE 40,
     icw |-> IF d < 2 THEN 0 ELSE IF d < 4 THEN 2 ELSE IF d < 6 THEN 3
             ELSE IF d < 8 THEN 4 ELSE 0]>>

Writes == {PIC_init_writes[i] : i \in 1..8}
Written(d) ==
  /\ chips = ChipsAfter(d)
  /\ icws \in Seq(Writes) /\ Len(icws) = 8 - d
  /\ \A i \in 1..(8 - d) : icws[i] = PIC_init_writes[d + i]

PicInv ==
  CASE stage \in {"check", "tables"} -> Written(0)
    [] stage = "pic" -> \E d \in 0..7 : Written(d)
    [] OTHER -> chips = ChipsAfter(8)

(***************************************************************************)
(* Interrupts are masked, and nothing on the stack unmasks them, until the *)
(* sti of _start_init.                                                     *)
(***************************************************************************)
MaskInv == iff \/ (\E i \in DOMAIN frames : frames[i].saved) => stage \in Late

(***************************************************************************)
(* A device is set going after its handler is registered.                  *)
(***************************************************************************)
DrivenInv == /\ \A n \in driven : 32 + n \in handlers
             /\ stage \in {"reset", "wait", "main"} => 32 + 6 \in handlers

StartInv == /\ IInv /\ stage \in Stages
            /\ TablesInv /\ PicInv /\ MaskInv /\ DrivenInv
            /\ EveryEntryLands

-----------------------------------------------------------------------------
(***************************************************************************)
(* Descriptors.  The halves of a gate make up the address it was made of,  *)
(* and the kernel's two segments are what the processor needs.             *)
(***************************************************************************)
LEMMA GateLeads ==
  ASSUME NEW base \in Nat, base < 2^22
  PROVE  /\ Gate(base).base_hi * 2^16 + Gate(base).base_lo = base
         /\ Bit(Gate(base).flags, 7) /\ Gate(base).flags % 32 = IDT_GATE_INT32
         /\ Gate(base).selector = GDT_KERNEL_CODE_SEL
<1>1. ((base \div 2^16) % 2^16) * 2^16 + (base % 2^16) = base
  OBVIOUS
<1> QED BY <1>1 DEF Gate, Bit, IDT_GATE_INT32

LEMMA KernelSegments ==
  ASSUME gdt = gdtd
  PROVE  KernelCode(GDT_KERNEL_CODE_SEL) /\ KernelData(GDT_KERNEL_DATA_SEL)
<1>1. 1 \in DOMAIN gdt /\ gdt[1] = Code(0) /\ 2 \in DOMAIN gdt /\ gdt[2] = Data(0)
  BY DEF gdtd
<1>2. Flat(Code(0)) /\ Flat(Data(0))
  BY DEF Flat, Code, Data, Descriptor, Bit
<1>3. Kernel(Code(0)) /\ Kernel(Data(0))
  BY DEF Kernel, Code, Data, Descriptor, Bit
<1>4. Bit(Code(0).attr, 3) /\ ~Bit(Data(0).attr, 3) /\ Bit(Data(0).attr, 1)
  BY DEF Code, Data, Descriptor, Bit
<1>5. GDT_KERNEL_CODE_SEL \div 8 = 1 /\ GDT_KERNEL_DATA_SEL \div 8 = 2
  BY DEF GDT_KERNEL_CODE_SEL, GDT_KERNEL_DATA_SEL
<1> QED BY <1>1, <1>2, <1>3, <1>4, <1>5 DEF KernelCode, KernelData

(***************************************************************************)
(* Through any gate the processor gets to the entry meant for the stage.   *)
(***************************************************************************)
LEMMA GatesUsable ==
  ASSUME TablesInv, stage \in AfterTables, NEW v \in 0..47
  PROVE  Usable(v) /\ Target(v) = EntryOf(stage, v)
<1>1. EntryOf(stage, v) \in Nat /\ EntryOf(stage, v) < 2^22
  BY StartAssumption DEF EntryOf, ISR_INT, IRQ_INT, IDT_default_handler
<1>2. v \in DOMAIN idt /\ idt[v] = Gate(EntryOf(stage, v))
  BY StartAssumption DEF TablesInv
<1>3. KernelCode(GDT_KERNEL_CODE_SEL)
  BY KernelSegments DEF TablesInv
<1> QED BY <1>1, <1>2, <1>3, GateLeads DEF Usable, Target

(***************************************************************************)
(* An interrupt taken after IRQ_init enters its own stub.                  *)
(***************************************************************************)
LEMMA StubsAreOwn ==
  ASSUME TablesInv, PicInv, stage \in AfterIrq, NEW n \in 0..15
  PROVE  OwnStub(n)
<1>1. chips = ChipsAfter(8)
  BY DEF PicInv, AfterIrq, Late
<1>2. Vector(n) = 32 + n
  BY <1>1 DEF Vector, ChipsAfter, Master
<1>3. stage \in AfterTables
  BY DEF AfterTables, AfterPic, AfterIsr
<1>4. EntryOf(stage, 32 + n) = IRQ_INT(n)
  BY DEF EntryOf, IRQ_INT
<1>5. Usable(32 + n) /\ Target(32 + n) = IRQ_INT(n)
  BY <1>3, <1>4, GatesUsable
<1>6. KernelData(GDT_KERNEL_DATA_SEL)
  BY <1>3, KernelSegments DEF TablesInv
<1> QED BY <1>2, <1>5, <1>6 DEF OwnStub

-----------------------------------------------------------------------------
(***************************************************************************)
(* PIC_init, write by write.                                               *)
(***************************************************************************)
LEMMA OneWrite ==
  ASSUME NEW d \in 0..7, chips = ChipsAfter(d)
  PROVE  [chips EXCEPT ![PIC_init_writes[d + 1].chip]
                         = Programmed(@, PIC_init_writes[d + 1])] = ChipsAfter(d + 1)
<1> USE DEF ChipsAfter, PIC_init_writes, Outb, Programmed, PIC1_BASE_INT, PIC2_BASE_INT
<1>0. CASE d = 0
  BY <1>0
<1>1. CASE d = 1
  BY <1>1
<1>2. CASE d = 2
  <2>1. chips = <<[base |-> 8, icw |-> 2], [base |-> 112, icw |-> 2]>>
    BY <1>2
  <2>2. PIC_init_writes[d + 1] = Outb(1, "data", 32)
    BY <1>2
  <2>3. ChipsAfter(d + 1) = <<[base |-> 32, icw |-> 3], [base |-> 112, icw |-> 2]>>
    BY <1>2
  <2> HIDE DEF ChipsAfter, PIC_init_writes
  <2>4. Programmed([base |-> 8, icw |-> 2], Outb(1, "data", 32)) = [base |-> 32, icw |-> 3]
    OBVIOUS
  <2> HIDE DEF Programmed
  <2> QED BY <2>1, <2>2, <2>3, <2>4
<1>3. CASE d = 3
  <2>1. chips = <<[base |-> 32, icw |-> 3], [base |-> 112, icw |-> 2]>>
    BY <1>3
  <2>2. PIC_init_writes[d + 1] = Outb(2, "data", 40)
    BY <1>3
  <2>3. ChipsAfter(d + 1) = <<[base |-> 32, icw |-> 3], [base |-> 40, icw |-> 3]>>
    BY <1>3
  <2> HIDE DEF ChipsAfter, PIC_init_writes
  <2>4. Programmed([base |-> 112, icw |-> 2], Outb(2, "data", 40)) = [base |-> 40, icw |-> 3]
    OBVIOUS
  <2> HIDE DEF Programmed
  <2> QED BY <2>1, <2>2, <2>3, <2>4
<1>4. CASE d = 4
  BY <1>4
<1>5. CASE d = 5
  BY <1>5
<1>6. CASE d = 6
  BY <1>6
<1>7. CASE d = 7
  BY <1>7
<1> HIDE DEF ChipsAfter, PIC_init_writes, Programmed
<1> QED BY <1>0, <1>1, <1>2, <1>3, <1>4, <1>5, <1>6, <1>7

LEMMA PicStep ==
  ASSUME StartInv, PIC_init
  PROVE  PicInv'
<1>1. PICK d \in 0..7 : Written(d)
  BY DEF PIC_init, At, StartInv, PicInv
<1>2. /\ icws \in Seq(Writes) /\ Len(icws) = 8 - d /\ Len(icws) >= 1
      /\ \A i \in 1..(8 - d) : icws[i] = PIC_init_writes[d + i]
      /\ chips = ChipsAfter(d)
  BY <1>1 DEF Written
<1>3. Head(icws) = PIC_init_writes[d + 1]
  BY <1>2
<1>4. chips' = ChipsAfter(d + 1)
  BY <1>2, <1>3, OneWrite DEF PIC_init
<1>5. CASE d = 7
  <2>1. stage' = "isr"
    BY <1>2, <1>5 DEF PIC_init
  <2> QED BY <1>4, <1>5, <2>1 DEF PicInv
<1>6. CASE d # 7
  <2>1. stage' = "pic" /\ icws' = Tail(icws)
    BY <1>2, <1>6 DEF PIC_init, At
  <2>2. /\ icws' \in Seq(Writes) /\ Len(icws') = 8 - (d + 1)
        /\ \A i \in 1..(8 - (d + 1)) : icws'[i] = icws[i + 1]
    BY <1>2, <1>6, <2>1
  <2>3. \A i \in 1..(8 - (d + 1)) : icws'[i] = PIC_init_writes[(d + 1) + i]
    <3> SUFFICES ASSUME NEW i \in 1..(8 - (d + 1))
                 PROVE  icws'[i] = PIC_init_writes[(d + 1) + i]
      OBVIOUS
    <3>1. i + 1 \in 1..(8 - d) /\ d + (i + 1) = (d + 1) + i
      OBVIOUS
    <3> QED BY <1>2, <2>2, <3>1
  <2>4. Written(d + 1)'
    BY <1>4, <2>2, <2>3 DEF Written
  <2> QED BY <1>6, <2>1, <2>4 DEF PicInv
<1> QED BY <1>5, <1>6

(***************************************************************************)
(* On the main thread nothing is on the stack and nothing is in service.   *)
(***************************************************************************)
LEMMA MainThread ==
  ASSUME StartInv, frames = <<>>, frames' = frames, isr' = isr,
         irr' \subseteq irr, iff' \in BOOLEAN
  PROVE  IInv' /\ (MaskInv' <=> (iff' => stage' \in Late))
<1>1. Calm
  BY StackShapes DEF StartInv, IInv, OneFrame, TwoFrames
<1>2. IInv'
  BY <1>1 DEF StartInv, IInv, Calm
<1>3. DOMAIN frames' = {}
  OBVIOUS
<1> QED BY <1>2, <1>3 DEF MaskInv

(***************************************************************************)
(* A step of the main thread that is not a step of the tables or of the    *)
(* controllers: it goes on to a stage where the same of them is done.      *)
(***************************************************************************)
LEMMA PlainStep ==
  ASSUME StartInv, frames = <<>>, cpu = "run",
         UNCHANGED <<irr, isr, frames, gdt, idt, chips, icws>>,
         \/ cpu' = "panic" /\ iff' = FALSE /\ stage' = stage
         \/ /\ cpu' = "run" /\ iff' = iff
            /\ \/ stage = "check" /\ stage' = "tables"
               \/ stage \in AfterIrq \ Late /\ stage' \in AfterIrq
               \/ stage \in Late /\ stage' \in Late
  PROVE  /\ IInv' /\ stage' \in Stages /\ TablesInv' /\ PicInv' /\ MaskInv'
         /\ EveryEntryLands'
<1> USE DEF Stages, AfterTables, AfterPic, AfterIsr, AfterIrq, Late
<1>1. iff' \in BOOLEAN /\ (iff' => stage' \in Late)
  <2>1. iff \in BOOLEAN /\ (iff => stage \in Late)
    BY DEF StartInv, IInv, MaskInv
  <2>2. CASE iff' = FALSE
    BY <2>2
  <2>3. CASE iff' = iff
    <3>1. stage \in Late => stage' \in Late
      OBVIOUS
    <3> HIDE DEF Late
    <3> QED BY <2>1, <2>3, <3>1
  <2> QED BY <2>2, <2>3
<1>2. IInv' /\ MaskInv'
  BY <1>1, MainThread
<1>3. stage' \in Stages /\ EveryEntryLands'
  BY DEF StartInv, EveryEntryLands
<1>4. TablesInv'
  <2>1. \A v : EntryOf(stage', v) = EntryOf(stage, v)
    BY DEF EntryOf, StartInv
  <2>2. stage' \in AfterTables <=> stage \in AfterTables
    BY DEF StartInv
  <2> HIDE DEF AfterTables
  <2> QED BY <2>1, <2>2 DEF StartInv, TablesInv
<1>5. PicInv'
  <2>1. \A d : Written(d)' <=> Written(d)
    BY DEF Written
  <2> QED BY <2>1 DEF StartInv, PicInv
<1> QED BY <1>2, <1>3, <1>4, <1>5

LEMMA BootStepInv ==
  ASSUME StartInv, BootStep
  PROVE  StartInv'
<1> USE DEF At, Panic, Go, Registered, PIC1_BASE_INT
<1>1. frames = <<>> /\ cpu = "run"
  BY DEF BootStep, Checks, init_descriptor_tables, PIC_init, ISR_init, IRQ_init, PIT_init,
         PS2_init, Memory_init, sti, fdc_init, fdc_reset, Waited, Finish
<1>2. CASE Checks
  <2>1. DrivenInv'
    BY <1>2 DEF Checks, StartInv, DrivenInv
  <2> QED BY <1>1, <1>2, <2>1, PlainStep DEF Checks, StartInv
<1>3. CASE init_descriptor_tables
  <2>1. /\ stage = "tables" /\ stage' = "pic" /\ iff' = FALSE /\ cpu' = "run"
        /\ UNCHANGED <<irr, isr, frames, chips, icws, handlers, driven>>
        /\ gdt' = gdtd
        /\ idt' = [v \in 0..(MAX_INTERRUPTS - 1) |-> Gate(IDT_default_handler)]
    BY <1>3 DEF init_descriptor_tables
  <2>2. IInv' /\ MaskInv'
    BY <1>1, <2>1, MainThread
  <2>3. TablesInv'
    <3>1. \A v : EntryOf("pic", v) = IDT_default_handler
      BY DEF EntryOf, AfterIsr, AfterIrq, Late
    <3> QED BY <2>1, <3>1 DEF TablesInv, AfterTables
  <2>4. PicInv'
    <3>1. Written(0)'
      BY <2>1 DEF StartInv, PicInv, Written
    <3> QED BY <2>1, <3>1 DEF PicInv
  <2>5. DrivenInv' /\ stage' \in Stages /\ EveryEntryLands'
    BY <2>1 DEF StartInv, DrivenInv, Stages, AfterTables, EveryEntryLands
  <2> QED BY <2>2, <2>3, <2>4, <2>5 DEF StartInv
<1>4. CASE PIC_init
  <2>1. /\ stage = "pic" /\ stage' \in {"pic", "isr"} /\ iff' = iff /\ cpu' = "run"
        /\ UNCHANGED <<isr, frames, gdt, idt, handlers, driven>>
    BY <1>4 DEF PIC_init
  <2>2. irr' \subseteq irr
    BY <1>4 DEF PIC_init
  <2>3. ~iff /\ iff' \in BOOLEAN
    BY <2>1 DEF StartInv, IInv, MaskInv, Late
  <2>4. IInv' /\ MaskInv'
    BY <1>1, <2>1, <2>2, <2>3, MainThread
  <2>5. TablesInv'
    <3>1. \A v : EntryOf(stage', v) = EntryOf(stage, v)
      BY <2>1 DEF EntryOf, AfterIsr, AfterIrq, Late
    <3> QED BY <2>1, <3>1 DEF StartInv, TablesInv, AfterTables, AfterPic
  <2>6. DrivenInv' /\ stage' \in Stages /\ EveryEntryLands'
    BY <2>1 DEF StartInv, DrivenInv, Stages, AfterTables, AfterPic, EveryEntryLands
  <2> QED BY <1>4, <2>4, <2>5, <2>6, PicStep DEF StartInv
<1>5. CASE ISR_init \/ IRQ_init
  <2>1. /\ \/ stage = "isr" /\ stage' = "irq"
           \/ stage = "irq" /\ stage' = "pit"
        /\ iff' = iff /\ cpu' = "run"
        /\ UNCHANGED <<irr, isr, frames, gdt, chips, handlers, driven>>
    BY <1>5 DEF ISR_init, IRQ_init
  <2>2. ~iff /\ iff' \in BOOLEAN
    BY <2>1 DEF StartInv, IInv, MaskInv, Late
  <2>3. IInv' /\ MaskInv'
    BY <1>1, <2>1, <2>2, MainThread
  <2>4. TablesInv'
    <3>1. /\ gdt = gdtd
          /\ idt = [v \in 0..(MAX_INTERRUPTS - 1) |-> Gate(EntryOf(stage, v))]
          /\ stage' \in AfterTables
      BY <2>1 DEF StartInv, TablesInv, AfterTables, AfterPic, AfterIsr, AfterIrq
    <3>2. ASSUME NEW v \in 0..(MAX_INTERRUPTS - 1)
          PROVE  idt'[v] = Gate(EntryOf(stage', v))
      <4>1. CASE ISR_init
        <5>1. /\ DOMAIN ISR_Gates = (0..21) \ {15}
              /\ \A w \in (0..21) \ {15} : ISR_Gates[w] = ISR_INT(w)
          BY DEF ISR_Gates
        <5>2. stage = "isr" /\ stage' = "irq"
          BY <4>1 DEF ISR_init
        <5>3. idt'[v] = IF v \in (0..21) \ {15} THEN Gate(ISR_INT(v)) ELSE idt[v]
          BY <3>1, <4>1, <5>1 DEF ISR_init, IDT_set_gate
        <5>4. EntryOf(stage, v) = IDT_default_handler
          BY <5>2 DEF EntryOf, AfterIsr, AfterIrq, Late
        <5>5. EntryOf(stage', v) = IF v \in (0..21) \ {15} THEN ISR_INT(v)
                                  ELSE IDT_default_handler
          BY <5>2 DEF EntryOf, AfterIsr, AfterIrq, Late
        <5> QED BY <3>1, <5>3, <5>4, <5>5
      <4>2. CASE IRQ_init
        <5>1. stage = "irq" /\ stage' = "pit"
          BY <4>2 DEF IRQ_init
        <5>2. idt'[v] = IF v \in 32..47 THEN Gate(IRQ_INT(v - 32)) ELSE idt[v]
          BY <3>1, <4>2 DEF IRQ_init, IDT_set_gate
        <5>3. EntryOf(stage, v) = IF v \in (0..21) \ {15} THEN ISR_INT(v)
                                 ELSE IDT_default_handler
          BY <5>1 DEF EntryOf, AfterIsr, AfterIrq, Late
        <5>4. EntryOf(stage', v) = IF v \in 32..47 THEN IRQ_INT(v - 32)
                                  ELSE EntryOf(stage, v)
          BY <5>1, <5>3 DEF EntryOf, AfterIsr, AfterIrq, Late
        <5> QED BY <3>1, <5>2, <5>4
      <4> QED BY <1>5, <4>1, <4>2
    <3>3. idt' = [v \in 0..(MAX_INTERRUPTS - 1) |-> idt'[v]]
      BY <1>5, <3>1 DEF ISR_init, IRQ_init, IDT_set_gate
    <3> QED BY <2>1, <3>1, <3>2, <3>3 DEF TablesInv
  <2>5. PicInv'
    BY <2>1 DEF StartInv, PicInv
  <2>6. DrivenInv' /\ stage' \in Stages /\ EveryEntryLands'
    BY <2>1 DEF StartInv, DrivenInv, Stages, AfterTables, AfterPic, AfterIsr, AfterIrq,
                EveryEntryLands
  <2> QED BY <2>3, <2>4, <2>5, <2>6 DEF StartInv
<1>6. CASE PIT_init \/ PS2_init \/ Memory_init
  <2>1. DrivenInv'
    BY <1>6 DEF PIT_init, PS2_init, Memory_init, StartInv, DrivenInv
  <2> QED BY <1>1, <1>6, <2>1, PlainStep
          DEF PIT_init, PS2_init, Memory_init, StartInv, AfterIrq, Late
<1>7. CASE sti
  <2>1. /\ stage = "sti" /\ stage' = "fdc" /\ iff' = TRUE /\ cpu' = "run"
        /\ UNCHANGED <<irr, isr, frames, gdt, idt, chips, icws, handlers, driven>>
    BY <1>7 DEF sti
  <2>2. IInv' /\ MaskInv'
    BY <1>1, <2>1, MainThread DEF Late
  <2>3. TablesInv'
    <3>1. \A v : EntryOf(stage', v) = EntryOf(stage, v)
      BY <2>1 DEF EntryOf, AfterIsr, AfterIrq, Late
    <3> QED BY <2>1, <3>1
            DEF StartInv, TablesInv, AfterTables, AfterPic, AfterIsr, AfterIrq, Late
  <2>4. PicInv'
    BY <2>1 DEF StartInv, PicInv
  <2>5. DrivenInv' /\ stage' \in Stages /\ EveryEntryLands'
    BY <2>1 DEF StartInv, DrivenInv, Stages, AfterTables, AfterPic, AfterIsr, AfterIrq, Late,
                EveryEntryLands
  <2> QED BY <2>2, <2>3, <2>4, <2>5 DEF StartInv
<1>8. CASE fdc_init \/ fdc_reset \/ Waited \/ Finish
  <2>1. DrivenInv'
    BY <1>8 DEF fdc_init, fdc_reset, Waited, Finish, StartInv, DrivenInv
  <2> QED BY <1>1, <1>8, <2>1, PlainStep
          DEF fdc_init, fdc_reset, Waited, Finish, StartInv, AfterIrq, Late
<1> QED BY <1>2, <1>3, <1>4, <1>5, <1>6, <1>7, <1>8 DEF BootStep
-----------------------------------------------------------------------------
(***************************************************************************)
(* Every other step is one of the interrupt path: it leaves the tables,    *)
(* the controllers and the handlers alone.                                 *)
(***************************************************************************)
LEMMA PathStep ==
  ASSUME StartInv, Next, UNCHANGED <<stage, gdt, idt, chips, icws, handlers, driven>>,
         MaskInv', EveryEntryLands'
  PROVE  StartInv'
<1>1. IInv'
  BY StepInv DEF StartInv
<1>2. stage' \in Stages /\ TablesInv' /\ DrivenInv'
  BY DEF StartInv, TablesInv, DrivenInv
<1>3. PicInv'
  <2>1. \A d : Written(d)' <=> Written(d)
    BY DEF Written
  <2> QED BY <2>1 DEF StartInv, PicInv
<1> QED BY <1>1, <1>2, <1>3 DEF StartInv

(***************************************************************************)
(* The flag of the interrupted code goes to the stack and comes back.      *)
(***************************************************************************)
LEMMA MaskPushed ==
  ASSUME StartInv, stage' = stage, iff' = FALSE,
         NEW f \in FrameRecords, f.saved = iff, frames' = Append(frames, f)
  PROVE  MaskInv'
<1>1. frames \in Seq(FrameRecords)
  BY StackOfFrames DEF StartInv
<1>2. ASSUME NEW i \in DOMAIN frames'
      PROVE  frames'[i] = f \/ (i \in DOMAIN frames /\ frames'[i] = frames[i])
  BY <1>1
<1> QED BY <1>2 DEF StartInv, MaskInv

LEMMA MaskAdvanced ==
  ASSUME StartInv, stage' = stage, iff' = iff, frames # <<>>,
         NEW at, Resume(at)
  PROVE  MaskInv'
<1>1. frames \in Seq(FrameRecords)
  BY StackOfFrames DEF StartInv
<1>2. Len(frames) \in DOMAIN frames
  BY <1>1
<1>3. DOMAIN frames' = DOMAIN frames
  BY <1>1 DEF Resume
<1>4. ASSUME NEW i \in DOMAIN frames'
      PROVE  frames'[i].saved = frames[i].saved
  <2>1. frames[i] \in FrameRecords
    BY <1>1, <1>3
  <2>2. CASE i = Len(frames)
    <3>1. frames'[i] = [frames[i] EXCEPT !.at = at]
      BY <1>2, <2>2 DEF Resume
    <3> QED BY <2>1, <3>1 DEF FrameRecords
  <2>3. CASE i # Len(frames)
    BY <1>2, <1>3, <2>3 DEF Resume
  <2> QED BY <2>2, <2>3
<1> QED BY <1>3, <1>4 DEF StartInv, MaskInv

LEMMA MaskPopped ==
  ASSUME StartInv, stage' = stage, Return
  PROVE  MaskInv'
<1>1. frames \in Seq(FrameRecords) /\ frames # <<>>
  BY StackOfFrames DEF StartInv, Return, Running
<1>2. Len(frames) \in DOMAIN frames /\ Len(frames) - 1 \in 0..Len(frames)
  BY <1>1
<1>3. iff' = frames[Len(frames)].saved
  BY DEF Return, Restored, Top
<1>4. ASSUME NEW i \in DOMAIN frames'
      PROVE  i \in DOMAIN frames /\ frames'[i] = frames[i]
  BY <1>1, <1>2 DEF Return
<1> QED BY <1>2, <1>3, <1>4 DEF StartInv, MaskInv

(***************************************************************************)
(* Where an exception gets to.                                             *)
(***************************************************************************)
LEMMA ExceptionLands ==
  ASSUME StartInv, NEW v \in Exceptions, Exception(v)
  PROVE  cpu' # "lost"
<1>0. v \in 0..47 /\ cpu = "run"
  BY StartAssumption DEF Exception
<1>1. CASE stage \notin AfterTables
  BY <1>1 DEF StartInv, TablesInv, Exception
<1>2. CASE stage \in AfterTables
  <2>1. Usable(v) /\ Target(v) = EntryOf(stage, v)
    BY <1>0, <1>2, GatesUsable DEF StartInv
  <2>2. v \notin 32..47
    BY StartAssumption
  <2>3. CASE EntryOf(stage, v) = IDT_default_handler
    BY <2>1, <2>3 DEF Exception
  <2>4. CASE EntryOf(stage, v) # IDT_default_handler
    <3>1. v \in (0..21) \ {15} /\ EntryOf(stage, v) = ISR_INT(v)
      BY <2>2, <2>4 DEF EntryOf
    <3>2. v \in ErrorCode <=> v \in NoPush
      BY <3>1 DEF ErrorCode, NoPush
    <3> QED BY <1>0, <2>1, <2>4, <3>1, <3>2 DEF Exception
  <2> QED BY <2>3, <2>4
<1> QED BY <1>1, <1>2

LEMMA StartStepInv == StartInv /\ [StartNext]_vars => StartInv'
<1> SUFFICES ASSUME StartInv, [StartNext]_vars PROVE StartInv'
  OBVIOUS
<1> USE LinesAssumption
<1>1. CASE BootStep
  BY <1>1, BootStepInv
<1>2. CASE \E n \in Lines : Device(n)
  <2> PICK n \in Lines : Device(n)
    BY <1>2
  <2>1. /\ Next /\ UNCHANGED <<iff, frames>>
        /\ UNCHANGED <<stage, gdt, idt, chips, icws, handlers, driven, cpu>>
    BY DEF Device, Raise, Next
  <2>2. MaskInv' /\ EveryEntryLands'
    BY <2>1 DEF StartInv, MaskInv, EveryEntryLands
  <2> QED BY <2>1, <2>2, PathStep
<1>3. CASE \E n \in Lines \cup {7, 15} : Taken(n)
  <2> PICK n \in Lines \cup {7, 15} : Taken(n)
    BY <1>3
  <2>1. /\ iff /\ iff' = FALSE /\ frames' = Append(frames, Frame(n, "eoi"))
        /\ UNCHANGED <<stage, gdt, idt, chips, icws, handlers, driven>>
    BY DEF Taken, Accept, Spurious, Entered
  <2>2. Next
    <3>1. CASE Accept(n)
      <4>1. n \in Lines
        BY <3>1 DEF Accept, StartInv, IInv
      <4> QED BY <3>1, <4>1 DEF Next
    <3>2. CASE Spurious(n)
      <4>1. n \in {7, 15}
        BY <3>2 DEF Spurious
      <4> QED BY <3>2, <4>1 DEF Next
    <3> QED BY <3>1, <3>2 DEF Taken
  <2>3. MaskInv'
    <3>1. Frame(n, "eoi") \in FrameRecords /\ Frame(n, "eoi").saved = iff
      BY FrameTypes DEF StartInv, IInv, Frame
    <3> QED BY <2>1, <3>1, MaskPushed
  <2>4. EveryEntryLands'
    <3>1. stage \in AfterIrq
      BY <2>1 DEF StartInv, MaskInv, AfterIrq
    <3>2. n \in 0..15
      OBVIOUS
    <3>3. OwnStub(n)
      BY <3>1, <3>2, StubsAreOwn DEF StartInv
    <3> QED BY <3>3 DEF Taken, StartInv, EveryEntryLands
  <2> QED BY <2>1, <2>2, <2>3, <2>4, PathStep
<1>4. CASE \E v \in Exceptions : Exception(v)
  <2> PICK v \in Exceptions : Exception(v)
    BY <1>4
  <2>1. /\ Next /\ iff' = FALSE /\ frames' = Append(frames, Frame(Fault, "handler"))
        /\ UNCHANGED <<stage, gdt, idt, chips, icws, handlers, driven>>
    BY DEF Exception, TakeFault, Entered, Next
  <2>2. MaskInv'
    <3>1. Frame(Fault, "handler") \in FrameRecords /\ Frame(Fault, "handler").saved = iff
      BY FrameTypes DEF StartInv, IInv, Frame
    <3> QED BY <2>1, <3>1, MaskPushed
  <2> QED BY <2>1, <2>2, ExceptionLands, PathStep DEF EveryEntryLands
<1>5. CASE Handle
  <2>1. /\ Serve
        /\ UNCHANGED <<stage, gdt, idt, chips, icws, handlers, driven, cpu>>
    BY <1>5 DEF Handle, HandlerRuns, FaultHandled, StubStep, Serve, startVars
  <2>2. EveryEntryLands' /\ Next
    BY <2>1 DEF StartInv, EveryEntryLands, Next
  <2>3. MaskInv'
    <3>1. CASE EndOfInterrupt
      BY <2>1, <3>1, MaskAdvanced DEF EndOfInterrupt, Running
    <3>2. CASE \E n \in Lines \cup {7, 15, Fault} : CallHandler(n)
      BY <2>1, <3>2, MaskAdvanced DEF CallHandler, Running
    <3>3. CASE Return
      BY <2>1, <3>3, MaskPopped
    <3> QED BY <2>1, <3>1, <3>2, <3>3 DEF Serve
  <2> QED BY <2>1, <2>2, <2>3, PathStep
<1>6. CASE UNCHANGED vars
  <2>1. UNCHANGED <<irr, isr, iff, frames, stage, gdt, idt, chips, icws, handlers, driven, cpu>>
    BY <1>6 DEF vars, intVars, startVars
  <2>2. IInv'
    BY <2>1, StepInv DEF StartInv, intVars
  <2>3. \A d : Written(d)' <=> Written(d)
    BY <2>1 DEF Written
  <2>4. PicInv'
    BY <2>1, <2>3 DEF StartInv, PicInv
  <2> QED BY <2>1, <2>2, <2>4 DEF StartInv, TablesInv, MaskInv, DrivenInv, EveryEntryLands
<1> QED BY <1>1, <1>2, <1>3, <1>4, <1>5, <1>6 DEF StartNext

LEMMA StartInvariance == StartSpec => []StartInv
<1>1. StartInit => StartInv
  <2> SUFFICES ASSUME StartInit PROVE StartInv
    OBVIOUS
  <2>1. IInv
    BY DEF StartInit, IInv, Calm
  <2>2. stage \in Stages /\ TablesInv /\ MaskInv /\ DrivenInv /\ EveryEntryLands
    BY DEF StartInit, Stages, AfterTables, AfterPic, AfterIsr, AfterIrq, Late,
           TablesInv, MaskInv, DrivenInv, EveryEntryLands
  <2>3. Written(0)
    <3>1. Len(PIC_init_writes) = 8 /\ PIC_init_writes \in Seq(Writes)
      BY DEF PIC_init_writes, Writes
    <3>2. chips = ChipsAfter(0)
      BY DEF StartInit, ChipsAfter
    <3> QED BY <3>1, <3>2 DEF StartInit, Written
  <2>4. PicInv
    BY <2>3 DEF StartInit, PicInv
  <2> QED BY <2>1, <2>2, <2>4 DEF StartInv
<1> QED BY <1>1, StartStepInv, PTL DEF StartSpec

-----------------------------------------------------------------------------
(***************************************************************************)
(* Wherever _start_init is, an interrupt that is taken enters the stub of  *)
(* its line and an exception its own stub or the default handler, in the   *)
(* kernel's segments (descriptors.c, PIC.c, ISR.c, IRQ.c).                 *)
(***************************************************************************)
THEOREM EntriesLand == StartSpec => []EveryEntryLands
<1>1. StartInv => EveryEntryLands
  BY DEF StartInv
<1> QED BY <1>1, StartInvariance, PTL

(***************************************************************************)
(* No interrupt of a device that PIT_init, PS2_init or fdc_reset has set   *)
(* going finds IRQ_UniversalHandler without a handler.                     *)
(***************************************************************************)
THEOREM DevicesHaveHandlers == StartSpec => []HandlersInTime
<1>1. StartInv => HandlersInTime
  BY DEF StartInv, DrivenInv, HandlersInTime, PIC1_BASE_INT
<1> QED BY <1>1, StartInvariance, PTL

(***************************************************************************)
(* What Interrupts promises of the interrupt path holds under the boot     *)
(* that drives it: handlers do not nest, and the end of interrupt ends the *)
(* right line.                                                             *)
(***************************************************************************)
THEOREM PathUnderBoot == StartSpec => [](NoNesting /\ NothingLeftInService)
<1>1. StartInv => NoNesting /\ NothingLeftInService
  BY FromShapes DEF StartInv
<1> QED BY <1>1, StartInvariance, PTL
=============================================================================
