---------------------------- MODULE Timer_proofs ----------------------------
(***************************************************************************)
(* For every width of the tick counter and every set of interrupt lines:   *)
(* sleep never returns early unless the number it waits for lies beyond    *)
(* the end of the counter, it never returns more than one tick late unless *)
(* it waits for the counter's last number, and nothing interrupts the boot *)
(* code.                                                                   *)
(***************************************************************************)
EXTENDS Timer, TLAPS

(***************************************************************************)
(* While the sleep is still short of its end, _ticks shows where it is.    *)
(* (Beyond that point _ticks may wrap.)                                    *)
(***************************************************************************)
Underway ==
  Sleeping /\ Reached /\ elapsed < nap.asked
    => ticks = (nap.target - nap.asked) + elapsed

Booting == main = "boot" \/ (main = "program" /\ call.back = "boot")

SleepInv ==
  /\ ticks \in 0..(TickLimit - 1)
  /\ elapsed \in 0..Watch
  /\ nap \in [asked : 0..Watch, target : 0..(TickLimit - 1)]
  /\ call.back \in {"boot", "idle"}
  /\ Underway

BootInv == Booting => /\ iff = FALSE /\ frames = <<>>
                      /\ main = "program" => call.flag = FALSE

(***************************************************************************)
(* A tick brings a sleep that is short of its end one step closer, without *)
(* wrapping the counter.                                                   *)
(***************************************************************************)
LEMMA TickCounts ==
  ASSUME SleepInv, timer_callback
  PROVE  SleepInv'
<1> USE TickAssumption
<1>1. ticks' \in 0..(TickLimit - 1) /\ elapsed' \in 0..Watch
  BY DEF timer_callback, SleepInv
<1>2. nap' = nap /\ main' = main /\ call' = call
  BY DEF timer_callback
<1>3. ASSUME (Sleeping /\ Reached /\ elapsed < nap.asked)'
      PROVE  (ticks = (nap.target - nap.asked) + elapsed)'
  <2>1. nap.asked \in 0..Watch /\ nap.target \in 0..(TickLimit - 1)
    BY DEF SleepInv
  <2>2. elapsed' < nap.asked /\ elapsed \in 0..Watch
    BY <1>2, <1>3 DEF SleepInv
  <2>3. elapsed' = elapsed + 1 /\ elapsed < nap.asked
    BY <2>1, <2>2 DEF timer_callback
  <2>4. Sleeping /\ Reached
    BY <1>2, <1>3 DEF Sleeping, Reached
  <2>5. ticks = (nap.target - nap.asked) + elapsed
    BY <2>3, <2>4 DEF SleepInv, Underway
  <2>6. ticks + 1 \in 0..(TickLimit - 1)
    BY <2>1, <2>2, <2>3, <2>4, <2>5 DEF Reached
  <2>7. ticks' = ticks + 1
    BY <2>6 DEF timer_callback
  <2> QED BY <1>2, <2>1, <2>2, <2>3, <2>5, <2>7
<1> QED BY <1>1, <1>2, <1>3 DEF SleepInv, Underway

(***************************************************************************)
(* What is left alone by everything but the tick and the main thread.      *)
(***************************************************************************)
LEMMA SleepUnchanged ==
  ASSUME SleepInv, ticks' = ticks, elapsed' = elapsed, nap' = nap,
         call' = call, Sleeping' => Sleeping
  PROVE  SleepInv'
BY DEF SleepInv, Underway, Sleeping, Reached

LEMMA SleepInvariance == TimerSpec => []SleepInv
<1> USE TickAssumption, AsksAssumption
<1>1. TimerInit => SleepInv
  BY DEF TimerInit, SleepInv, Underway, Sleeping, NoCall
<1>2. SleepInv /\ [TimerNext]_vars => SleepInv'
  <2> SUFFICES ASSUME SleepInv, [TimerNext]_vars PROVE SleepInv'
    OBVIOUS
  <2>1. CASE TimerRaises
    BY <2>1, SleepUnchanged DEF TimerRaises, Sleeping
  <2>2. CASE DeviceRaises \/ HandlerStep \/ OtherHandled
    BY <2>2, SleepUnchanged DEF DeviceRaises, HandlerStep, OtherHandled, timerVars, Sleeping
  <2>3. CASE Interrupted
    BY <2>3, SleepUnchanged DEF Interrupted, Sleeping
  <2>4. CASE TickHandled
    BY <2>4, TickCounts DEF TickHandled
  <2>5. CASE \E freq \in Freqs : SetFreq(freq)
    <3>1. /\ ticks' = ticks /\ elapsed' = elapsed /\ nap' = nap
          /\ main \in {"boot", "idle"} /\ call'.back = main /\ ~Sleeping'
      BY <2>5 DEF SetFreq, Sleeping
    <3> QED BY <3>1 DEF SleepInv, Underway
  <2>6. CASE EnableInterrupts
    BY <2>6, SleepUnchanged DEF EnableInterrupts, Sleeping
  <2>7. CASE \E n \in Asks : Sleep(n)
    <3> PICK n \in Asks : Sleep(n)
      BY <2>7
    <3>1. /\ ticks' = ticks /\ elapsed' = 0 /\ call' = call
          /\ nap' = [asked |-> n, target |-> (ticks + n) % TickLimit]
      BY DEF Sleep, Target
    <3>2. n \in 0..Watch /\ n \in 0..(TickLimit - 1) /\ ticks \in 0..(TickLimit - 1)
      BY DEF SleepInv
    <3>3. (ticks + n) % TickLimit \in 0..(TickLimit - 1)
      BY <3>2
    <3>4. n <= (ticks + n) % TickLimit => (ticks + n) % TickLimit = ticks + n
      BY <3>2
    <3>5. Underway'
      BY <3>1, <3>2, <3>3, <3>4 DEF Underway, Reached
    <3> QED BY <3>1, <3>2, <3>3, <3>5 DEF SleepInv
  <2>8. CASE Program
    <3>1. /\ ticks' = 0 /\ elapsed' = elapsed /\ nap' = nap
          /\ main' = call.back /\ call' = call
      BY <2>8 DEF Program
    <3>2. ~Sleeping'
      BY <3>1 DEF SleepInv, Sleeping
    <3> QED BY <3>1, <3>2 DEF SleepInv, Underway
  <2>9. CASE Test \/ Halt
    BY <2>9, SleepUnchanged DEF Test, Halt, Sleeping
  <2>10. CASE UNCHANGED vars
    BY <2>10, SleepUnchanged DEF vars, timerVars, Sleeping
  <2> QED BY <2>1, <2>2, <2>3, <2>4, <2>5, <2>6, <2>7, <2>8, <2>9, <2>10
          DEF TimerNext, MainStep
<1> QED BY <1>1, <1>2, PTL DEF TimerSpec

(***************************************************************************)
(* A sleep returns by the test at the head of its loop and no other way.   *)
(***************************************************************************)
LEMMA ReturnIsTest ==
  ASSUME [TimerNext]_vars, Returns
  PROVE  Test /\ ~Waiting
<1>1. main' # main
  BY DEF Returns, Sleeping
<1>2. ~Interrupted
  BY DEF Interrupted, Returns, Sleeping
<1> QED BY <1>1, <1>2
        DEF TimerNext, MainStep, TimerRaises, DeviceRaises, HandlerStep, TickHandled,
            OtherHandled, timer_callback, timerVars, vars, SetFreq, EnableInterrupts,
            Sleep, Program, Halt, Test, Returns, Sleeping

(***************************************************************************)
(* sleep(n) lasts n ticks, whatever other interrupts end its hlt           *)
(* (PIT.c:84-93), unless the end of the sleep is beyond the counter's.     *)
(***************************************************************************)
THEOREM SleepIsNotShort == TimerSpec => SleepNotShort
<1> USE TickAssumption
<1>1. SleepInv /\ [TimerNext]_vars => [Returns /\ Reached => elapsed >= nap.asked]_vars
  <2> SUFFICES ASSUME SleepInv, [TimerNext]_vars, Returns, Reached, vars' # vars
               PROVE  elapsed >= nap.asked
    OBVIOUS
  <2>1. Test /\ ~Waiting
    BY ReturnIsTest
  <2>2. ~(ticks < nap.target) /\ Sleeping
    BY <2>1 DEF Waiting, Returns
  <2>3. /\ nap.asked \in 0..Watch /\ nap.target \in 0..(TickLimit - 1)
        /\ elapsed \in 0..Watch /\ ticks \in 0..(TickLimit - 1)
    BY DEF SleepInv
  <2>4. elapsed < nap.asked => ticks = (nap.target - nap.asked) + elapsed
    BY <2>2 DEF SleepInv, Underway
  <2> QED BY <2>2, <2>3, <2>4
<1> QED BY <1>1, SleepInvariance, PTL DEF TimerSpec, SleepNotShort

(***************************************************************************)
(* The code before the sti of _start_init runs with interrupts masked,     *)
(* also after PIT_set_timer_freq has restored the flags (PIT.c:60-82).     *)
(***************************************************************************)
THEOREM BootStaysMasked == TimerSpec => []BootIsMasked
<1>1. TimerInit => BootInv
  BY DEF TimerInit, BootInv, NoCall
<1>2. BootInv /\ [TimerNext]_vars => BootInv'
  <2> SUFFICES ASSUME BootInv, [TimerNext]_vars PROVE BootInv'
    OBVIOUS
  <2> USE DEF BootInv, Booting
  <2>1. CASE TimerRaises \/ DeviceRaises
    BY <2>1 DEF TimerRaises, DeviceRaises, Raise, timerVars
  <2>2. CASE Interrupted
    BY <2>2 DEF Interrupted, Accept, Spurious, Entered
  <2>3. CASE HandlerStep
    <3>1. frames # <<>>
      BY <2>3 DEF HandlerStep, EndOfInterrupt, Return, Running
    <3>2. ~Booting /\ ~Booting'
      BY <2>3, <3>1 DEF HandlerStep, timerVars
    <3> QED BY <2>3, <3>2 DEF HandlerStep, timerVars
  <2>4. CASE TickHandled \/ OtherHandled
    <3>1. frames # <<>>
      BY <2>4 DEF TickHandled, OtherHandled, CallHandler, Running
    <3>2. ~Booting /\ ~Booting'
      BY <2>4, <3>1 DEF TickHandled, OtherHandled, timer_callback, timerVars
    <3> QED BY <3>2
  <2>5. CASE \E freq \in Freqs : SetFreq(freq)
    <3>1. PICK freq \in Freqs : SetFreq(freq)
      BY <2>5
    <3>2. /\ call'.back = main /\ call'.flag = iff
          /\ iff' = FALSE /\ main' = "program" /\ frames' = frames
      BY <3>1 DEF SetFreq
    <3> QED BY <3>2
  <2>6. CASE EnableInterrupts
    BY <2>6 DEF EnableInterrupts
  <2>7. CASE \E n \in Asks : Sleep(n)
    BY <2>7 DEF Sleep
  <2>8. CASE Program
    BY <2>8 DEF Program, Popped
  <2>9. CASE Test \/ Halt
    BY <2>9 DEF Test, Halt
  <2>10. CASE UNCHANGED vars
    BY <2>10 DEF vars, timerVars, intVars
  <2> QED BY <2>1, <2>2, <2>3, <2>4, <2>5, <2>6, <2>7, <2>8, <2>9, <2>10
          DEF TimerNext, MainStep
<1>3. BootInv => BootIsMasked
  BY DEF BootInv, Booting, BootIsMasked
<1> QED BY <1>1, <1>2, <1>3, PTL DEF TimerSpec

(***************************************************************************)
(* For the upper bound, what is still to come matters: a tick that has     *)
(* been raised and not yet been counted.                                   *)
(***************************************************************************)
Due == frames # <<>> /\ Top.line = IRQ_TIMER /\ Top.at # "return"
Coming == IRQ_TIMER \in irr \/ Due

\* At most one handler is on the stack, and it returns to code with IF set.
Stack == \/ frames = <<>>
         \/ \E f \in FrameRecords : frames = <<f>> /\ f.saved = TRUE /\ iff = FALSE

\* Where the main thread can be interrupted, and that a halted one is awake
\* as soon as it is.
Places ==
  /\ main \in {"idle", "test", "hlt", "halted"} /\ frames = <<>> => iff = TRUE
  /\ main = "program" => /\ iff = FALSE /\ frames = <<>>
                         /\ call.back = "idle" => call.flag = TRUE
  /\ main = "halted" => frames = <<>>

\* The timer waits until its last tick is counted and noticed.
OneTick == /\ ~(IRQ_TIMER \in irr /\ Due)
           /\ settled => ~Coming

InTime == Sleeping /\ Reached /\ nap.target # TickLimit - 1

(***************************************************************************)
(* How far _ticks can be when the sleep is at each of its places.  Between *)
(* the test and the hlt one tick may come that the test did not see; the   *)
(* next one, which ends the hlt, is then the one after the target.         *)
(***************************************************************************)
Punctual == InTime =>
  /\ elapsed <= ticks - (nap.target - nap.asked)
  /\ main = "test" => /\ ticks <= nap.target + 1
                      /\ (Coming \/ settled) => ticks <= nap.target
  /\ main = "hlt" => /\ ticks <= nap.target
                     /\ (Coming \/ settled) => ticks < nap.target
  /\ main = "halted" => /\ ticks <= nap.target
                        /\ settled => ticks < nap.target

LateInv == SleepInv /\ Stack /\ Places /\ OneTick /\ Punctual

(***************************************************************************)
(* A handler's frame: what is on a stack of one.                           *)
(***************************************************************************)
LEMMA OneOnStack ==
  ASSUME NEW f, frames = <<f>>
  PROVE  /\ frames # <<>> /\ Top = f
         /\ SubSeq(frames, 1, Len(frames) - 1) = <<>>
BY DEF Top

LEMMA StackStep ==
  ASSUME Stack, frames # <<>>, NEW at \in {"handler", "return"}, Resume(at), iff' = iff
  PROVE  /\ Stack' /\ frames' # <<>>
         /\ Top'.at = at /\ Top'.line = Top.line
<1> PICK f \in FrameRecords : frames = <<f>> /\ f.saved = TRUE /\ iff = FALSE
  BY DEF Stack
<1> DEFINE h == [f EXCEPT !.at = at]
<1>1. frames' = <<h>> /\ Top = f
  BY DEF Resume, Top
<1>2. h \in FrameRecords /\ h.at = at /\ h.line = f.line /\ h.saved = TRUE
  BY DEF FrameRecords
<1> HIDE DEF h
<1>3. frames' # <<>> /\ Top' = h
  BY <1>1 DEF Top
<1>4. Stack'
  BY <1>1, <1>2 DEF Stack
<1> QED BY <1>1, <1>2, <1>3, <1>4

(***************************************************************************)
(* A step after which as much is to come as before leaves a sleep in time, *)
(* also when it ends a hlt.                                                *)
(***************************************************************************)
LEMMA PunctualKept ==
  ASSUME SleepInv, Punctual, Coming' <=> Coming, settled => ~Coming,
         main' = main \/ (main = "halted" /\ main' = "test"),
         ticks' = ticks, elapsed' = elapsed, nap' = nap, settled' = settled
  PROVE  Punctual'
<1> SUFFICES ASSUME InTime' PROVE Punctual'
  BY DEF Punctual
<1>1. InTime
  BY DEF InTime, Sleeping, Reached
<1>2. ticks \in Int /\ nap.target \in Int /\ nap.asked \in Int
  BY TickAssumption DEF SleepInv
<1>3. CASE main' = main
  BY <1>1, <1>3 DEF Punctual
<1>4. CASE main = "halted" /\ main' = "test"
  BY <1>1, <1>2, <1>4 DEF Punctual
<1> QED BY <1>3, <1>4

LEMMA LateStep ==
  ASSUME LateInv, [TimerNext]_vars, SleepInv'
  PROVE  LateInv'
<1> USE TickAssumption, AsksAssumption, LinesAssumption
<1>t. /\ ticks \in 0..(TickLimit - 1) /\ nap.target \in 0..(TickLimit - 1)
      /\ nap.asked \in 0..Watch /\ elapsed \in 0..Watch
  BY DEF LateInv, SleepInv
<1>1. CASE TimerRaises
  <2>1. /\ irr' = irr \cup {IRQ_TIMER} /\ IRQ_TIMER \notin irr
        /\ iff' = iff /\ frames' = frames /\ settled' = FALSE
        /\ main' = main /\ ticks' = ticks /\ elapsed' = elapsed /\ nap' = nap /\ call' = call
    BY <1>1 DEF TimerRaises, Raise
  <2>2. Stack' /\ Places'
    BY <2>1 DEF LateInv, Stack, Places
  <2>3. ~Due /\ ~Coming
    BY <1>1, <2>1 DEF TimerRaises, Rested, LateInv, OneTick, Coming, Due
  <2>4. ~Due'
    BY <2>1, <2>3 DEF Due, Top
  <2>5. OneTick'
    BY <2>1, <2>4 DEF OneTick
  <2>6. settled \/ main \in {"boot", "idle", "halted"}
    BY <1>1 DEF TimerRaises, Rested
  <2>7. ASSUME InTime' PROVE Punctual'
    <3>1. InTime
      BY <2>1, <2>7 DEF InTime, Sleeping, Reached
    <3>2. /\ elapsed <= ticks - (nap.target - nap.asked)
          /\ main = "test" => ticks <= nap.target
          /\ main = "hlt" => ticks < nap.target
          /\ main = "halted" => ticks <= nap.target
      BY <2>6, <3>1 DEF LateInv, Punctual
    <3> QED BY <1>t, <2>1, <3>2 DEF Punctual
  <2> QED BY <2>2, <2>5, <2>7 DEF LateInv, Punctual
<1>2. CASE DeviceRaises
  <2>1. /\ iff' = iff /\ frames' = frames /\ settled' = settled
        /\ main' = main /\ ticks' = ticks /\ elapsed' = elapsed /\ nap' = nap /\ call' = call
        /\ IRQ_TIMER \in irr' <=> IRQ_TIMER \in irr
    BY <1>2 DEF DeviceRaises, Raise, timerVars
  <2>2. Stack' /\ Places'
    BY <2>1 DEF LateInv, Stack, Places
  <2>3. Due' <=> Due
    BY <2>1 DEF Due, Top
  <2>4. OneTick' /\ (Coming' <=> Coming)
    BY <2>1, <2>3 DEF LateInv, OneTick, Coming
  <2> QED BY <2>1, <2>2, <2>4, PunctualKept DEF LateInv, OneTick
<1>3. CASE Interrupted
  <2>1. /\ main' = IF main = "halted" THEN "test" ELSE main
        /\ ticks' = ticks /\ call' = call /\ nap' = nap
        /\ elapsed' = elapsed /\ settled' = settled
    BY <1>3 DEF Interrupted
  <2>2. /\ iff /\ iff' = FALSE
    BY <1>3 DEF Interrupted, Accept, Spurious, Entered
  <2>3. frames = <<>> /\ ~Due /\ iff = TRUE
    BY <2>2 DEF LateInv, Stack, Due
  <2>4. PICK n \in Lines \cup {7, 15} :
          /\ frames' = Append(frames, Frame(n, "eoi"))
          /\ n = IRQ_TIMER => n \in irr
          /\ n = IRQ_TIMER => n \notin irr'
          /\ n # IRQ_TIMER => (IRQ_TIMER \in irr' <=> IRQ_TIMER \in irr)
    <3>1. CASE \E n \in Lines : Accept(n)
      BY <3>1 DEF Accept
    <3>2. CASE \E n \in {7, 15} : Spurious(n)
      BY <3>2 DEF Spurious, IRQ_TIMER
    <3> QED BY <1>3, <3>1, <3>2 DEF Interrupted
  <2> DEFINE f == Frame(n, "eoi")
  <2>5. f \in FrameRecords /\ f.saved = TRUE /\ f.line = n /\ f.at = "eoi"
    BY <2>3 DEF Frame, FrameRecords
  <2>6. frames' = <<f>>
    BY <2>3, <2>4
  <2> HIDE DEF f
  <2>7. Stack' /\ frames' # <<>> /\ Top' = f
    BY <2>2, <2>5, <2>6 DEF Stack, Top
  <2>8. Places'
    <3>1. main # "program"
      BY <2>3 DEF LateInv, Places
    <3> QED BY <2>1, <2>7, <3>1 DEF Places
  <2>9. Due' <=> n = IRQ_TIMER
    BY <2>5, <2>7 DEF Due
  <2>10. OneTick' /\ (Coming' <=> Coming)
    <3>1. CASE n = IRQ_TIMER
      <4>1. IRQ_TIMER \in irr /\ IRQ_TIMER \notin irr'
        BY <2>4, <3>1
      <4>2. Coming /\ ~settled
        BY <4>1 DEF LateInv, OneTick, Coming
      <4> QED BY <2>1, <2>9, <3>1, <4>1, <4>2 DEF OneTick, Coming
    <3>2. CASE n # IRQ_TIMER
      BY <2>1, <2>3, <2>4, <2>9, <3>2 DEF LateInv, OneTick, Coming
    <3> QED BY <3>1, <3>2
  <2> QED BY <2>1, <2>7, <2>8, <2>10, PunctualKept DEF LateInv, OneTick
<1>4. CASE HandlerStep
  <2>1. /\ main' = main /\ ticks' = ticks /\ call' = call /\ nap' = nap
        /\ elapsed' = elapsed /\ settled' = settled /\ irr' = irr /\ frames # <<>>
    BY <1>4 DEF HandlerStep, timerVars, EndOfInterrupt, Return, Running
  <2>2. main # "program" /\ main # "halted"
    BY <2>1 DEF LateInv, Places
  <2>3. Stack' /\ (Due' <=> Due) /\ (frames' = <<>> => iff' = TRUE)
    <3>1. CASE EndOfInterrupt
      <4>1. Top.at = "eoi" /\ Resume("handler") /\ iff' = iff
        BY <3>1 DEF EndOfInterrupt, Running
      <4>2. /\ Stack' /\ frames' # <<>>
            /\ Top'.at = "handler" /\ Top'.line = Top.line
        BY <2>1, <4>1, StackStep DEF LateInv
      <4> QED BY <2>1, <4>1, <4>2 DEF Due
    <3>2. CASE Return
      <4>1. PICK f \in FrameRecords : frames = <<f>> /\ f.saved = TRUE
        BY <2>1 DEF LateInv, Stack
      <4>2. Top = f /\ frames' = <<>>
        BY <3>2, <4>1, OneOnStack DEF Return
      <4>3. iff' = TRUE /\ Top.at = "return"
        BY <3>2, <4>1, <4>2 DEF Return, Restored, Running
      <4> QED BY <4>2, <4>3 DEF Stack, Due
    <3> QED BY <1>4, <3>1, <3>2 DEF HandlerStep
  <2>4. Places'
    BY <2>1, <2>2, <2>3 DEF Places
  <2>5. OneTick' /\ (Coming' <=> Coming)
    BY <2>1, <2>3 DEF LateInv, OneTick, Coming
  <2> QED BY <2>1, <2>3, <2>4, <2>5, PunctualKept DEF LateInv, OneTick
<1>5. CASE OtherHandled
  <2>1. /\ main' = main /\ ticks' = ticks /\ call' = call /\ nap' = nap
        /\ elapsed' = elapsed /\ settled' = settled /\ irr' = irr /\ iff' = iff
        /\ frames # <<>> /\ Top.line # IRQ_TIMER /\ Resume("return")
    BY <1>5 DEF OtherHandled, timerVars, CallHandler, Running
  <2>2. Stack' /\ frames' # <<>> /\ Top'.line = Top.line
    BY <2>1, StackStep DEF LateInv
  <2>3. Places'
    BY <2>1, <2>2 DEF LateInv, Places
  <2>4. ~Due /\ ~Due'
    BY <2>1, <2>2 DEF Due
  <2>5. OneTick' /\ (Coming' <=> Coming)
    BY <2>1, <2>4 DEF LateInv, OneTick, Coming
  <2> QED BY <2>1, <2>2, <2>3, <2>5, PunctualKept DEF LateInv, OneTick
<1>6. CASE TickHandled
  <2>1. /\ main' = main /\ ticks' = (ticks + 1) % TickLimit /\ call' = call /\ nap' = nap
        /\ settled' = settled /\ irr' = irr /\ iff' = iff
        /\ frames # <<>> /\ Top.line = IRQ_TIMER /\ Top.at = "handler" /\ Resume("return")
    BY <1>6 DEF TickHandled, timer_callback, CallHandler, Running
  <2>2. Stack' /\ frames' # <<>> /\ Top'.at = "return"
    BY <2>1, StackStep DEF LateInv
  <2>3. Places'
    BY <2>1, <2>2 DEF LateInv, Places
  <2>4. Due /\ Coming /\ ~Due' /\ IRQ_TIMER \notin irr /\ ~settled
    BY <2>1, <2>2 DEF LateInv, OneTick, Coming, Due
  <2>5. OneTick' /\ ~Coming'
    BY <2>1, <2>4 DEF OneTick, Coming
  <2>6. ASSUME InTime' PROVE Punctual'
    <3>1. InTime /\ main # "halted"
      BY <2>1, <2>6 DEF InTime, Sleeping, Reached, LateInv, Places
    <3>2. /\ elapsed <= ticks - (nap.target - nap.asked)
          /\ main = "test" => ticks <= nap.target
          /\ main = "hlt" => ticks < nap.target
          /\ ticks <= nap.target
      BY <1>t, <2>4, <3>1 DEF LateInv, Punctual, InTime, Sleeping
    <3>3. ticks + 1 \in 0..(TickLimit - 1)
      BY <1>t, <3>1, <3>2 DEF InTime
    <3>4. ticks' = ticks + 1
      BY <2>1, <3>3
    <3>5. elapsed' <= elapsed + 1 /\ elapsed' \in Int
      BY <1>6, <1>t DEF TickHandled, timer_callback
    <3>6. elapsed' <= ticks' - (nap.target - nap.asked)
      BY <1>t, <3>2, <3>4, <3>5
    <3>7. /\ main = "test" => ticks' <= nap.target + 1
          /\ main = "hlt" => ticks' <= nap.target
      BY <1>t, <3>2, <3>4
    <3> QED BY <2>1, <2>4, <2>5, <3>1, <3>6, <3>7 DEF Punctual
  <2> QED BY <2>2, <2>3, <2>5, <2>6 DEF LateInv, Punctual
<1>7. CASE \E freq \in Freqs : SetFreq(freq)
  <2> PICK freq \in Freqs : SetFreq(freq)
    BY <1>7
  <2>1. /\ frames = <<>> /\ frames' = frames /\ irr' = irr /\ settled' = settled
        /\ main \in {"boot", "idle"} /\ main' = "program" /\ iff' = FALSE
        /\ call'.back = main /\ call'.flag = iff
    BY DEF SetFreq, MainRuns
  <2>2. Stack' /\ Places'
    BY <2>1 DEF LateInv, Stack, Places
  <2>3. Due' <=> Due
    BY <2>1 DEF Due
  <2>4. OneTick'
    BY <2>1, <2>3 DEF LateInv, OneTick, Coming
  <2>5. Punctual'
    BY <2>1 DEF Punctual, InTime, Sleeping
  <2> QED BY <2>2, <2>4, <2>5 DEF LateInv
<1>8. CASE EnableInterrupts \/ Program
  <2>1. /\ frames = <<>> /\ frames' = frames /\ irr' = irr /\ settled' = settled
        /\ main' \in {"boot", "idle"} /\ call' = call
        /\ main' = "idle" => iff' = TRUE
    BY <1>8 DEF EnableInterrupts, Program, Popped, MainRuns, LateInv, Places, SleepInv
  <2>2. Stack' /\ Places'
    BY <2>1 DEF Stack, Places
  <2>3. Due' <=> Due
    BY <2>1 DEF Due
  <2>4. OneTick'
    BY <2>1, <2>3 DEF LateInv, OneTick, Coming
  <2>5. Punctual'
    BY <2>1 DEF Punctual, InTime, Sleeping
  <2> QED BY <2>2, <2>4, <2>5 DEF LateInv
<1>9. ASSUME (\E n \in Asks : Sleep(n)) \/ Test \/ Halt
      PROVE  /\ Stack' /\ OneTick' /\ Places' /\ ~Coming /\ ~Coming'
  <2>1. /\ frames = <<>> /\ frames' = frames /\ irr' = irr /\ iff' = iff
        /\ main \in {"idle", "test", "hlt"} /\ main' \in {"idle", "test", "hlt", "halted"}
        /\ iff => irr = {}
    BY <1>9 DEF Sleep, Test, Halt, MainRuns, intVars
  <2>2. iff = TRUE /\ irr = {}
    BY <2>1 DEF LateInv, Places
  <2>3. ~Due /\ ~Due'
    BY <2>1 DEF Due
  <2>4. Stack' /\ Places'
    BY <2>1, <2>2 DEF Stack, Places
  <2> QED BY <2>1, <2>2, <2>3, <2>4 DEF OneTick, Coming
<1>10. CASE \E n \in Asks : Sleep(n)
  <2> PICK n \in Asks : Sleep(n)
    BY <1>10
  <2>1. /\ ticks' = ticks /\ elapsed' = 0 /\ main' = "test"
        /\ nap' = [asked |-> n, target |-> (ticks + n) % TickLimit]
    BY DEF Sleep, Target
  <2>2. n \in 0..(TickLimit - 1)
    OBVIOUS
  <2>3. n <= (ticks + n) % TickLimit => (ticks + n) % TickLimit = ticks + n
    BY <1>t, <2>2
  <2>4. Reached' => nap'.target = ticks + n /\ nap'.asked = n
    BY <2>1, <2>3 DEF Reached
  <2>5. ASSUME InTime' PROVE Punctual'
    <3>1. nap'.target = ticks + n /\ nap'.asked = n
      BY <2>4, <2>5 DEF InTime
    <3>2. elapsed' <= ticks' - (nap'.target - nap'.asked) /\ ticks' <= nap'.target /\ ticks' <= nap'.target + 1
      BY <1>t, <2>1, <2>2, <3>1
    <3> QED BY <2>1, <3>2 DEF Punctual
  <2> QED BY <1>9, <1>10, <2>5 DEF LateInv, Punctual
<1>11. CASE Test
  <2>1. /\ ticks' = ticks /\ elapsed' = elapsed /\ nap' = nap /\ main = "test"
        /\ main' = IF ticks < nap.target THEN "hlt" ELSE "idle"
    BY <1>11 DEF Test, Waiting
  <2>2. ASSUME InTime' PROVE Punctual'
    <3>1. main' = "hlt" /\ ticks < nap.target /\ InTime
      BY <2>1, <2>2 DEF InTime, Sleeping, Reached
    <3>2. elapsed <= ticks - (nap.target - nap.asked)
      BY <3>1 DEF LateInv, Punctual
    <3> QED BY <1>t, <2>1, <3>1, <3>2 DEF Punctual
  <2> QED BY <1>9, <1>11, <2>2 DEF LateInv, Punctual
<1>12. CASE Halt
  <2>1. /\ ticks' = ticks /\ elapsed' = elapsed /\ nap' = nap /\ settled' = settled
        /\ main = "hlt" /\ main' = "halted"
    BY <1>12 DEF Halt
  <2>2. ASSUME InTime' PROVE Punctual'
    <3>1. InTime
      BY <2>1, <2>2 DEF InTime, Sleeping, Reached
    <3>2. /\ elapsed <= ticks - (nap.target - nap.asked)
          /\ ticks <= nap.target
          /\ settled => ticks < nap.target
      BY <2>1, <3>1 DEF LateInv, Punctual
    <3> QED BY <2>1, <3>2 DEF Punctual
  <2> QED BY <1>9, <1>12, <2>2 DEF LateInv, Punctual
<1>13. CASE UNCHANGED vars
  <2>1. /\ main' = main /\ ticks' = ticks /\ call' = call /\ nap' = nap
        /\ elapsed' = elapsed /\ settled' = settled /\ irr' = irr
        /\ iff' = iff /\ frames' = frames
    BY <1>13 DEF vars, timerVars, intVars
  <2>2. Stack' /\ Places'
    BY <2>1 DEF LateInv, Stack, Places
  <2>3. Due' <=> Due
    BY <2>1 DEF Due, Top
  <2>4. OneTick' /\ (Coming' <=> Coming)
    BY <2>1, <2>3 DEF LateInv, OneTick, Coming
  <2> QED BY <2>1, <2>2, <2>4, PunctualKept DEF LateInv, OneTick
<1> QED BY <1>1, <1>2, <1>3, <1>4, <1>5, <1>6, <1>7, <1>8, <1>10, <1>11, <1>12, <1>13
        DEF TimerNext, MainStep

(***************************************************************************)
(* sleep(n) returns at most one tick after its n ticks (PIT.c:84-93): the  *)
(* tick that comes between the test and the hlt is seen at the next one.   *)
(***************************************************************************)
THEOREM SleepIsNotLong == TimerSpec => SleepNotLong
<1>1. TimerInit => LateInv
  <2>1. TimerInit => SleepInv
    BY TickAssumption DEF TimerInit, SleepInv, Underway, Sleeping, NoCall
  <2>2. TimerInit => Stack /\ Places /\ OneTick /\ Punctual
    BY DEF TimerInit, Stack, Places, OneTick, Coming, Due, Punctual, InTime, Sleeping
  <2> QED BY <2>1, <2>2 DEF LateInv
<1>2. LateInv /\ SleepInv' /\ [TimerNext]_vars => LateInv'
  BY LateStep
<1>3. LateInv /\ [TimerNext]_vars
        => [Returns /\ Reached /\ nap.target # TickLimit - 1 => elapsed <= nap.asked + 1]_vars
  <2> SUFFICES ASSUME LateInv, [TimerNext]_vars, Returns, Reached,
                      nap.target # TickLimit - 1
               PROVE  elapsed <= nap.asked + 1
    OBVIOUS
  <2>1. main = "test" /\ InTime
    BY ReturnIsTest DEF Test, InTime, Returns
  <2>2. elapsed <= ticks - (nap.target - nap.asked) /\ ticks <= nap.target + 1
    BY <2>1 DEF LateInv, Punctual
  <2>3. /\ nap.asked \in 0..Watch /\ nap.target \in 0..(TickLimit - 1)
        /\ elapsed \in 0..Watch /\ ticks \in 0..(TickLimit - 1)
    BY DEF LateInv, SleepInv
  <2> QED BY <2>2, <2>3, TickAssumption
<1> QED BY <1>1, <1>2, <1>3, SleepInvariance, PTL DEF TimerSpec, SleepNotLong
=============================================================================
