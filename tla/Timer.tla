-------------------------------- MODULE Timer --------------------------------
(***************************************************************************)
(* PIT.c: the tick counter, its interrupt handler, PIT_set_timer_freq and  *)
(* sleep, on top of the interrupt path of Interrupts.  The kernel's main   *)
(* thread boots with interrupts masked, enables them, and from then on     *)
(* sleeps or reprograms the timer whenever it likes.                       *)
(***************************************************************************)
EXTENDS Interrupts

CONSTANTS
  TickLimit,  \* _ticks counts modulo this: 2^32
  PIT_FREQ,   \* the timer's input clock in Hertz
  DivLimit,   \* the divisor is kept modulo this: 2^16
  Asks,       \* arguments of sleep
  Freqs,      \* arguments of PIT_set_timer_freq
  Watch       \* bound on the ticks counted during one sleep

ASSUME TickAssumption == TickLimit \in Nat \ {0} /\ Watch \in Nat
ASSUME AsksAssumption == Asks \subseteq 0..(TickLimit - 1) /\ Asks \subseteq 0..Watch
ASSUME PitAssumption == /\ PIT_FREQ \in Nat /\ DivLimit \in Nat \ {0}
                        /\ Freqs \subseteq Nat

IRQ_TIMER == 0

VARIABLES
  ticks,      \* _ticks
  divisor,    \* the reload value in the timer
  main,       \* where the main thread is
  call,       \* what PIT_set_timer_freq was called with: its argument, the
              \* place it returns to, the flags it pushed
  nap,        \* the sleep in progress: its argument and target_ticks
  elapsed,    \* ticks since the last sleep began (history, at most Watch)
  settled     \* the main thread has tested _ticks since the last tick

timerVars == <<ticks, divisor, main, call, nap, elapsed, settled>>
vars == <<intVars, timerVars>>

NoCall == [freq |-> 0, back |-> "boot", flag |-> FALSE]

TimerInit ==
  /\ irr = {} /\ isr = {} /\ frames = <<>>
  /\ iff = FALSE                       \* the cli of init_descriptor_tables
  /\ ticks = 0 /\ divisor = 0
  /\ main = "boot" /\ call = NoCall
  /\ nap = [asked |-> 0, target |-> 0]
  /\ elapsed = 0 /\ settled = TRUE

\* The handler; what it shows on the screen is left out.
timer_callback ==
  /\ ticks' = (ticks + 1) % TickLimit
  /\ elapsed' = IF elapsed < Watch THEN elapsed + 1 ELSE elapsed
  /\ UNCHANGED <<divisor, main, call, nap, settled>>

TickHandled == CallHandler(IRQ_TIMER) /\ timer_callback
OtherHandled == /\ \E n \in (Lines \cup {7, 15}) \ {IRQ_TIMER} : CallHandler(n)
                /\ UNCHANGED timerVars

(***************************************************************************)
(* The timer and the other devices.  A period of the timer is longer than  *)
(* the handlers and one turn of the loop in sleep together (at 88 Hz it is *)
(* 11 ms): it does not raise its line a second time before the main thread *)
(* has looked at _ticks or is halted again.                                *)
(***************************************************************************)
Rested == \/ settled
          \/ frames = <<>> /\ main \in {"boot", "idle", "halted"}

TimerRaises == /\ Rested
               /\ Raise(IRQ_TIMER)
               /\ settled' = FALSE
               /\ UNCHANGED <<ticks, divisor, main, call, nap, elapsed>>
DeviceRaises == /\ \E n \in Lines \ {IRQ_TIMER} : Raise(n)
                /\ UNCHANGED timerVars

\* Any interrupt ends a hlt, and sleep goes back to its test.
Interrupted == /\ \/ \E n \in Lines : Accept(n)
                  \/ \E n \in {7, 15} : Spurious(n)
               /\ main' = IF main = "halted" THEN "test" ELSE main
               /\ UNCHANGED <<ticks, divisor, call, nap, elapsed, settled>>

HandlerStep == /\ EndOfInterrupt \/ Return
               /\ UNCHANGED timerVars

(***************************************************************************)
(* PIT_set_timer_freq, in PIT_init at boot and later.                      *)
(***************************************************************************)
\* The processor looks for interrupts before every instruction.
MainRuns == frames = <<>> /\ (iff => irr = {})

SetFreq(freq) ==
  /\ MainRuns /\ main \in {"boot", "idle"}
  /\ freq # 0
  /\ call' = [freq |-> freq, back |-> main, flag |-> iff]   \* pushfd
  /\ iff' = FALSE                                           \* cli
  /\ main' = "program"
  /\ UNCHANGED <<irr, isr, frames, ticks, divisor, nap, elapsed, settled>>

Divisor(freq) == (PIT_FREQ \div freq) % DivLimit

Popped_Enabled(f) == TRUE
Popped(f) == f

Program ==
  /\ MainRuns /\ main = "program"
  /\ divisor' = Divisor(call.freq)
  /\ ticks' = 0
  /\ iff' = Popped(call.flag)                               \* popfd
  /\ main' = call.back
  /\ UNCHANGED <<irr, isr, frames, call, nap, elapsed, settled>>

\* The sti of _start_init, after everything is set up.
EnableInterrupts ==
  /\ MainRuns /\ main = "boot"
  /\ iff' = TRUE
  /\ main' = "idle"
  /\ UNCHANGED <<irr, isr, frames, ticks, divisor, call, nap, elapsed, settled>>

(***************************************************************************)
(* sleep: the loop tests _ticks, and only then halts.  A tick between the  *)
(* two is not lost, but it is seen one tick late.                          *)
(***************************************************************************)
Target(n) == (ticks + n) % TickLimit

Sleep(n) ==
  /\ MainRuns /\ main = "idle"
  /\ nap' = [asked |-> n, target |-> Target(n)]
  /\ main' = "test"
  /\ elapsed' = 0
  /\ UNCHANGED <<intVars, ticks, divisor, call, settled>>

Waiting_Early == ticks + 1 < nap.target
Waiting_OneMore == ticks <= nap.target
Waiting_NotEqual == ticks # nap.target
Waiting == ticks < nap.target

Test ==
  /\ MainRuns /\ main = "test"
  /\ main' = IF Waiting THEN "hlt" ELSE "idle"
  /\ settled' = TRUE
  /\ UNCHANGED <<intVars, ticks, divisor, call, nap, elapsed>>

Halt ==
  /\ MainRuns /\ main = "hlt"
  /\ main' = "halted"
  /\ UNCHANGED <<intVars, ticks, divisor, call, nap, elapsed, settled>>

MainStep == Test \/ Halt \/ Program

TimerNext ==
  \/ TimerRaises \/ DeviceRaises \/ Interrupted \/ HandlerStep
  \/ TickHandled \/ OtherHandled
  \/ \E freq \in Freqs : SetFreq(freq)
  \/ EnableInterrupts
  \/ \E n \in Asks : Sleep(n)
  \/ MainStep

(***************************************************************************)
(* The timer is periodic, handlers run to their end, and the main thread   *)
(* gets to run between interrupts.                                         *)
(***************************************************************************)
TimerFairness ==
  /\ WF_vars(TimerRaises)
  /\ WF_vars(Interrupted) /\ WF_vars(HandlerStep)
  /\ WF_vars(TickHandled) /\ WF_vars(OtherHandled)
  /\ SF_vars(MainStep)

TimerSpec == TimerInit /\ [][TimerNext]_vars /\ TimerFairness

-----------------------------------------------------------------------------
Sleeping == main \in {"test", "hlt", "halted"}
Returns == Sleeping /\ main' = "idle"

\* The end of the sleep is a number that _ticks reaches before it wraps.
Reached == nap.asked <= nap.target

TimerTypeOK ==
  /\ TypeOK
  /\ ticks \in 0..(TickLimit - 1)
  /\ divisor \in 0..(DivLimit - 1)
  /\ main \in {"boot", "idle", "program", "test", "hlt", "halted"}
  /\ call.freq \in Freqs \cup {0} /\ call.back \in {"boot", "idle"}
  /\ call.flag \in BOOLEAN
  /\ nap.asked \in Asks \cup {0} /\ nap.target \in 0..(TickLimit - 1)
  /\ elapsed \in 0..Watch /\ settled \in BOOLEAN

(***************************************************************************)
(* Nothing interrupts the boot code before it is ready for it, although    *)
(* PIT_set_timer_freq, which it calls, touches the flag.                   *)
(***************************************************************************)
BootIsMasked == main = "boot" => iff = FALSE /\ frames = <<>>

(***************************************************************************)
(* sleep(n) lasts n ticks, whatever other interrupts end its hlt, ...      *)
(***************************************************************************)
SleepNotShort == [][Returns /\ Reached => elapsed >= nap.asked]_vars

(***************************************************************************)
(* ... and at most one more: a tick that comes between the test and the    *)
(* hlt is noticed at the next one.  (Only when _ticks can be seen beyond   *)
(* the target: a sleep until the last number before it wraps may go on for *)
(* another round.)                                                         *)
(***************************************************************************)
SleepNotLong ==
  [][Returns /\ Reached /\ nap.target # TickLimit - 1
       => elapsed <= nap.asked + 1]_vars

\* (The main thread runs again and again: interrupts do not take all the time.)
SleepEnds == []<>MainRuns =>
             (Sleeping /\ nap.target # TickLimit - 1 ~> main = "idle")
=============================================================================
