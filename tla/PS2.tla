--------------------------------- MODULE PS2 ---------------------------------
(***************************************************************************)
(* The 8042 controller with its keyboard and mouse (external), and         *)
(* PS2_init of drivers/ps2.c, which talks to them with interrupts off.     *)
(* Some answers are polled for and some are read as if they were there:    *)
(* every byte takes its own time, and the program may be too early.        *)
(***************************************************************************)
EXTENDS Integers, Sequences

CONSTANTS Sets,     \* the scancode sets the keyboard may start with
          Leftover  \* the byte the boot loader may leave in the buffer

ASSUME SetAssumption == Sets \subseteq 1 .. 3 /\ Leftover \in 3 .. 255

VARIABLES
  pc,        \* "init", "up" or "panic"
  todo,      \* what PS2_init has left to do
  cfg,       \* its copy of the configuration byte
  machine,   \* is there a keyboard, a second port? does the self test reset
             \* the configuration?
  config,    \* the configuration byte
  expecting, \* where the next byte written to the data port goes
  keyboard,  \* its scancode set; whether F0h waits for a parameter
  reporting, \* the mouse reports what it does
  out,       \* the output buffer: a byte, its source, and whether it is new
  sent,      \* bytes on their way to it
  requests,  \* interrupt requests of the two ports
  late,      \* an answer was read before it came (history)
  early      \* a key was hit before PS2_init was done (history)

controller == <<machine, config, expecting, keyboard, reporting>>
driver == <<pc, todo, cfg>>
wires == <<out, sent, requests>>
history == <<late, early>>

-----------------------------------------------------------------------------
(***************************************************************************)
(* Bytes.                                                                  *)
(***************************************************************************)
ACK == 250
SCANCODE == 240
RESET == 255
SCALING1_1 == 230
RESOLUTION == 232
SAMPLE_RATE == 243
REPORTING == 244
SELF_TEST_OK == 170
CTRL_TEST_OK == 85
GET_SCANCODE == 0
SET_SCANCODE2 == 2

Bits(b, mask) == (b \div mask) % 2 = 1
SetBit(b, mask) == IF Bits(b, mask) THEN b ELSE b + mask
ClearBit(b, mask) == IF Bits(b, mask) THEN b - mask ELSE b

\* Bits of the configuration byte.
Int1 == 1
Int2 == 2
Off1 == 16
Off2 == 32
Translate == 64

-----------------------------------------------------------------------------
(***************************************************************************)
(* What PS2_init does, in order.  "read" drops what it reads, "expect"     *)
(* panics unless it is that byte, and "ack" polls before it looks.         *)
(***************************************************************************)
Command(c) == <<<<"command", c>>>>
SendAck(d) == <<<<"data", d>>, <<"ack", ACK>>>>
Mouse(d) == Command("WRITE_PORT2") \o SendAck(d)
WriteCfg == Command("WRITE_CFG") \o <<<<"write_cfg", 0>>>>

scancode_set(set) == SendAck(SCANCODE) \o SendAck(set)
reset_device_NoId == SendAck(RESET) \o <<<<"expect", SELF_TEST_OK>>>>
reset_device == SendAck(RESET) \o <<<<"expect", SELF_TEST_OK>>, <<"read", 0>>, <<"read", 0>>>>

Detect ==
  Command("DISABLE_PORT1") \o Command("DISABLE_PORT2") \o <<<<"read", 0>>>>
  \o Command("READ_CFG") \o <<<<"read_cfg", 0>>>> \o WriteCfg
  \o Command("TEST") \o <<<<"expect", CTRL_TEST_OK>>>>
  \o Command("ENABLE_PORT2") \o Command("READ_CFG") \o <<<<"detect", 0>>>>

TestPort(c) == Command(c) \o <<<<"expect", 0>>>>

EnableDevices_NoWrite(has_port2) ==
  Command("ENABLE_PORT1") \o (IF has_port2 THEN Command("ENABLE_PORT2") ELSE << >>)
EnableDevices(has_port2) ==
  Command("ENABLE_PORT1") \o <<<<"or_cfg", Int1>>>>
  \o (IF has_port2 THEN Command("ENABLE_PORT2") \o <<<<"or_cfg", Int2>>>> ELSE << >>)
  \o WriteCfg

Settle(has_port2) ==
  (IF has_port2 THEN Command("DISABLE_PORT2") \o WriteCfg ELSE << >>)
  \o TestPort("TEST_PORT1")
  \o (IF has_port2 THEN TestPort("TEST_PORT2") ELSE << >>)
  \o scancode_set(SET_SCANCODE2)
  \o scancode_set(GET_SCANCODE) \o <<<<"expect", SET_SCANCODE2>>>>
  \o reset_device
  \o (IF has_port2
      THEN Command("WRITE_PORT2") \o reset_device
           \o Mouse(SCALING1_1) \o Mouse(RESOLUTION) \o Mouse(0)
           \o Mouse(SAMPLE_RATE) \o Mouse(20) \o Mouse(REPORTING)
      ELSE << >>)
  \o EnableDevices(has_port2)

-----------------------------------------------------------------------------
(***************************************************************************)
(* The controller and the devices.                                         *)
(***************************************************************************)
Say(src, bytes) == sent' = [sent EXCEPT ![src] = @ \o bytes]

Configured(c) ==
  CASE c = "DISABLE_PORT1" -> SetBit(config, Off1)
    [] c = "ENABLE_PORT1" -> ClearBit(config, Off1)
    [] c = "DISABLE_PORT2" -> SetBit(config, Off2)
    [] c = "ENABLE_PORT2" /\ machine.port2 -> ClearBit(config, Off2)
    [] c = "TEST" /\ machine.resets -> Translate + Off2 + Int1
    [] OTHER -> config

Answer(c) ==
  CASE c = "READ_CFG" -> <<config>>
    [] c = "TEST" -> <<CTRL_TEST_OK>>
    [] c \in {"TEST_PORT1", "TEST_PORT2"} -> <<0>>
    [] OTHER -> << >>

TakeCommand(c) ==
  /\ config' = Configured(c)
  /\ expecting' = CASE c = "WRITE_CFG" -> "config"
                    [] c = "WRITE_PORT2" -> "mouse"
                    [] OTHER -> "keyboard"
  /\ Say("controller", Answer(c))
  /\ UNCHANGED <<machine, keyboard, reporting>>

TakeConfig(d) == config' = d /\ UNCHANGED <<keyboard, reporting, sent>>

TakeKeyboard(d) ==
  /\ keyboard' = [set |-> IF d = RESET THEN SET_SCANCODE2
                          ELSE IF keyboard.waits /\ d # GET_SCANCODE THEN d ELSE keyboard.set,
                  waits |-> d = SCANCODE]
  /\ Say("keyboard", CASE ~machine.keyboard -> << >>
                       [] d = RESET -> <<ACK, SELF_TEST_OK>>
                       [] keyboard.waits /\ d = GET_SCANCODE -> <<ACK, keyboard.set>>
                       [] OTHER -> <<ACK>>)
  /\ UNCHANGED <<config, reporting>>

TakeMouse(d) ==
  /\ reporting' = (d = REPORTING)
  /\ Say("mouse", IF d = RESET THEN <<ACK, SELF_TEST_OK, 0>> ELSE <<ACK>>)
  /\ UNCHANGED <<config, keyboard>>

TakeData(d) ==
  /\ CASE expecting = "config" -> TakeConfig(d)
       [] expecting = "mouse" -> TakeMouse(d)
       [] expecting = "keyboard" -> TakeKeyboard(d)
  /\ expecting' = "keyboard"
  /\ UNCHANGED machine

(***************************************************************************)
(* The next byte reaches the output buffer when that is empty; a byte of a *)
(* device asks for its interrupt.  Translation mangles the keyboard's.     *)
(***************************************************************************)
Translated(b) == IF Bits(config, Translate) /\ b = SET_SCANCODE2 THEN 60 ELSE b

Connected(src) == CASE src = "keyboard" -> ~Bits(config, Off1)
                    [] src = "mouse" -> ~Bits(config, Off2)
                    [] OTHER -> TRUE

Interrupts(src) == CASE src = "keyboard" -> Bits(config, Int1)
                     [] src = "mouse" -> Bits(config, Int2)
                     [] OTHER -> FALSE

Arriving == {src \in DOMAIN sent : sent[src] # << >> /\ Connected(src)}

Deliver ==
  /\ ~out.new
  /\ \E src \in Arriving :
       /\ out' = [src |-> src, new |-> TRUE,
                  byte |-> IF src = "keyboard" THEN Translated(Head(sent[src])) ELSE Head(sent[src])]
       /\ sent' = [sent EXCEPT ![src] = Tail(@)]
       /\ requests' = IF Interrupts(src) THEN requests \cup {src} ELSE requests
  /\ UNCHANGED <<controller, driver, history>>

(***************************************************************************)
(* Reading the data port: the last byte again when there is no new one.    *)
(* The request of a byte that is read away may fall or stay.               *)
(***************************************************************************)
ReadData ==
  /\ out' = [out EXCEPT !.new = FALSE]
  /\ requests' \in {requests, requests \ {out.src}}
  /\ UNCHANGED <<controller, sent>>
Early == ~out.new /\ Arriving # {}

-----------------------------------------------------------------------------
(***************************************************************************)
(* PS2_init, one access of a port at a time.                               *)
(***************************************************************************)
Do(op) == pc = "init" /\ todo # << >> /\ Head(todo)[1] = op
Arg == Head(todo)[2]
GoOn == todo' = Tail(todo) /\ pc' = pc
KERNEL_PANIC == pc' = "panic" /\ UNCHANGED todo

SendCommand == /\ Do("command") /\ GoOn
               /\ TakeCommand(Arg)
               /\ UNCHANGED <<cfg, out, requests, history>>

SendData == /\ Do("data") /\ GoOn
            /\ TakeData(Arg)
            /\ UNCHANGED <<cfg, out, requests, history>>

SendConfig == /\ Do("write_cfg") /\ GoOn
              /\ TakeData(cfg)
              /\ UNCHANGED <<cfg, out, requests, history>>

OrConfig == /\ Do("or_cfg") /\ GoOn
            /\ cfg' = SetBit(cfg, Arg)
            /\ UNCHANGED <<controller, wires, history>>

PollAck == /\ Do("ack") /\ out.new
           /\ ReadData
           /\ IF out.byte = Arg THEN GoOn ELSE KERNEL_PANIC
           /\ UNCHANGED <<cfg, history>>

PollTimesOut_Never == Do("ack") /\ ~out.new /\ Arriving = {} /\ UNCHANGED <<driver, controller, wires, history>>
PollTimesOut == /\ Do("ack") /\ ~out.new /\ Arriving = {}
                /\ KERNEL_PANIC
                /\ UNCHANGED <<cfg, controller, wires, history>>

Read == /\ Do("read") /\ GoOn
        /\ ReadData /\ late' = (late \/ Early)
        /\ UNCHANGED <<cfg, early>>

Expect == /\ Do("expect")
          /\ ReadData /\ late' = (late \/ Early)
          /\ IF out.byte = Arg THEN GoOn ELSE KERNEL_PANIC
          /\ UNCHANGED <<cfg, early>>

ReadConfig == /\ Do("read_cfg") /\ GoOn
              /\ ReadData /\ late' = (late \/ Early)
              /\ cfg' = ClearBit(ClearBit(ClearBit(out.byte, Int1), Translate), Off1)
              /\ UNCHANGED early

DetectPort2 ==
  LET has_port2 == ~Bits(out.byte, Off2)
  IN /\ Do("detect")
     /\ ReadData /\ late' = (late \/ Early)
     /\ cfg' = IF has_port2 THEN ClearBit(ClearBit(out.byte, Int2), Off2) ELSE out.byte
     /\ todo' = Settle(has_port2)
     /\ UNCHANGED <<pc, early>>

\* The handlers are registered, and later interrupts are enabled.
InitDone == /\ pc = "init" /\ todo = << >>
            /\ pc' = "up"
            /\ UNCHANGED <<todo, cfg, controller, wires, history>>

PS2_init == \/ SendCommand \/ SendData \/ SendConfig \/ OrConfig
            \/ PollAck \/ PollTimesOut
            \/ Read \/ Expect \/ ReadConfig \/ DetectPort2 \/ InitDone

\* PIC_init has run and cleared the requests latched before.
ControllerInit ==
  /\ machine \in [keyboard : BOOLEAN, port2 : BOOLEAN, resets : BOOLEAN]
  /\ config = Translate + Int1 + Off2
  /\ expecting = "keyboard"
  /\ keyboard \in [set : Sets, waits : {FALSE}]
  /\ reporting = FALSE
  /\ out \in [src : {"keyboard"}, new : BOOLEAN, byte : {Leftover}]
  /\ sent = [src \in {"controller", "keyboard", "mouse"} |-> << >>]
  /\ requests = {}

DriverInit == pc = "init" /\ todo = Detect /\ cfg = 0 /\ late = FALSE /\ early = FALSE
=============================================================================
