--------------------------- MODULE Keyboard_proofs ---------------------------
(***************************************************************************)
(* Proofs about drivers/ps2.c, for every set of keys, length of the ring,  *)
(* number of key actions and movements, and every machine the controller   *)
(* may be part of.                                                         *)
(***************************************************************************)
EXTENDS Keyboard, SequenceTheorems, TLAPS

Bytes == 0 .. 255
Sources == {"controller", "keyboard", "mouse"}
Commands == {"DISABLE_PORT1", "DISABLE_PORT2", "READ_CFG", "WRITE_CFG", "TEST", "TEST_PORT1",
             "TEST_PORT2", "ENABLE_PORT1", "ENABLE_PORT2", "WRITE_PORT2"}

\* The operations PS2_init is made of.
Ops == ({"command"} \X Commands) \cup ({"data", "ack", "expect"} \X Bytes)
       \cup ({"read", "read_cfg", "write_cfg", "detect"} \X {0}) \cup ({"or_cfg"} \X {Int1, Int2})

WiresTyped ==
  /\ out \in [src : Sources, new : BOOLEAN, byte : Bytes]
  /\ sent \in [Sources -> Seq(Bytes)]
  /\ requests \subseteq {"keyboard", "mouse"}

ControllerTyped ==
  /\ machine \in [keyboard : BOOLEAN, port2 : BOOLEAN, resets : BOOLEAN]
  /\ config \in Bytes
  /\ expecting \in {"config", "mouse", "keyboard"}
  /\ keyboard \in [set : Bytes, waits : BOOLEAN]
  /\ reporting \in BOOLEAN

DriverTyped == pc \in {"init", "up", "panic"} /\ todo \in Seq(Ops) /\ cfg \in Bytes

HistoryTyped == late \in BOOLEAN /\ early \in BOOLEAN

HandlerTyped ==
  /\ handler \in {"none", "keyboard", "mouse0", "mouse1", "mouse2"}
  /\ queue \in Seq(Bytes) /\ Len(queue) <= RingSize
  /\ stolen \in BOOLEAN /\ full \in BOOLEAN

Modifiers == {"lshift", "rshift", "lctrl", "rctrl", "lalt", "ralt"}
DecoderTyped ==
  /\ key \in [scancode : {0}, released : BOOLEAN, extended : BOOLEAN]
  /\ mod \subseteq Modifiers
  /\ event.after \in Nat /\ event.at \in Nat
  /\ eaten \in Nat

Actions == [key : Keys, released : BOOLEAN, end : Nat]
UserTyped == moves \in Nat /\ held \subseteq Keys /\ acts \in Seq(Actions)

Typed == /\ WiresTyped /\ ControllerTyped /\ DriverTyped /\ HistoryTyped
         /\ HandlerTyped /\ DecoderTyped /\ UserTyped

-----------------------------------------------------------------------------
(***************************************************************************)
(* Bytes and their bits.                                                   *)
(***************************************************************************)
Masks == {Int1, Int2, Off1, Off2, Translate}

LEMMA BitKeepsByte ==
  ASSUME NEW b \in Bytes, NEW mask \in Masks
  PROVE  SetBit(b, mask) \in Bytes /\ ClearBit(b, mask) \in Bytes
<1>1. CASE mask = 1
  BY <1>1 DEF Bytes, SetBit, ClearBit, Bits
<1>2. CASE mask = 2
  BY <1>2 DEF Bytes, SetBit, ClearBit, Bits
<1>3. CASE mask = 16
  BY <1>3 DEF Bytes, SetBit, ClearBit, Bits
<1>4. CASE mask = 32
  BY <1>4 DEF Bytes, SetBit, ClearBit, Bits
<1>5. CASE mask = 64
  BY <1>5 DEF Bytes, SetBit, ClearBit, Bits
<1> QED BY <1>1, <1>2, <1>3, <1>4, <1>5 DEF Masks, Int1, Int2, Off1, Off2, Translate

(***************************************************************************)
(* The programs are sequences of operations.                               *)
(***************************************************************************)
LEMMA PiecesTyped ==
  /\ \A c \in Commands : Command(c) \in Seq(Ops)
  /\ \A d \in Bytes : SendAck(d) \in Seq(Ops)
  /\ \A d \in Bytes : <<<<"expect", d>>>> \in Seq(Ops)
  /\ \A op \in {"read", "read_cfg", "write_cfg", "detect"} : <<<<op, 0>>>> \in Seq(Ops)
  /\ \A m \in {Int1, Int2} : <<<<"or_cfg", m>>>> \in Seq(Ops)
<1>1. \A c \in Commands : Command(c) \in Seq(Ops)
  BY DEF Command, Ops
<1>2. \A d \in Bytes : SendAck(d) \in Seq(Ops)
  <2>1. ACK \in Bytes
    BY DEF ACK, Bytes
  <2> QED BY <2>1 DEF SendAck, Ops
<1>3. \A d \in Bytes : <<<<"expect", d>>>> \in Seq(Ops)
  BY DEF Ops
<1>4. \A op \in {"read", "read_cfg", "write_cfg", "detect"} : <<<<op, 0>>>> \in Seq(Ops)
  BY DEF Ops
<1>5. \A m \in {Int1, Int2} : <<<<"or_cfg", m>>>> \in Seq(Ops)
  BY DEF Ops
<1> QED BY <1>1, <1>2, <1>3, <1>4, <1>5
LEMMA Joined ==
  ASSUME NEW s \in Seq(Ops), NEW t \in Seq(Ops)
  PROVE  s \o t \in Seq(Ops)
BY ConcatProperties

LEMMA Reassociated ==
  ASSUME NEW s \in Seq(Ops), NEW t \in Seq(Ops), NEW u \in Seq(Ops)
  PROVE  (s \o t) \o u = s \o (t \o u)
BY ConcatAssociative

\* One operation, then the rest.
Then(op, r) == <<op>> \o r

LEMMA ThenIs ==
  ASSUME NEW op \in Ops, NEW r \in Seq(Ops)
  PROVE  /\ Then(op, r) \in Seq(Ops) /\ Then(op, r) # << >>
         /\ Head(Then(op, r)) = op /\ Tail(Then(op, r)) = r
<1>1. <<op>> \in Seq(Ops) /\ Len(<<op>>) = 1 /\ <<op>>[1] = op
  OBVIOUS
<1>2. /\ Then(op, r) \in Seq(Ops) /\ Len(Then(op, r)) = 1 + Len(r)
      /\ \A i \in 1 .. 1 + Len(r) : Then(op, r)[i] = IF i <= 1 THEN op ELSE r[i - 1]
  BY <1>1, ConcatProperties DEF Then
<1>3. Len(r) \in Nat
  OBVIOUS
<1>4. Then(op, r) # << >> /\ Head(Then(op, r)) = op
  BY <1>2, <1>3
<1>5. Tail(Then(op, r)) \in Seq(Ops) /\ Len(Tail(Then(op, r))) = Len(r)
      /\ \A i \in 1 .. Len(r) : Tail(Then(op, r))[i] = r[i]
  BY <1>2, <1>3, <1>4, HeadTailProperties
<1>6. Tail(Then(op, r)) = r
  BY <1>5, SeqEqual
<1> QED BY <1>2, <1>4, <1>6

\* What PS2_init sends: single operations.
Cmd(c) == <<"command", c>>
Data(d) == <<"data", d>>
Ack == <<"ack", ACK>>
Exp(d) == <<"expect", d>>
Drop == <<"read", 0>>
GetCfg == <<"read_cfg", 0>>
PutCfg == <<"write_cfg", 0>>
Or(mask) == <<"or_cfg", mask>>

LEMMA OpsAre ==
  /\ \A c \in Commands : Cmd(c) \in Ops
  /\ \A d \in Bytes : Data(d) \in Ops /\ Exp(d) \in Ops
  /\ Ack \in Ops /\ Drop \in Ops
  /\ PutCfg \in Ops /\ GetCfg \in Ops /\ <<"detect", 0>> \in Ops
  /\ Or(1) \in Ops /\ Or(2) \in Ops
<1>1. \A c \in Commands : Cmd(c) \in Ops
  BY DEF Cmd, Ops
<1>2. \A d \in Bytes : Data(d) \in Ops /\ Exp(d) \in Ops
  BY DEF Data, Exp, Ops
<1>3. Ack \in Ops
  BY DEF Ack, ACK, Ops, Bytes
<1>4. Drop \in Ops /\ PutCfg \in Ops /\ GetCfg \in Ops /\ <<"detect", 0>> \in Ops
  BY DEF Drop, PutCfg, GetCfg, Ops
<1>5. Or(1) \in Ops /\ Or(2) \in Ops
  BY DEF Or, Ops, Int1, Int2
<1> QED BY <1>1, <1>2, <1>3, <1>4, <1>5

\* A pair of operations.
LEMMA TwoIs ==
  ASSUME NEW a \in Ops, NEW b \in Ops, NEW r \in Seq(Ops)
  PROVE  <<a, b>> \o r = Then(a, Then(b, r))
<1>1. <<a>> \in Seq(Ops) /\ <<b>> \in Seq(Ops)
  OBVIOUS
<1>2. <<a, b>> = <<a>> \o <<b>>
  <2> DEFINE s == <<a, b>>
             t == <<a>> \o <<b>>
  <2>1. s \in Seq(Ops) /\ Len(s) = 2 /\ s[1] = a /\ s[2] = b
    OBVIOUS
  <2>2. Len(<<a>>) = 1 /\ Len(<<b>>) = 1 /\ <<a>>[1] = a /\ <<b>>[1] = b
    OBVIOUS
  <2>3. t \in Seq(Ops) /\ Len(t) = 2 /\ \A i \in 1 .. 2 : t[i] = IF i <= 1 THEN <<a>>[i] ELSE <<b>>[i - 1]
    BY <1>1, <2>2, ConcatProperties
  <2>4. t[1] = a /\ t[2] = b
    BY <2>2, <2>3
  <2> HIDE DEF s, t
  <2>5. \A i \in 1 .. Len(s) : s[i] = t[i]
    <3>1. \A i \in 1 .. 2 : i = 1 \/ i = 2
      OBVIOUS
    <3> QED BY <2>1, <2>4, <3>1
  <2>6. s = t
    BY <2>1, <2>3, <2>5, SeqEqual
  <2> QED BY <2>6 DEF s, t
<1> QED BY <1>1, <1>2, Reassociated DEF Then

LEMMA CommandIs ==
  ASSUME NEW c \in Commands, NEW r \in Seq(Ops)
  PROVE  Command(c) \o r = Then(Cmd(c), r)
BY DEF Command, Then, Cmd

LEMMA SendAckIs ==
  ASSUME NEW d \in Bytes, NEW r \in Seq(Ops)
  PROVE  SendAck(d) \o r = Then(Data(d), Then(Ack, r))
BY OpsAre, TwoIs DEF SendAck, Data, Ack

LEMMA MouseIs ==
  ASSUME NEW d \in Bytes, NEW r \in Seq(Ops)
  PROVE  Mouse(d) \o r = Then(Cmd("WRITE_PORT2"), Then(Data(d), Then(Ack, r)))
<1>0. "WRITE_PORT2" \in Commands
  BY DEF Commands
<1>1. Command("WRITE_PORT2") \in Seq(Ops) /\ SendAck(d) \in Seq(Ops)
  BY <1>0, PiecesTyped
<1>2. Mouse(d) \o r = Command("WRITE_PORT2") \o (SendAck(d) \o r) /\ SendAck(d) \o r \in Seq(Ops)
  BY <1>1, Reassociated, Joined DEF Mouse
<1> QED BY <1>0, <1>2, CommandIs, SendAckIs

LEMMA ResetIs ==
  ASSUME NEW r \in Seq(Ops)
  PROVE  reset_device \o r = Then(Data(RESET), Then(Ack, Then(Exp(SELF_TEST_OK), Then(Drop, Then(Drop, r)))))
<1>1. RESET \in Bytes /\ SELF_TEST_OK \in Bytes
  BY DEF RESET, SELF_TEST_OK, Bytes
<1> DEFINE a == Exp(SELF_TEST_OK)
           tail == <<a, Drop, Drop>>
<1>2. a \in Ops /\ Drop \in Ops /\ SendAck(RESET) \in Seq(Ops)
  BY <1>1, OpsAre, PiecesTyped
<1>3. tail = <<a>> \o <<Drop, Drop>> /\ <<a>> \in Seq(Ops) /\ <<Drop, Drop>> \in Seq(Ops) /\ tail \in Seq(Ops)
  <2> HIDE DEF a
  <2>1. <<a>> \in Seq(Ops) /\ <<Drop, Drop>> \in Seq(Ops) /\ tail \in Seq(Ops)
    BY <1>2
  <2>2. Len(<<a>>) = 1 /\ Len(<<Drop, Drop>>) = 2 /\ Len(tail) = 3
    OBVIOUS
  <2> DEFINE t == <<a>> \o <<Drop, Drop>>
  <2>3. t \in Seq(Ops) /\ Len(t) = 3
        /\ \A i \in 1 .. 3 : t[i] = IF i <= 1 THEN <<a>>[i] ELSE <<Drop, Drop>>[i - 1]
    BY <2>1, <2>2, ConcatProperties
  <2>4. t[1] = a /\ t[2] = Drop /\ t[3] = Drop
    BY <2>3
  <2>5. tail[1] = a /\ tail[2] = Drop /\ tail[3] = Drop
    OBVIOUS
  <2> HIDE DEF tail, t
  <2>6. \A i \in 1 .. Len(t) : t[i] = tail[i]
    <3>1. \A i \in 1 .. 3 : i = 1 \/ i = 2 \/ i = 3
      OBVIOUS
    <3> QED BY <2>3, <2>4, <2>5, <3>1
  <2>7. t = tail
    BY <2>1, <2>2, <2>3, <2>6, SeqEqual
  <2> QED BY <2>1, <2>7 DEF t
<1>4. reset_device = SendAck(RESET) \o tail
  BY DEF reset_device, Exp, Drop
<1> HIDE DEF a, tail
<1>5. reset_device \o r = SendAck(RESET) \o (tail \o r) /\ tail \o r \in Seq(Ops)
  BY <1>2, <1>3, <1>4, Reassociated, Joined
<1>6. tail \o r = <<a>> \o (<<Drop, Drop>> \o r)
  BY <1>3, Reassociated
<1>7. <<Drop, Drop>> \o r = Then(Drop, Then(Drop, r))
  BY <1>2, TwoIs
<1>8. tail \o r = Then(a, Then(Drop, Then(Drop, r)))
  BY <1>6, <1>7 DEF Then
<1>9. SendAck(RESET) \o (tail \o r) = Then(Data(RESET), Then(Ack, tail \o r))
  BY <1>1, <1>5, SendAckIs
<1> QED BY <1>5, <1>8, <1>9 DEF a

LEMMA WriteCfgIs ==
  ASSUME NEW r \in Seq(Ops)
  PROVE  WriteCfg \o r = Then(Cmd("WRITE_CFG"), Then(PutCfg, r))
<1>0. "WRITE_CFG" \in Commands
  BY DEF Commands
<1>1. Command("WRITE_CFG") \in Seq(Ops) /\ <<<<"write_cfg", 0>>>> \in Seq(Ops)
  BY <1>0, PiecesTyped
<1>2. WriteCfg \o r = Command("WRITE_CFG") \o (<<<<"write_cfg", 0>>>> \o r)
      /\ <<<<"write_cfg", 0>>>> \o r \in Seq(Ops)
  BY <1>1, Reassociated, Joined DEF WriteCfg
<1> QED BY <1>0, <1>2, CommandIs DEF Then, PutCfg

LEMMA TestPortIs ==
  ASSUME NEW c \in Commands, NEW r \in Seq(Ops)
  PROVE  TestPort(c) \o r = Then(Cmd(c), Then(Exp(0), r))
<1>1. Command(c) \in Seq(Ops) /\ <<<<"expect", 0>>>> \in Seq(Ops)
  BY PiecesTyped DEF Bytes
<1>2. TestPort(c) \o r = Command(c) \o (<<<<"expect", 0>>>> \o r) /\ <<<<"expect", 0>>>> \o r \in Seq(Ops)
  BY <1>1, Reassociated, Joined DEF TestPort
<1> QED BY <1>2, CommandIs DEF Then, Exp

-----------------------------------------------------------------------------
(***************************************************************************)
(* PS2_init by what is left of it.                                         *)
(***************************************************************************)
Store(r) == Then(Cmd("WRITE_CFG"), Then(PutCfg, r))
Exchange(d, r) == Then(Data(d), Then(Ack, r))
Report(d, r) == Then(Cmd("WRITE_PORT2"), Exchange(d, r))
Confirm(r) == Then(Exp(SELF_TEST_OK), Then(Drop, Then(Drop, r)))
Reset(r) == Exchange(RESET, Confirm(r))
Test(c, r) == Then(Cmd(c), Then(Exp(0), r))

Enable2 == Then(Cmd("ENABLE_PORT2"), Then(Or(2), Store(<< >>)))
Enabled1(h) == IF h THEN Enable2 ELSE Store(<< >>)
Enable(h) == Then(Cmd("ENABLE_PORT1"), Then(Or(1), Enabled1(h)))
Mouse6 == Report(REPORTING, Enable(TRUE))
Mouse5 == Report(20, Mouse6)
Mouse4 == Report(SAMPLE_RATE, Mouse5)
Mouse3 == Report(0, Mouse4)
Mouse2 == Report(RESOLUTION, Mouse3)
Mouse1 == Report(SCALING1_1, Mouse2)
MouseReset(h) == IF h THEN Then(Cmd("WRITE_PORT2"), Reset(Mouse1)) ELSE Enable(FALSE)
KeyboardReset(h) == Reset(MouseReset(h))
SetIs2(h) == Then(Exp(SET_SCANCODE2), KeyboardReset(h))
GetSet(h) == Exchange(SCANCODE, Exchange(GET_SCANCODE, SetIs2(h)))
SetSet(h) == Exchange(SCANCODE, Exchange(SET_SCANCODE2, GetSet(h)))
Test2(h) == IF h THEN Test("TEST_PORT2", SetSet(h)) ELSE SetSet(h)
Test1(h) == Test("TEST_PORT1", Test2(h))
Disable2 == Then(Cmd("DISABLE_PORT2"), Store(Test1(TRUE)))
Settling(h) == IF h THEN Disable2 ELSE Test1(h)

Found == Then(<<"detect", 0>>, << >>)
Look == Then(Cmd("READ_CFG"), Found)
Second == Then(Cmd("ENABLE_PORT2"), Look)
Checked == Then(Exp(CTRL_TEST_OK), Second)
Check == Then(Cmd("TEST"), Checked)
TakeCfg == Then(GetCfg, Store(Check))
AskCfg == Then(Cmd("READ_CFG"), TakeCfg)
Flush == Then(Drop, AskCfg)
DisableSecond == Then(Cmd("DISABLE_PORT2"), Flush)
Detecting == Then(Cmd("DISABLE_PORT1"), DisableSecond)

Codes == {ACK, SCANCODE, RESET, SCALING1_1, RESOLUTION, SAMPLE_RATE, REPORTING, SELF_TEST_OK,
          CTRL_TEST_OK, GET_SCANCODE, SET_SCANCODE2, 0, 20}

LEMMA CodesAreBytes == Codes \subseteq Bytes
BY DEF Codes, Bytes, ACK, SCANCODE, RESET, SCALING1_1, RESOLUTION, SAMPLE_RATE, REPORTING,
       SELF_TEST_OK, CTRL_TEST_OK, GET_SCANCODE, SET_SCANCODE2

LEMMA ThenTyped ==
  /\ << >> \in Seq(Ops)
  /\ \A r \in Seq(Ops) : /\ Store(r) \in Seq(Ops) /\ Confirm(r) \in Seq(Ops) /\ Reset(r) \in Seq(Ops)
                         /\ \A d \in Codes : Exchange(d, r) \in Seq(Ops) /\ Report(d, r) \in Seq(Ops)
                         /\ \A c \in Commands : Then(Cmd(c), r) \in Seq(Ops) /\ Test(c, r) \in Seq(Ops)
                         /\ \A d \in Codes : Then(Exp(d), r) \in Seq(Ops)
                         /\ Then(Drop, r) \in Seq(Ops) /\ Then(Ack, r) \in Seq(Ops)
<1>1. << >> \in Seq(Ops)
  OBVIOUS
<1> SUFFICES ASSUME NEW r \in Seq(Ops)
             PROVE  /\ Store(r) \in Seq(Ops) /\ Confirm(r) \in Seq(Ops) /\ Reset(r) \in Seq(Ops)
                    /\ \A d \in Codes : Exchange(d, r) \in Seq(Ops) /\ Report(d, r) \in Seq(Ops)
                    /\ \A c \in Commands : Then(Cmd(c), r) \in Seq(Ops) /\ Test(c, r) \in Seq(Ops)
                    /\ \A d \in Codes : Then(Exp(d), r) \in Seq(Ops)
                    /\ Then(Drop, r) \in Seq(Ops) /\ Then(Ack, r) \in Seq(Ops)
  BY <1>1
<1>2. \A op \in Ops, s \in Seq(Ops) : Then(op, s) \in Seq(Ops)
  BY ThenIs
<1>3. \A c \in Commands : Cmd(c) \in Ops
  BY OpsAre
<1>4. \A d \in Codes : Data(d) \in Ops /\ Exp(d) \in Ops
  BY OpsAre, CodesAreBytes
<1>5. Ack \in Ops /\ Drop \in Ops /\ PutCfg \in Ops
  BY OpsAre
<1>6. "WRITE_CFG" \in Commands /\ "WRITE_PORT2" \in Commands
  BY DEF Commands
<1>7. RESET \in Codes /\ SELF_TEST_OK \in Codes /\ 0 \in Codes
  BY DEF Codes
<1>8. Store(r) \in Seq(Ops)
  BY <1>2, <1>3, <1>5, <1>6 DEF Store
<1>9. Confirm(r) \in Seq(Ops)
  <2>1. Then(Drop, r) \in Seq(Ops)
    BY <1>2, <1>5
  <2>2. Then(Drop, Then(Drop, r)) \in Seq(Ops)
    BY <1>2, <1>5, <2>1
  <2> QED BY <1>2, <1>4, <1>7, <2>2 DEF Confirm
<1>10. \A s \in Seq(Ops), d \in Codes : Exchange(d, s) \in Seq(Ops)
  BY <1>2, <1>4, <1>5 DEF Exchange
<1>11. \A d \in Codes : Report(d, r) \in Seq(Ops)
  BY <1>2, <1>3, <1>6, <1>10 DEF Report
<1>12. \A c \in Commands : Then(Cmd(c), r) \in Seq(Ops) /\ Test(c, r) \in Seq(Ops)
  BY <1>2, <1>3, <1>4, <1>7 DEF Test
<1>13. Reset(r) \in Seq(Ops)
  BY <1>7, <1>9, <1>10 DEF Reset
<1> QED BY <1>2, <1>4, <1>5, <1>8, <1>9, <1>10, <1>11, <1>12, <1>13

LEMMA RestsTyped ==
  /\ Enable2 \in Seq(Ops) /\ Store(<< >>) \in Seq(Ops)
  /\ \A h \in BOOLEAN : Enabled1(h) \in Seq(Ops) /\ Enable(h) \in Seq(Ops)
  /\ Mouse6 \in Seq(Ops) /\ Mouse5 \in Seq(Ops) /\ Mouse4 \in Seq(Ops)
  /\ Mouse3 \in Seq(Ops) /\ Mouse2 \in Seq(Ops) /\ Mouse1 \in Seq(Ops)
  /\ \A h \in BOOLEAN : /\ MouseReset(h) \in Seq(Ops) /\ KeyboardReset(h) \in Seq(Ops)
                        /\ SetIs2(h) \in Seq(Ops) /\ GetSet(h) \in Seq(Ops) /\ SetSet(h) \in Seq(Ops)
                        /\ Test2(h) \in Seq(Ops) /\ Test1(h) \in Seq(Ops)
<1>0. /\ {"ENABLE_PORT1", "ENABLE_PORT2", "WRITE_PORT2", "TEST_PORT1", "TEST_PORT2"} \subseteq Commands
      /\ {REPORTING, 20, SAMPLE_RATE, 0, RESOLUTION, SCALING1_1, SCANCODE, GET_SCANCODE, SET_SCANCODE2} \subseteq Codes
  BY DEF Commands, Codes
<1>1. Store(<< >>) \in Seq(Ops)
  BY ThenTyped
<1>2. \A r \in Seq(Ops) : Then(Or(1), r) \in Seq(Ops) /\ Then(Or(2), r) \in Seq(Ops)
  BY OpsAre, ThenIs
<1>3. Enable2 \in Seq(Ops)
  BY <1>0, <1>1, <1>2, ThenTyped DEF Enable2
<1>4. \A h \in BOOLEAN : Enabled1(h) \in Seq(Ops)
  BY <1>1, <1>3 DEF Enabled1
<1>5. \A h \in BOOLEAN : Enable(h) \in Seq(Ops)
  BY <1>0, <1>2, <1>4, ThenTyped DEF Enable
<1>6. Mouse6 \in Seq(Ops)
  BY <1>0, <1>5, ThenTyped DEF Mouse6
<1>7. Mouse5 \in Seq(Ops)
  BY <1>0, <1>6, ThenTyped DEF Mouse5
<1>8. Mouse4 \in Seq(Ops)
  BY <1>0, <1>7, ThenTyped DEF Mouse4
<1>9. Mouse3 \in Seq(Ops)
  BY <1>0, <1>8, ThenTyped DEF Mouse3
<1>10. Mouse2 \in Seq(Ops)
  BY <1>0, <1>9, ThenTyped DEF Mouse2
<1>11. Mouse1 \in Seq(Ops)
  BY <1>0, <1>10, ThenTyped DEF Mouse1
<1>12. Reset(Mouse1) \in Seq(Ops)
  BY <1>11, ThenTyped
<1>13. \A h \in BOOLEAN : MouseReset(h) \in Seq(Ops)
  BY <1>0, <1>5, <1>12, ThenTyped DEF MouseReset
<1>14. \A h \in BOOLEAN : KeyboardReset(h) \in Seq(Ops)
  BY <1>13, ThenTyped DEF KeyboardReset
<1>15. \A h \in BOOLEAN : SetIs2(h) \in Seq(Ops)
  BY <1>0, <1>14, ThenTyped DEF SetIs2
<1>16. \A h \in BOOLEAN : Exchange(GET_SCANCODE, SetIs2(h)) \in Seq(Ops)
  BY <1>0, <1>15, ThenTyped
<1>17. \A h \in BOOLEAN : GetSet(h) \in Seq(Ops)
  BY <1>0, <1>16, ThenTyped DEF GetSet
<1>18. \A h \in BOOLEAN : Exchange(SET_SCANCODE2, GetSet(h)) \in Seq(Ops)
  BY <1>0, <1>17, ThenTyped
<1>19. \A h \in BOOLEAN : SetSet(h) \in Seq(Ops)
  BY <1>0, <1>18, ThenTyped DEF SetSet
<1>20. \A h \in BOOLEAN : Test2(h) \in Seq(Ops)
  BY <1>0, <1>19, ThenTyped DEF Test2
<1>21. \A h \in BOOLEAN : Test1(h) \in Seq(Ops)
  BY <1>0, <1>20, ThenTyped DEF Test1
<1> QED BY <1>1, <1>3, <1>4, <1>5, <1>6, <1>7, <1>8, <1>9, <1>10, <1>11, <1>13, <1>14, <1>15, <1>17,
           <1>19, <1>20, <1>21

LEMMA DetectTyped ==
  /\ Found \in Seq(Ops) /\ Look \in Seq(Ops) /\ Second \in Seq(Ops) /\ Checked \in Seq(Ops)
  /\ Check \in Seq(Ops) /\ TakeCfg \in Seq(Ops) /\ AskCfg \in Seq(Ops) /\ Flush \in Seq(Ops)
  /\ DisableSecond \in Seq(Ops) /\ Detecting \in Seq(Ops)
<1>0. /\ {"DISABLE_PORT1", "DISABLE_PORT2", "READ_CFG", "ENABLE_PORT2", "TEST"} \subseteq Commands
      /\ CTRL_TEST_OK \in Codes
  BY DEF Commands, Codes
<1>1. Found \in Seq(Ops)
  BY ThenTyped, ThenIs, OpsAre DEF Found
<1>2. Look \in Seq(Ops)
  BY <1>0, <1>1, ThenTyped DEF Look
<1>3. Second \in Seq(Ops)
  BY <1>0, <1>2, ThenTyped DEF Second
<1>4. Checked \in Seq(Ops)
  BY <1>0, <1>3, ThenTyped DEF Checked
<1>5. Check \in Seq(Ops)
  BY <1>0, <1>4, ThenTyped DEF Check
<1>6. TakeCfg \in Seq(Ops)
  BY <1>5, ThenTyped, ThenIs, OpsAre DEF TakeCfg
<1>7. AskCfg \in Seq(Ops)
  BY <1>0, <1>6, ThenTyped DEF AskCfg
<1>8. Flush \in Seq(Ops)
  BY <1>7, ThenTyped DEF Flush
<1>9. DisableSecond \in Seq(Ops)
  BY <1>0, <1>8, ThenTyped DEF DisableSecond
<1>10. Detecting \in Seq(Ops)
  BY <1>0, <1>9, ThenTyped DEF Detecting
<1> QED BY <1>1, <1>2, <1>3, <1>4, <1>5, <1>6, <1>7, <1>8, <1>9, <1>10

LEMMA DetectIs == Detect = Detecting
<1> DEFINE a1 == Command("DISABLE_PORT1")
           a2 == Command("DISABLE_PORT2")
           a3 == <<<<"read", 0>>>>
           a4 == Command("READ_CFG")
           a5 == <<<<"read_cfg", 0>>>>
           a6 == WriteCfg
           a7 == Command("TEST")
           a8 == <<<<"expect", CTRL_TEST_OK>>>>
           a9 == Command("ENABLE_PORT2")
           a10 == Command("READ_CFG")
           y2 == a1 \o a2
           y3 == y2 \o a3
           y4 == y3 \o a4
           y5 == y4 \o a5
           y6 == y5 \o a6
           y7 == y6 \o a7
           y8 == y7 \o a8
           y9 == y8 \o a9
           y10 == y9 \o a10
<1>0. {"DISABLE_PORT1", "DISABLE_PORT2", "READ_CFG", "ENABLE_PORT2", "TEST"} \subseteq Commands
      /\ CTRL_TEST_OK \in Bytes
  BY DEF Commands, CTRL_TEST_OK, Bytes
<1>1. Command("WRITE_CFG") \in Seq(Ops) /\ <<<<"write_cfg", 0>>>> \in Seq(Ops)
  BY PiecesTyped DEF Commands
<1>2. /\ a1 \in Seq(Ops) /\ a2 \in Seq(Ops) /\ a3 \in Seq(Ops) /\ a4 \in Seq(Ops) /\ a5 \in Seq(Ops)
      /\ a7 \in Seq(Ops) /\ a8 \in Seq(Ops) /\ a9 \in Seq(Ops) /\ a10 \in Seq(Ops)
  BY <1>0, PiecesTyped
<1>3. a6 \in Seq(Ops)
  BY <1>1, Joined DEF WriteCfg
<1>4. Detect = y10 \o <<<<"detect", 0>>>>
  BY DEF Detect
<1>5. <<<<"detect", 0>>>> = Found
  <2>1. <<<<"detect", 0>>>> \in Seq(Ops)
    BY PiecesTyped
  <2> QED BY <2>1, ConcatEmptySeq DEF Found, Then
<1>6. a10 \o Found = Look
  BY <1>0, DetectTyped, CommandIs DEF Look
<1>7. a9 \o Look = Second
  BY <1>0, DetectTyped, CommandIs DEF Second
<1>8. a8 \o Second = Checked
  BY DEF Checked, Then, Exp
<1>9. a7 \o Checked = Check
  BY <1>0, DetectTyped, CommandIs DEF Check
<1>10. a6 \o Check = Store(Check)
  BY DetectTyped, WriteCfgIs DEF Store
<1>11. a5 \o Store(Check) = TakeCfg
  BY DEF TakeCfg, Then, GetCfg
<1>12. a4 \o TakeCfg = AskCfg
  BY <1>0, DetectTyped, CommandIs DEF AskCfg
<1>13. a3 \o AskCfg = Flush
  BY DEF Flush, Then, Drop
<1>14. a2 \o Flush = DisableSecond
  BY <1>0, DetectTyped, CommandIs DEF DisableSecond
<1>15. a1 \o DisableSecond = Detecting
  BY <1>0, DetectTyped, CommandIs DEF Detecting
<1>16. /\ y2 = a1 \o a2 /\ y3 = y2 \o a3 /\ y4 = y3 \o a4 /\ y5 = y4 \o a5 /\ y6 = y5 \o a6
       /\ y7 = y6 \o a7 /\ y8 = y7 \o a8 /\ y9 = y8 \o a9 /\ y10 = y9 \o a10
  OBVIOUS
<1> HIDE DEF a1, a2, a3, a4, a5, a6, a7, a8, a9, a10, y2, y3, y4, y5, y6, y7, y8, y9, y10
<1>17. y2 \in Seq(Ops)
  BY <1>2, <1>3, <1>16, Joined
<1>18. y3 \in Seq(Ops)
  BY <1>2, <1>3, <1>16, <1>17, Joined
<1>19. y4 \in Seq(Ops)
  BY <1>2, <1>3, <1>16, <1>18, Joined
<1>20. y5 \in Seq(Ops)
  BY <1>2, <1>3, <1>16, <1>19, Joined
<1>21. y6 \in Seq(Ops)
  BY <1>2, <1>3, <1>16, <1>20, Joined
<1>22. y7 \in Seq(Ops)
  BY <1>2, <1>3, <1>16, <1>21, Joined
<1>23. y8 \in Seq(Ops)
  BY <1>2, <1>3, <1>16, <1>22, Joined
<1>24. y9 \in Seq(Ops)
  BY <1>2, <1>3, <1>16, <1>23, Joined
<1>25. y10 \o Found = y9 \o Look
  <2>1. Found \in Seq(Ops)
    BY DetectTyped
  <2>2. y10 = y9 \o a10 /\ y9 \in Seq(Ops) /\ a10 \in Seq(Ops)
    BY <1>2, <1>24, <1>3, <1>16
  <2>3. (y9 \o a10) \o Found = y9 \o (a10 \o Found)
    BY <2>1, <2>2, Reassociated
  <2> QED BY <2>2, <2>3, <1>6
<1>26. y9 \o Look = y8 \o Second
  <2>1. Look \in Seq(Ops)
    BY DetectTyped
  <2>2. y9 = y8 \o a9 /\ y8 \in Seq(Ops) /\ a9 \in Seq(Ops)
    BY <1>2, <1>23, <1>3, <1>16
  <2>3. (y8 \o a9) \o Look = y8 \o (a9 \o Look)
    BY <2>1, <2>2, Reassociated
  <2> QED BY <2>2, <2>3, <1>7
<1>27. y8 \o Second = y7 \o Checked
  <2>1. Second \in Seq(Ops)
    BY DetectTyped
  <2>2. y8 = y7 \o a8 /\ y7 \in Seq(Ops) /\ a8 \in Seq(Ops)
    BY <1>2, <1>22, <1>3, <1>16
  <2>3. (y7 \o a8) \o Second = y7 \o (a8 \o Second)
    BY <2>1, <2>2, Reassociated
  <2> QED BY <2>2, <2>3, <1>8
<1>28. y7 \o Checked = y6 \o Check
  <2>1. Checked \in Seq(Ops)
    BY DetectTyped
  <2>2. y7 = y6 \o a7 /\ y6 \in Seq(Ops) /\ a7 \in Seq(Ops)
    BY <1>2, <1>21, <1>3, <1>16
  <2>3. (y6 \o a7) \o Checked = y6 \o (a7 \o Checked)
    BY <2>1, <2>2, Reassociated
  <2> QED BY <2>2, <2>3, <1>9
<1>29. y6 \o Check = y5 \o Store(Check)
  <2>1. Check \in Seq(Ops)
    BY DetectTyped
  <2>2. y6 = y5 \o a6 /\ y5 \in Seq(Ops) /\ a6 \in Seq(Ops)
    BY <1>2, <1>20, <1>3, <1>16
  <2>3. (y5 \o a6) \o Check = y5 \o (a6 \o Check)
    BY <2>1, <2>2, Reassociated
  <2> QED BY <2>2, <2>3, <1>10
<1>30. y5 \o Store(Check) = y4 \o TakeCfg
  <2>1. Store(Check) \in Seq(Ops)
    BY DetectTyped, ThenTyped
  <2>2. y5 = y4 \o a5 /\ y4 \in Seq(Ops) /\ a5 \in Seq(Ops)
    BY <1>2, <1>19, <1>3, <1>16
  <2>3. (y4 \o a5) \o Store(Check) = y4 \o (a5 \o Store(Check))
    BY <2>1, <2>2, Reassociated
  <2> QED BY <2>2, <2>3, <1>11
<1>31. y4 \o TakeCfg = y3 \o AskCfg
  <2>1. TakeCfg \in Seq(Ops)
    BY DetectTyped
  <2>2. y4 = y3 \o a4 /\ y3 \in Seq(Ops) /\ a4 \in Seq(Ops)
    BY <1>2, <1>18, <1>3, <1>16
  <2>3. (y3 \o a4) \o TakeCfg = y3 \o (a4 \o TakeCfg)
    BY <2>1, <2>2, Reassociated
  <2> QED BY <2>2, <2>3, <1>12
<1>32. y3 \o AskCfg = y2 \o Flush
  <2>1. AskCfg \in Seq(Ops)
    BY DetectTyped
  <2>2. y3 = y2 \o a3 /\ y2 \in Seq(Ops) /\ a3 \in Seq(Ops)
    BY <1>2, <1>17, <1>3, <1>16
  <2>3. (y2 \o a3) \o AskCfg = y2 \o (a3 \o AskCfg)
    BY <2>1, <2>2, Reassociated
  <2> QED BY <2>2, <2>3, <1>13
<1>33. y2 \o Flush = a1 \o DisableSecond
  <2>1. Flush \in Seq(Ops)
    BY DetectTyped
  <2>2. y2 = a1 \o a2 /\ a1 \in Seq(Ops) /\ a2 \in Seq(Ops)
    BY <1>2, <1>3, <1>16
  <2>3. (a1 \o a2) \o Flush = a1 \o (a2 \o Flush)
    BY <2>1, <2>2, Reassociated
  <2> QED BY <2>2, <2>3, <1>14
<1> QED BY <1>4, <1>5, <1>15, <1>25, <1>26, <1>27, <1>28, <1>29, <1>30, <1>31, <1>32, <1>33


LEMMA SetIs ==
  ASSUME NEW d \in Codes, NEW r \in Seq(Ops)
  PROVE  scancode_set(d) \o r = Exchange(SCANCODE, Exchange(d, r))
<1>1. SCANCODE \in Codes /\ SCANCODE \in Bytes /\ d \in Bytes
  BY CodesAreBytes DEF Codes
<1>2. SendAck(SCANCODE) \in Seq(Ops) /\ SendAck(d) \in Seq(Ops)
  BY <1>1, PiecesTyped
<1>3. SendAck(d) \o r = Exchange(d, r) /\ Exchange(d, r) \in Seq(Ops)
  BY <1>1, SendAckIs, ThenTyped DEF Exchange
<1>4. (SendAck(SCANCODE) \o SendAck(d)) \o r = SendAck(SCANCODE) \o (SendAck(d) \o r)
  BY <1>2, Reassociated
<1>5. SendAck(SCANCODE) \o Exchange(d, r) = Exchange(SCANCODE, Exchange(d, r))
  BY <1>1, <1>3, SendAckIs DEF Exchange
<1> QED BY <1>3, <1>4, <1>5 DEF scancode_set

LEMMA EmptyIs ==
  ASSUME NEW r \in Seq(Ops)
  PROVE  << >> \o r = r /\ r \o << >> = r
BY ConcatEmptySeq

LEMMA EnableIs ==
  ASSUME NEW h \in BOOLEAN
  PROVE  EnableDevices(h) = Enable(h)
<1> DEFINE a1 == Command("ENABLE_PORT1")
           a2 == <<<<"or_cfg", Int1>>>>
           b1 == Command("ENABLE_PORT2")
           b2 == <<<<"or_cfg", Int2>>>>
           a3 == IF h THEN b1 \o b2 ELSE << >>
           w == WriteCfg
<1>0. {"ENABLE_PORT1", "ENABLE_PORT2", "WRITE_CFG"} \subseteq Commands
  BY DEF Commands
<1>1. a1 \in Seq(Ops) /\ a2 \in Seq(Ops) /\ b1 \in Seq(Ops) /\ b2 \in Seq(Ops)
  BY <1>0, PiecesTyped
<1>2. w \in Seq(Ops) /\ w = Store(<< >>)
  <2>1. Command("WRITE_CFG") \in Seq(Ops) /\ <<<<"write_cfg", 0>>>> \in Seq(Ops) /\ << >> \in Seq(Ops)
    BY <1>0, PiecesTyped
  <2>2. WriteCfg \in Seq(Ops)
    BY <2>1, Joined DEF WriteCfg
  <2> QED BY <2>1, <2>2, WriteCfgIs, EmptyIs DEF Store
<1>3. EnableDevices(h) = ((a1 \o a2) \o a3) \o w
  BY DEF EnableDevices
<1>4. Store(<< >>) \in Seq(Ops) /\ Enabled1(h) \in Seq(Ops) /\ Enable2 \in Seq(Ops)
  BY RestsTyped
<1>5. b2 \o Store(<< >>) = Then(Or(2), Store(<< >>))
  BY DEF Then, Int2, Or
<1>6. b2 \o Store(<< >>) \in Seq(Ops)
  BY <1>1, <1>4, Joined
<1>7. b1 \o (b2 \o Store(<< >>)) = Enable2
  BY <1>0, <1>5, <1>6, CommandIs DEF Enable2
<1>8. a2 \o Enabled1(h) = Then(Or(1), Enabled1(h))
  BY DEF Then, Int1, Or
<1>9. a2 \o Enabled1(h) \in Seq(Ops)
  BY <1>1, <1>4, Joined
<1>10. a1 \o (a2 \o Enabled1(h)) = Enable(h)
  BY <1>0, <1>8, <1>9, CommandIs DEF Enable
<1>11. a3 = IF h THEN b1 \o b2 ELSE << >>
  OBVIOUS
<1> HIDE DEF a1, a2, b1, b2, a3, w
<1>12. a3 \in Seq(Ops) /\ a3 \o w = Enabled1(h)
  <2>1. CASE h
    <3>1. b1 \o b2 \in Seq(Ops)
      BY <1>1, Joined
    <3>2. (b1 \o b2) \o Store(<< >>) = b1 \o (b2 \o Store(<< >>))
      BY <1>1, <1>4, Reassociated
    <3> QED BY <2>1, <3>1, <3>2, <1>2, <1>7, <1>11 DEF Enabled1
  <2>2. CASE ~h
    <3>1. << >> \o Store(<< >>) = Store(<< >>) /\ << >> \in Seq(Ops)
      BY <1>4, EmptyIs
    <3> QED BY <2>2, <3>1, <1>2, <1>11 DEF Enabled1
  <2> QED BY <2>1, <2>2
<1>13. a1 \o a2 \in Seq(Ops)
  BY <1>1, Joined
<1>14. ((a1 \o a2) \o a3) \o w = (a1 \o a2) \o (a3 \o w)
  BY <1>2, <1>12, <1>13, Reassociated
<1>15. (a1 \o a2) \o Enabled1(h) = a1 \o (a2 \o Enabled1(h))
  <2>1. a1 \in Seq(Ops) /\ a2 \in Seq(Ops) /\ Enabled1(h) \in Seq(Ops)
    BY <1>1, <1>4
  <2> QED BY <2>1, Reassociated, Zenon
<1> QED BY <1>3, <1>10, <1>12, <1>14, <1>15



LEMMA ReportIs ==
  ASSUME NEW d \in Codes, NEW r \in Seq(Ops)
  PROVE  Mouse(d) \in Seq(Ops) /\ Mouse(d) \o r = Report(d, r)
<1>1. "WRITE_PORT2" \in Commands /\ d \in Bytes
  BY CodesAreBytes DEF Commands
<1>2. Command("WRITE_PORT2") \in Seq(Ops) /\ SendAck(d) \in Seq(Ops)
  BY <1>1, PiecesTyped
<1> QED BY <1>1, <1>2, Joined, MouseIs DEF Mouse, Report, Exchange

LEMMA ResetTyped ==
  /\ reset_device \in Seq(Ops)
  /\ \A r \in Seq(Ops) : reset_device \o r = Reset(r)
<1>1. RESET \in Bytes /\ SELF_TEST_OK \in Bytes
  BY DEF RESET, SELF_TEST_OK, Bytes
<1>2. SendAck(RESET) \in Seq(Ops) /\ Exp(SELF_TEST_OK) \in Ops /\ Drop \in Ops
  BY <1>1, PiecesTyped, OpsAre
<1>3. <<Exp(SELF_TEST_OK), Drop, Drop>> \in Seq(Ops)
  BY <1>2
<1>4. reset_device \in Seq(Ops)
  BY <1>2, <1>3, Joined DEF reset_device, Exp, Drop
<1>5. \A r \in Seq(Ops) : reset_device \o r = Reset(r)
  BY ResetIs DEF Reset, Exchange, Confirm
<1> QED BY <1>4, <1>5

\* What is done with the mouse.
Reports == Command("WRITE_PORT2") \o reset_device
           \o Mouse(SCALING1_1) \o Mouse(RESOLUTION) \o Mouse(0)
           \o Mouse(SAMPLE_RATE) \o Mouse(20) \o Mouse(REPORTING)

LEMMA ReportsAre == Reports \in Seq(Ops) /\ Reports \o Enable(TRUE) = MouseReset(TRUE)
<1> DEFINE m1 == Command("WRITE_PORT2")
           m2 == reset_device
           m3 == Mouse(SCALING1_1)
           m4 == Mouse(RESOLUTION)
           m5 == Mouse(0)
           m6 == Mouse(SAMPLE_RATE)
           m7 == Mouse(20)
           m8 == Mouse(REPORTING)
           y2 == m1 \o m2
           y3 == y2 \o m3
           y4 == y3 \o m4
           y5 == y4 \o m5
           y6 == y5 \o m6
           y7 == y6 \o m7
           y8 == y7 \o m8
<1>0. "WRITE_PORT2" \in Commands /\ {REPORTING, 20, SAMPLE_RATE, 0, RESOLUTION, SCALING1_1} \subseteq Codes
  BY DEF Commands, Codes
<1>1. /\ Enable(TRUE) \in Seq(Ops) /\ Mouse6 \in Seq(Ops) /\ Mouse5 \in Seq(Ops) /\ Mouse4 \in Seq(Ops)
      /\ Mouse3 \in Seq(Ops) /\ Mouse2 \in Seq(Ops) /\ Mouse1 \in Seq(Ops) /\ Reset(Mouse1) \in Seq(Ops)
  BY RestsTyped, ThenTyped
<1>2. m1 \in Seq(Ops) /\ m2 \in Seq(Ops)
  BY <1>0, PiecesTyped, ResetTyped
<1>3. m3 \in Seq(Ops) /\ m4 \in Seq(Ops) /\ m5 \in Seq(Ops) /\ m6 \in Seq(Ops) /\ m7 \in Seq(Ops) /\ m8 \in Seq(Ops)
  BY <1>0, <1>1, ReportIs
<1>4. m8 \o Enable(TRUE) = Mouse6
  BY <1>0, <1>1, ReportIs DEF Mouse6
<1>5. m7 \o Mouse6 = Mouse5
  BY <1>0, <1>1, ReportIs DEF Mouse5
<1>6. m6 \o Mouse5 = Mouse4
  BY <1>0, <1>1, ReportIs DEF Mouse4
<1>7. m5 \o Mouse4 = Mouse3
  BY <1>0, <1>1, ReportIs DEF Mouse3
<1>8. m4 \o Mouse3 = Mouse2
  BY <1>0, <1>1, ReportIs DEF Mouse2
<1>9. m3 \o Mouse2 = Mouse1
  BY <1>0, <1>1, ReportIs DEF Mouse1
<1>10. m2 \o Mouse1 = Reset(Mouse1)
  BY <1>1, ResetTyped
<1>11. m1 \o Reset(Mouse1) = MouseReset(TRUE)
  BY <1>0, <1>1, CommandIs DEF MouseReset
<1>12. Reports = y8
  BY DEF Reports
<1>13. /\ y2 = m1 \o m2 /\ y3 = y2 \o m3 /\ y4 = y3 \o m4 /\ y5 = y4 \o m5
       /\ y6 = y5 \o m6 /\ y7 = y6 \o m7 /\ y8 = y7 \o m8
  OBVIOUS
<1> HIDE DEF m1, m2, m3, m4, m5, m6, m7, m8, y2, y3, y4, y5, y6, y7, y8
<1>14. y2 \in Seq(Ops)
  BY <1>2, <1>3, <1>13, Joined
<1>15. y3 \in Seq(Ops)
  BY <1>2, <1>3, <1>14, <1>13, Joined
<1>16. y4 \in Seq(Ops)
  BY <1>2, <1>3, <1>15, <1>13, Joined
<1>17. y5 \in Seq(Ops)
  BY <1>2, <1>3, <1>16, <1>13, Joined
<1>18. y6 \in Seq(Ops)
  BY <1>2, <1>3, <1>17, <1>13, Joined
<1>19. y7 \in Seq(Ops)
  BY <1>2, <1>3, <1>18, <1>13, Joined
<1>20. y8 \in Seq(Ops)
  BY <1>2, <1>3, <1>19, <1>13, Joined
<1>21. y8 \o Enable(TRUE) = y7 \o Mouse6
  <2>1. y8 = y7 \o m8 /\ y7 \in Seq(Ops) /\ m8 \in Seq(Ops)
    BY <1>2, <1>3, <1>19, <1>13
  <2>2. Enable(TRUE) \in Seq(Ops)
    BY <1>1
  <2>3. (y7 \o m8) \o Enable(TRUE) = y7 \o (m8 \o Enable(TRUE))
    BY <2>1, <2>2, Reassociated
  <2> QED BY <2>1, <2>3, <1>4
<1>22. y7 \o Mouse6 = y6 \o Mouse5
  <2>1. y7 = y6 \o m7 /\ y6 \in Seq(Ops) /\ m7 \in Seq(Ops)
    BY <1>2, <1>3, <1>18, <1>13
  <2>2. Mouse6 \in Seq(Ops)
    BY <1>1
  <2>3. (y6 \o m7) \o Mouse6 = y6 \o (m7 \o Mouse6)
    BY <2>1, <2>2, Reassociated
  <2> QED BY <2>1, <2>3, <1>5
<1>23. y6 \o Mouse5 = y5 \o Mouse4
  <2>1. y6 = y5 \o m6 /\ y5 \in Seq(Ops) /\ m6 \in Seq(Ops)
    BY <1>2, <1>3, <1>17, <1>13
  <2>2. Mouse5 \in Seq(Ops)
    BY <1>1
  <2>3. (y5 \o m6) \o Mouse5 = y5 \o (m6 \o Mouse5)
    BY <2>1, <2>2, Reassociated
  <2> QED BY <2>1, <2>3, <1>6
<1>24. y5 \o Mouse4 = y4 \o Mouse3
  <2>1. y5 = y4 \o m5 /\ y4 \in Seq(Ops) /\ m5 \in Seq(Ops)
    BY <1>2, <1>3, <1>16, <1>13
  <2>2. Mouse4 \in Seq(Ops)
    BY <1>1
  <2>3. (y4 \o m5) \o Mouse4 = y4 \o (m5 \o Mouse4)
    BY <2>1, <2>2, Reassociated
  <2> QED BY <2>1, <2>3, <1>7
<1>25. y4 \o Mouse3 = y3 \o Mouse2
  <2>1. y4 = y3 \o m4 /\ y3 \in Seq(Ops) /\ m4 \in Seq(Ops)
    BY <1>2, <1>3, <1>15, <1>13
  <2>2. Mouse3 \in Seq(Ops)
    BY <1>1
  <2>3. (y3 \o m4) \o Mouse3 = y3 \o (m4 \o Mouse3)
    BY <2>1, <2>2, Reassociated
  <2> QED BY <2>1, <2>3, <1>8
<1>26. y3 \o Mouse2 = y2 \o Mouse1
  <2>1. y3 = y2 \o m3 /\ y2 \in Seq(Ops) /\ m3 \in Seq(Ops)
    BY <1>2, <1>3, <1>14, <1>13
  <2>2. Mouse2 \in Seq(Ops)
    BY <1>1
  <2>3. (y2 \o m3) \o Mouse2 = y2 \o (m3 \o Mouse2)
    BY <2>1, <2>2, Reassociated
  <2> QED BY <2>1, <2>3, <1>9
<1>27. y2 \o Mouse1 = m1 \o Reset(Mouse1)
  <2>1. y2 = m1 \o m2 /\ m1 \in Seq(Ops) /\ m2 \in Seq(Ops)
    BY <1>2, <1>3, <1>13
  <2>2. Mouse1 \in Seq(Ops)
    BY <1>1
  <2>3. (m1 \o m2) \o Mouse1 = m1 \o (m2 \o Mouse1)
    BY <2>1, <2>2, Reassociated
  <2> QED BY <2>1, <2>3, <1>10
<1> QED BY <1>11, <1>12, <1>20, <1>21, <1>22, <1>23, <1>24, <1>25, <1>26, <1>27

LEMMA SettleIs ==
  ASSUME NEW h \in BOOLEAN
  PROVE  Settle(h) = Settling(h) /\ Settling(h) \in Seq(Ops)
<1> DEFINE s1 == IF h THEN Command("DISABLE_PORT2") \o WriteCfg ELSE << >>
           s2 == TestPort("TEST_PORT1")
           s3 == IF h THEN TestPort("TEST_PORT2") ELSE << >>
           s4 == scancode_set(SET_SCANCODE2)
           s5 == scancode_set(GET_SCANCODE)
           s6 == <<<<"expect", SET_SCANCODE2>>>>
           s7 == reset_device
           s8 == IF h THEN Reports ELSE << >>
           s9 == EnableDevices(h)
           y2 == s1 \o s2
           y3 == y2 \o s3
           y4 == y3 \o s4
           y5 == y4 \o s5
           y6 == y5 \o s6
           y7 == y6 \o s7
           y8 == y7 \o s8
<1>0. /\ {"DISABLE_PORT2", "TEST_PORT1", "TEST_PORT2", "WRITE_CFG"} \subseteq Commands
      /\ {SCANCODE, SET_SCANCODE2, GET_SCANCODE, 0} \subseteq Codes
  BY DEF Commands, Codes, GET_SCANCODE
<1>1. /\ Enable(h) \in Seq(Ops) /\ MouseReset(h) \in Seq(Ops) /\ KeyboardReset(h) \in Seq(Ops)
      /\ SetIs2(h) \in Seq(Ops) /\ GetSet(h) \in Seq(Ops) /\ SetSet(h) \in Seq(Ops)
      /\ Test2(h) \in Seq(Ops) /\ Test1(h) \in Seq(Ops) /\ << >> \in Seq(Ops)
  BY RestsTyped, ThenTyped
<1>2. \A c \in {"TEST_PORT1", "TEST_PORT2"} : TestPort(c) \in Seq(Ops)
  <2>1. \A c \in {"TEST_PORT1", "TEST_PORT2"} : Command(c) \in Seq(Ops)
    BY <1>0, PiecesTyped
  <2>2. <<<<"expect", 0>>>> \in Seq(Ops)
    BY PiecesTyped DEF Bytes
  <2> QED BY <2>1, <2>2, Joined DEF TestPort
<1>3. \A c \in {"TEST_PORT1", "TEST_PORT2"}, r \in Seq(Ops) : TestPort(c) \o r = Test(c, r)
  BY <1>0, TestPortIs DEF Test
<1>4. \A d \in {SET_SCANCODE2, GET_SCANCODE} : scancode_set(d) \in Seq(Ops)
  <2>1. SendAck(SCANCODE) \in Seq(Ops) /\ SendAck(SET_SCANCODE2) \in Seq(Ops) /\ SendAck(GET_SCANCODE) \in Seq(Ops)
    BY <1>0, CodesAreBytes, PiecesTyped
  <2> QED BY <2>1, Joined DEF scancode_set
<1>5. s1 \in Seq(Ops) /\ s1 \o Test1(h) = Settling(h) /\ Settling(h) \in Seq(Ops)
  <2>1. CASE h
    <3> DEFINE c == Command("DISABLE_PORT2")
    <3>1. /\ c \in Seq(Ops) /\ Command("WRITE_CFG") \in Seq(Ops) /\ <<<<"write_cfg", 0>>>> \in Seq(Ops)
      BY <1>0, PiecesTyped
    <3>2. WriteCfg \in Seq(Ops)
      BY <3>1, Joined DEF WriteCfg
    <3>3. Test1(TRUE) \in Seq(Ops)
      BY RestsTyped
    <3>4. WriteCfg \o Test1(TRUE) = Store(Test1(TRUE)) /\ Store(Test1(TRUE)) \in Seq(Ops)
      BY <3>3, WriteCfgIs, ThenTyped DEF Store
    <3>5. c \o Store(Test1(TRUE)) = Disable2
      BY <1>0, <3>4, CommandIs DEF Disable2
    <3>6. (c \o WriteCfg) \o Test1(TRUE) = c \o (WriteCfg \o Test1(TRUE)) /\ c \o WriteCfg \in Seq(Ops)
      <4>1. c \in Seq(Ops)
        BY <3>1
      <4> HIDE DEF c
      <4> QED BY <4>1, <3>2, <3>3, Reassociated, Joined
    <3>7. Disable2 \in Seq(Ops)
      BY <1>0, <3>4, ThenTyped DEF Disable2
    <3>8. s1 = c \o WriteCfg /\ h = TRUE
      BY <2>1
    <3> HIDE DEF s1, c
    <3> QED BY <2>1, <3>4, <3>5, <3>6, <3>7, <3>8 DEF Settling
  <2>2. CASE ~h
    <3>1. s1 = << >> /\ Settling(h) = Test1(h)
      BY <2>2 DEF Settling
    <3> HIDE DEF s1
    <3> QED BY <1>1, <3>1, EmptyIs
  <2> QED BY <2>1, <2>2
<1>6. s2 \in Seq(Ops) /\ s2 \o Test2(h) = Test1(h)
  BY <1>1, <1>2, <1>3 DEF Test1
<1>7. s3 \in Seq(Ops) /\ s3 \o SetSet(h) = Test2(h)
  <2>1. CASE h
    BY <1>1, <1>2, <1>3, <2>1 DEF Test2
  <2>2. CASE ~h
    <3>1. s3 = << >> /\ Test2(h) = SetSet(h)
      BY <2>2 DEF Test2
    <3> HIDE DEF s3
    <3> QED BY <1>1, <3>1, EmptyIs
  <2> QED BY <2>1, <2>2
<1>8. s4 \in Seq(Ops) /\ s4 \o GetSet(h) = SetSet(h)
  BY <1>0, <1>1, <1>4, SetIs DEF SetSet
<1>9. s5 \in Seq(Ops) /\ s5 \o SetIs2(h) = GetSet(h)
  BY <1>0, <1>1, <1>4, SetIs DEF GetSet
<1>10. s6 \in Seq(Ops) /\ s6 \o KeyboardReset(h) = SetIs2(h)
  <2>1. SET_SCANCODE2 \in Bytes
    BY <1>0, CodesAreBytes
  <2>2. s6 \in Seq(Ops)
    BY <2>1, PiecesTyped
  <2> QED BY <2>2 DEF SetIs2, Then, Exp
<1>11. s7 \in Seq(Ops) /\ s7 \o MouseReset(h) = KeyboardReset(h)
  BY <1>1, ResetTyped DEF KeyboardReset
<1>12. s8 \in Seq(Ops) /\ s8 \o Enable(h) = MouseReset(h)
  <2>1. CASE h
    <3>1. s8 = Reports /\ h = TRUE
      BY <2>1
    <3> HIDE DEF s8
    <3> QED BY <3>1, ReportsAre
  <2>2. CASE ~h
    <3>1. s8 = << >> /\ MouseReset(h) = Enable(h)
      BY <2>2 DEF MouseReset
    <3> HIDE DEF s8
    <3> QED BY <1>1, <3>1, EmptyIs
  <2> QED BY <2>1, <2>2
<1>13. s9 = Enable(h)
  BY EnableIs
<1>14. Settle(h) = y8 \o s9
  BY DEF Settle, Reports
<1>15. /\ y2 = s1 \o s2 /\ y3 = y2 \o s3 /\ y4 = y3 \o s4 /\ y5 = y4 \o s5
       /\ y6 = y5 \o s6 /\ y7 = y6 \o s7 /\ y8 = y7 \o s8
  OBVIOUS
<1> HIDE DEF s1, s2, s3, s4, s5, s6, s7, s8, s9, y2, y3, y4, y5, y6, y7, y8
<1>16. y2 \in Seq(Ops)
  BY <1>5, <1>6, <1>7, <1>8, <1>9, <1>10, <1>11, <1>12, <1>15, Joined
<1>17. y3 \in Seq(Ops)
  BY <1>5, <1>6, <1>7, <1>8, <1>9, <1>10, <1>11, <1>12, <1>16, <1>15, Joined
<1>18. y4 \in Seq(Ops)
  BY <1>5, <1>6, <1>7, <1>8, <1>9, <1>10, <1>11, <1>12, <1>17, <1>15, Joined
<1>19. y5 \in Seq(Ops)
  BY <1>5, <1>6, <1>7, <1>8, <1>9, <1>10, <1>11, <1>12, <1>18, <1>15, Joined
<1>20. y6 \in Seq(Ops)
  BY <1>5, <1>6, <1>7, <1>8, <1>9, <1>10, <1>11, <1>12, <1>19, <1>15, Joined
<1>21. y7 \in Seq(Ops)
  BY <1>5, <1>6, <1>7, <1>8, <1>9, <1>10, <1>11, <1>12, <1>20, <1>15, Joined
<1>22. y8 \in Seq(Ops)
  BY <1>5, <1>6, <1>7, <1>8, <1>9, <1>10, <1>11, <1>12, <1>21, <1>15, Joined
<1>23. y8 \o Enable(h) = y7 \o MouseReset(h)
  <2>1. y8 = y7 \o s8 /\ y7 \in Seq(Ops) /\ s8 \in Seq(Ops)
    BY <1>5, <1>6, <1>7, <1>8, <1>9, <1>10, <1>11, <1>12, <1>21, <1>15
  <2>2. Enable(h) \in Seq(Ops)
    BY <1>1
  <2>3. (y7 \o s8) \o Enable(h) = y7 \o (s8 \o Enable(h))
    BY <2>1, <2>2, Reassociated
  <2> QED BY <2>1, <2>3, <1>12
<1>24. y7 \o MouseReset(h) = y6 \o KeyboardReset(h)
  <2>1. y7 = y6 \o s7 /\ y6 \in Seq(Ops) /\ s7 \in Seq(Ops)
    BY <1>5, <1>6, <1>7, <1>8, <1>9, <1>10, <1>11, <1>12, <1>20, <1>15
  <2>2. MouseReset(h) \in Seq(Ops)
    BY <1>1
  <2>3. (y6 \o s7) \o MouseReset(h) = y6 \o (s7 \o MouseReset(h))
    BY <2>1, <2>2, Reassociated
  <2> QED BY <2>1, <2>3, <1>11
<1>25. y6 \o KeyboardReset(h) = y5 \o SetIs2(h)
  <2>1. y6 = y5 \o s6 /\ y5 \in Seq(Ops) /\ s6 \in Seq(Ops)
    BY <1>5, <1>6, <1>7, <1>8, <1>9, <1>10, <1>11, <1>12, <1>19, <1>15
  <2>2. KeyboardReset(h) \in Seq(Ops)
    BY <1>1
  <2>3. (y5 \o s6) \o KeyboardReset(h) = y5 \o (s6 \o KeyboardReset(h))
    BY <2>1, <2>2, Reassociated
  <2> QED BY <2>1, <2>3, <1>10
<1>26. y5 \o SetIs2(h) = y4 \o GetSet(h)
  <2>1. y5 = y4 \o s5 /\ y4 \in Seq(Ops) /\ s5 \in Seq(Ops)
    BY <1>5, <1>6, <1>7, <1>8, <1>9, <1>10, <1>11, <1>12, <1>18, <1>15
  <2>2. SetIs2(h) \in Seq(Ops)
    BY <1>1
  <2>3. (y4 \o s5) \o SetIs2(h) = y4 \o (s5 \o SetIs2(h))
    BY <2>1, <2>2, Reassociated
  <2> QED BY <2>1, <2>3, <1>9
<1>27. y4 \o GetSet(h) = y3 \o SetSet(h)
  <2>1. y4 = y3 \o s4 /\ y3 \in Seq(Ops) /\ s4 \in Seq(Ops)
    BY <1>5, <1>6, <1>7, <1>8, <1>9, <1>10, <1>11, <1>12, <1>17, <1>15
  <2>2. GetSet(h) \in Seq(Ops)
    BY <1>1
  <2>3. (y3 \o s4) \o GetSet(h) = y3 \o (s4 \o GetSet(h))
    BY <2>1, <2>2, Reassociated
  <2> QED BY <2>1, <2>3, <1>8
<1>28. y3 \o SetSet(h) = y2 \o Test2(h)
  <2>1. y3 = y2 \o s3 /\ y2 \in Seq(Ops) /\ s3 \in Seq(Ops)
    BY <1>5, <1>6, <1>7, <1>8, <1>9, <1>10, <1>11, <1>12, <1>16, <1>15
  <2>2. SetSet(h) \in Seq(Ops)
    BY <1>1
  <2>3. (y2 \o s3) \o SetSet(h) = y2 \o (s3 \o SetSet(h))
    BY <2>1, <2>2, Reassociated
  <2> QED BY <2>1, <2>3, <1>7
<1>29. y2 \o Test2(h) = s1 \o Test1(h)
  <2>1. y2 = s1 \o s2 /\ s1 \in Seq(Ops) /\ s2 \in Seq(Ops)
    BY <1>5, <1>6, <1>7, <1>8, <1>9, <1>10, <1>11, <1>12, <1>15
  <2>2. Test2(h) \in Seq(Ops)
    BY <1>1
  <2>3. (s1 \o s2) \o Test2(h) = s1 \o (s2 \o Test2(h))
    BY <2>1, <2>2, Reassociated
  <2> QED BY <2>1, <2>3, <1>6
<1> QED BY <1>5, <1>13, <1>14, <1>23, <1>24, <1>25, <1>26, <1>27, <1>28, <1>29


-----------------------------------------------------------------------------
(***************************************************************************)
(* Type correctness.                                                       *)
(***************************************************************************)
LEMMA KeysAre ==
  ASSUME NEW k \in Keys, NEW released \in BOOLEAN
  PROVE  /\ Code(k) \in Bytes \ {0, EXTENDED, RELEASED}
         /\ Sent(k, released) \in Seq(Bytes) /\ Sent(k, released) # << >>
<1>1. k \in {"a", "one", "up", "lshift", "rctrl"}
  BY KeyAssumption
<1>2. Code(k) \in Bytes \ {0, EXTENDED, RELEASED}
  BY <1>1 DEF Code, Bytes, EXTENDED, RELEASED
<1>3. <<EXTENDED>> \in Seq(Bytes) /\ <<RELEASED>> \in Seq(Bytes) /\ << >> \in Seq(Bytes) /\ <<Code(k)>> \in Seq(Bytes)
  BY <1>2 DEF Bytes, EXTENDED, RELEASED
<1> DEFINE e == IF IsExtended(k) THEN <<EXTENDED>> ELSE << >>
           r == IF released THEN <<RELEASED>> ELSE << >>
           c == <<Code(k)>>
<1>4. e \in Seq(Bytes) /\ r \in Seq(Bytes) /\ c \in Seq(Bytes) /\ Len(c) = 1
  BY <1>3
<1>5. Sent(k, released) = (e \o r) \o c
  BY DEF Sent
<1> HIDE DEF e, r, c
<1> DEFINE er == e \o r
<1>6. er \in Seq(Bytes)
  BY <1>4, ConcatProperties
<1> HIDE DEF er
<1>7. er \o c \in Seq(Bytes) /\ Len(er \o c) = Len(er) + Len(c)
  <2>1. c \in Seq(Bytes)
    BY <1>4
  <2> QED BY <2>1, <1>6, ConcatProperties
<1>8. Len(er) \in Nat /\ Len(c) = 1
  BY <1>4, <1>6
<1>9. er \o c # << >>
  BY <1>7, <1>8
<1> QED BY <1>2, <1>5, <1>7, <1>9 DEF er

LEMMA OperationsAre ==
  ASSUME NEW t \in Seq(Ops), t # << >>
  PROVE  /\ Tail(t) \in Seq(Ops)
         /\ Head(t)[1] = "command" => Head(t)[2] \in Commands
         /\ Head(t)[1] \in {"data", "ack", "expect"} => Head(t)[2] \in Bytes
         /\ Head(t)[1] = "or_cfg" => Head(t)[2] \in {Int1, Int2}
<1>1. Head(t) \in Ops /\ Tail(t) \in Seq(Ops)
  OBVIOUS
<1> DEFINE op == Head(t)
<1>2. op \in Ops
  BY <1>1
<1> HIDE DEF op
<1>3. /\ op[1] = "command" => op[2] \in Commands
      /\ op[1] \in {"data", "ack", "expect"} => op[2] \in Bytes
      /\ op[1] = "or_cfg" => op[2] \in {Int1, Int2}
  BY <1>2 DEF Ops
<1> QED BY <1>1, <1>3 DEF op

LEMMA SayTyped ==
  ASSUME WiresTyped, NEW src \in Sources, NEW bytes \in Seq(Bytes), Say(src, bytes)
  PROVE  sent' \in [Sources -> Seq(Bytes)]
<1>1. sent[src] \in Seq(Bytes)
  BY DEF WiresTyped
<1>2. sent[src] \o bytes \in Seq(Bytes)
  BY <1>1, ConcatProperties
<1> QED BY <1>2 DEF WiresTyped, Say

LEMMA ReadTyped ==
  ASSUME WiresTyped, ControllerTyped, ReadData
  PROVE  WiresTyped' /\ ControllerTyped'
<1>1. out' \in [src : Sources, new : BOOLEAN, byte : Bytes]
  BY DEF WiresTyped, ReadData
<1>2. requests' \subseteq {"keyboard", "mouse"} /\ sent' \in [Sources -> Seq(Bytes)]
  BY DEF WiresTyped, ReadData
<1>3. ControllerTyped'
  BY DEF ControllerTyped, ReadData, controller
<1> QED BY <1>1, <1>2, <1>3 DEF WiresTyped

LEMMA DeliverTyped ==
  ASSUME WiresTyped, ControllerTyped, Deliver
  PROVE  WiresTyped' /\ ControllerTyped'
<1>1. ControllerTyped'
  BY DEF ControllerTyped, Deliver, controller
<1>2. DOMAIN sent = Sources
  BY DEF WiresTyped
<1>3. PICK src \in Arriving :
        /\ out' = [src |-> src, new |-> TRUE,
                   byte |-> IF src = "keyboard" THEN Translated(Head(sent[src])) ELSE Head(sent[src])]
        /\ sent' = [sent EXCEPT ![src] = Tail(@)]
        /\ requests' = IF Interrupts(src) THEN requests \cup {src} ELSE requests
  BY DEF Deliver
<1>4. src \in Sources /\ sent[src] # << >> /\ sent[src] \in Seq(Bytes)
  BY <1>2, <1>3 DEF Arriving, WiresTyped
<1>5. Head(sent[src]) \in Bytes /\ Tail(sent[src]) \in Seq(Bytes)
  BY <1>4
<1>6. Translated(Head(sent[src])) \in Bytes
  BY <1>5 DEF Translated, Bytes
<1>7. out' \in [src : Sources, new : BOOLEAN, byte : Bytes]
  BY <1>3, <1>4, <1>5, <1>6
<1>8. sent' \in [Sources -> Seq(Bytes)]
  BY <1>3, <1>5 DEF WiresTyped
<1>9. Interrupts(src) => src \in {"keyboard", "mouse"}
  BY <1>4 DEF Interrupts, Sources
<1>10. requests' \subseteq {"keyboard", "mouse"}
  BY <1>3, <1>9 DEF WiresTyped
<1> QED BY <1>1, <1>7, <1>8, <1>10 DEF WiresTyped


LEMMA CommandTyped ==
  ASSUME WiresTyped, ControllerTyped, NEW c \in Commands, TakeCommand(c), UNCHANGED <<out, requests>>
  PROVE  WiresTyped' /\ ControllerTyped'
<1>1. config \in Bytes /\ machine.resets \in BOOLEAN /\ machine.port2 \in BOOLEAN
  BY DEF ControllerTyped
<1>2. \A mask \in Masks : SetBit(config, mask) \in Bytes /\ ClearBit(config, mask) \in Bytes
  BY <1>1, BitKeepsByte
<1>3. Configured(c) \in Bytes
  <2>1. Off1 \in Masks /\ Off2 \in Masks
    BY DEF Masks
  <2>2. Translate + Off2 + Int1 \in Bytes
    BY DEF Translate, Off2, Int1, Bytes
  <2> QED BY <1>1, <1>2, <2>1, <2>2 DEF Configured
<1>4. Answer(c) \in Seq(Bytes)
  <2>1. <<config>> \in Seq(Bytes) /\ << >> \in Seq(Bytes)
    BY <1>1
  <2>2. <<CTRL_TEST_OK>> \in Seq(Bytes) /\ <<0>> \in Seq(Bytes)
    BY DEF CTRL_TEST_OK, Bytes
  <2> QED BY <2>1, <2>2 DEF Answer
<1>5. sent' \in [Sources -> Seq(Bytes)]
  BY <1>4, SayTyped DEF TakeCommand, Sources
<1>6. config' \in Bytes
  BY <1>3 DEF TakeCommand
<1>7. expecting' \in {"config", "mouse", "keyboard"}
  BY DEF TakeCommand
<1>8. machine' = machine /\ keyboard' = keyboard /\ reporting' = reporting
  BY DEF TakeCommand
<1> QED BY <1>5, <1>6, <1>7, <1>8 DEF WiresTyped, ControllerTyped

LEMMA DataTyped ==
  ASSUME WiresTyped, ControllerTyped, NEW d \in Bytes, TakeData(d), UNCHANGED <<out, requests>>
  PROVE  WiresTyped' /\ ControllerTyped'
<1>1. expecting' = "keyboard" /\ machine' = machine
  BY DEF TakeData
<1>2. CASE expecting = "config"
  BY <1>1, <1>2 DEF TakeData, TakeConfig, WiresTyped, ControllerTyped
<1>3. CASE expecting = "mouse"
  <2>1. TakeMouse(d)
    BY <1>3 DEF TakeData
  <2>2. <<ACK, SELF_TEST_OK, 0>> \in Seq(Bytes) /\ <<ACK>> \in Seq(Bytes)
    BY DEF ACK, SELF_TEST_OK, Bytes
  <2>3. (IF d = RESET THEN <<ACK, SELF_TEST_OK, 0>> ELSE <<ACK>>) \in Seq(Bytes)
    BY <2>2
  <2>4. sent' \in [Sources -> Seq(Bytes)]
    BY <2>1, <2>3, SayTyped DEF TakeMouse, Sources
  <2> QED BY <1>1, <2>1, <2>4 DEF TakeMouse, WiresTyped, ControllerTyped
<1>4. CASE expecting = "keyboard"
  <2>1. TakeKeyboard(d)
    BY <1>4 DEF TakeData
  <2>2. keyboard.set \in Bytes /\ keyboard.waits \in BOOLEAN
    BY DEF ControllerTyped
  <2>3. keyboard' \in [set : Bytes, waits : BOOLEAN]
    <3>1. SET_SCANCODE2 \in Bytes
      BY DEF SET_SCANCODE2, Bytes
    <3>2. keyboard' = [set |-> IF d = RESET THEN SET_SCANCODE2
                               ELSE IF keyboard.waits /\ d # GET_SCANCODE THEN d ELSE keyboard.set,
                       waits |-> d = SCANCODE]
      BY <2>1 DEF TakeKeyboard
    <3>3. (IF d = RESET THEN SET_SCANCODE2
           ELSE IF keyboard.waits /\ d # GET_SCANCODE THEN d ELSE keyboard.set) \in Bytes
      BY <3>1, <2>2
    <3>4. (d = SCANCODE) \in BOOLEAN
      OBVIOUS
    <3> QED BY <3>2, <3>3, <3>4
  <2> DEFINE b == CASE ~machine.keyboard -> << >>
                    [] d = RESET -> <<ACK, SELF_TEST_OK>>
                    [] keyboard.waits /\ d = GET_SCANCODE -> <<ACK, keyboard.set>>
                    [] OTHER -> <<ACK>>
  <2>4. b \in Seq(Bytes)
    <3>1. ACK \in Bytes /\ SELF_TEST_OK \in Bytes
      BY DEF ACK, SELF_TEST_OK, Bytes
    <3>2. << >> \in Seq(Bytes) /\ <<ACK, SELF_TEST_OK>> \in Seq(Bytes) /\ <<ACK, keyboard.set>> \in Seq(Bytes)
          /\ <<ACK>> \in Seq(Bytes)
      BY <3>1, <2>2
    <3> QED BY <3>2
  <2>5. Say("keyboard", b)
    BY <2>1 DEF TakeKeyboard
  <2> HIDE DEF b
  <2>6. sent' \in [Sources -> Seq(Bytes)]
    BY <2>4, <2>5, SayTyped DEF Sources
  <2> QED BY <1>1, <2>1, <2>3, <2>6 DEF TakeKeyboard, WiresTyped, ControllerTyped
<1> QED BY <1>2, <1>3, <1>4 DEF ControllerTyped

LEMMA InitTyped ==
  ASSUME WiresTyped, ControllerTyped, DriverTyped, HistoryTyped, PS2_init
  PROVE  WiresTyped' /\ ControllerTyped' /\ DriverTyped' /\ HistoryTyped'
<1> USE DEF Do, GoOn, Arg, KERNEL_PANIC
<1>1. /\ todo # << >> => Tail(todo) \in Seq(Ops)
      /\ todo # << >> /\ Head(todo)[1] = "command" => Head(todo)[2] \in Commands
      /\ todo # << >> /\ Head(todo)[1] = "data" => Head(todo)[2] \in Bytes
      /\ todo # << >> /\ Head(todo)[1] = "or_cfg" => Head(todo)[2] \in Masks
  <2>1. todo \in Seq(Ops)
    BY DEF DriverTyped
  <2> QED BY <2>1, OperationsAre DEF Masks
<1>2. cfg \in Bytes /\ out.byte \in Bytes
  BY DEF DriverTyped, WiresTyped
<1>3. CASE SendCommand
  BY <1>1, <1>3, CommandTyped DEF SendCommand, history, DriverTyped, HistoryTyped
<1>4. CASE SendData
  BY <1>1, <1>4, DataTyped DEF SendData, history, DriverTyped, HistoryTyped
<1>5. CASE SendConfig
  BY <1>1, <1>2, <1>5, DataTyped DEF SendConfig, history, DriverTyped, HistoryTyped
<1>6. CASE OrConfig
  <2>1. cfg' \in Bytes
    BY <1>1, <1>2, <1>6, BitKeepsByte DEF OrConfig
  <2> QED BY <1>1, <1>6, <2>1 DEF OrConfig, controller, wires, history, DriverTyped, HistoryTyped,
              ControllerTyped, WiresTyped
<1>7. CASE PollAck
  BY <1>1, <1>7, ReadTyped DEF PollAck, history, DriverTyped, HistoryTyped
<1>8. CASE PollTimesOut
  BY <1>1, <1>8 DEF PollTimesOut, controller, wires, history, DriverTyped, HistoryTyped,
     ControllerTyped, WiresTyped
<1>9. Early \in BOOLEAN /\ (late \/ Early) \in BOOLEAN
  BY DEF Early, HistoryTyped
<1>10. CASE Read
  BY <1>1, <1>9, <1>10, ReadTyped DEF Read, DriverTyped, HistoryTyped
<1>11. CASE Expect
  BY <1>1, <1>9, <1>11, ReadTyped DEF Expect, DriverTyped, HistoryTyped
<1>12. CASE ReadConfig
  <2>1. /\ Int1 \in Masks /\ Translate \in Masks /\ Off1 \in Masks
    BY DEF Masks
  <2>2. ClearBit(out.byte, Int1) \in Bytes
    BY <1>2, <2>1, BitKeepsByte
  <2>3. ClearBit(ClearBit(out.byte, Int1), Translate) \in Bytes
    BY <2>1, <2>2, BitKeepsByte
  <2>4. ClearBit(ClearBit(ClearBit(out.byte, Int1), Translate), Off1) \in Bytes
    BY <2>1, <2>3, BitKeepsByte
  <2>5. cfg' \in Bytes
    BY <1>12, <2>4 DEF ReadConfig
  <2> QED BY <1>1, <1>9, <1>12, <2>5, ReadTyped DEF ReadConfig, DriverTyped, HistoryTyped
<1>13. CASE DetectPort2
  <2>1. PICK h \in BOOLEAN : h = ~Bits(out.byte, Off2)
    BY DEF Bits
  <2>2. todo' \in Seq(Ops)
    BY <1>13, <2>1, SettleIs DEF DetectPort2
  <2>3. /\ Int2 \in Masks /\ Off2 \in Masks
    BY DEF Masks
  <2>4. ClearBit(out.byte, Int2) \in Bytes
    BY <1>2, <2>3, BitKeepsByte
  <2>5. ClearBit(ClearBit(out.byte, Int2), Off2) \in Bytes
    BY <2>3, <2>4, BitKeepsByte
  <2>6. cfg' \in Bytes
    BY <1>2, <1>13, <2>5 DEF DetectPort2
  <2> QED BY <1>9, <1>13, <2>2, <2>6, ReadTyped DEF DetectPort2, DriverTyped, HistoryTyped
<1>14. CASE InitDone
  BY <1>14 DEF InitDone, controller, wires, history, DriverTyped, HistoryTyped,
     ControllerTyped, WiresTyped
<1> QED BY <1>3, <1>4, <1>5, <1>6, <1>7, <1>8, <1>10, <1>11, <1>12, <1>13, <1>14 DEF PS2_init


LEMMA CharTyped ==
  ASSUME HandlerTyped, DecoderTyped, PS2_get_char
  PROVE  HandlerTyped' /\ DecoderTyped'
<1> DEFINE c == Head(queue)
           k == Decoded(c)
           m == IF c \in {EXTENDED, RELEASED} THEN mod ELSE mod \cup ({Modifier(c, key.extended)} \ {"none"})
<1>1. queue \in Seq(Bytes) /\ queue # << >> /\ queue' = Tail(queue) /\ eaten' = eaten + 1 /\ mod' = m
      /\ (IF k.scancode = 0 THEN key' = k /\ UNCHANGED event ELSE key' = NoKey /\ Return(k, m))
      /\ UNCHANGED <<handler, stolen, full>>
  BY DEF PS2_get_char, HandlerTyped
<1>2. c \in Bytes /\ Tail(queue) \in Seq(Bytes) /\ Len(Tail(queue)) <= Len(queue)
  BY <1>1
<1>3. Len(queue) \in Nat /\ Len(Tail(queue)) \in Nat /\ RingSize \in Nat
  BY <1>1, <1>2, BoundAssumption
<1>4. HandlerTyped'
  BY <1>1, <1>2, <1>3 DEF HandlerTyped
<1>5. Modifier(c, key.extended) \in Modifiers \cup {"none"}
  BY DEF Modifier, Modifiers
<1>6. mod' \subseteq Modifiers
  BY <1>1, <1>5 DEF DecoderTyped
<1>7. k \in [scancode : Bytes, released : BOOLEAN, extended : BOOLEAN]
  <2>1. key \in [scancode : Bytes, released : BOOLEAN, extended : BOOLEAN]
    BY DEF DecoderTyped, Bytes
  <2> HIDE DEF c
  <2> QED BY <1>2, <2>1 DEF Decoded, Bytes
<1> HIDE DEF k, m, c
<1>8. key' \in [scancode : {0}, released : BOOLEAN, extended : BOOLEAN]
  <2>1. CASE k.scancode = 0
    <3>1. key' = k
      BY <1>1, <2>1
    <3>2. k.released \in BOOLEAN /\ k.extended \in BOOLEAN
          /\ k = [scancode |-> k.scancode, released |-> k.released, extended |-> k.extended]
      BY <1>7
    <3>3. [scancode |-> k.scancode, released |-> k.released, extended |-> k.extended]
          \in [scancode : {0}, released : BOOLEAN, extended : BOOLEAN]
      BY <2>1, <3>2
    <3> QED BY <3>1, <3>2, <3>3
  <2>2. CASE k.scancode # 0
    <3>1. key' = NoKey
      BY <1>1, <2>2
    <3> QED BY <3>1 DEF NoKey
  <2> QED BY <2>1, <2>2
<1>9. event'.after \in Nat /\ event'.at \in Nat
  BY <1>1 DEF Return, DecoderTyped
<1>10. eaten' \in Nat
  BY <1>1 DEF DecoderTyped
<1> QED BY <1>4, <1>6, <1>8, <1>9, <1>10 DEF DecoderTyped

LEMMA HitTyped ==
  ASSUME Typed, NEW k \in Keys, Hit(k)
  PROVE  Typed'
<1>1. PICK released \in BOOLEAN : released = (k \in held)
  <2>1. (k \in held) \in BOOLEAN
    OBVIOUS
  <2> QED BY <2>1, Zenon
<1> DEFINE bytes == Sent(k, released)
<1>2. bytes \in Seq(Bytes)
  BY KeysAre
<1>3. /\ Say("keyboard", bytes)
      /\ held' = (IF released THEN held \ {k} ELSE held \cup {k})
      /\ acts' = Append(acts, [key |-> k, released |-> released, end |-> Acted + Len(bytes)])
      /\ early' = (early \/ pc = "init")
      /\ UNCHANGED <<driver, controller, out, requests, late, irq, decoder, moves>>
  BY <1>1 DEF Hit
<1> HIDE DEF bytes
<1>4. sent' \in [Sources -> Seq(Bytes)]
  BY <1>2, <1>3, SayTyped DEF Typed, Sources
<1>5. Acted + Len(bytes) \in Nat
  <2>1. acts \in Seq(Actions)
    BY DEF Typed, UserTyped
  <2>2. acts # << >> => Len(acts) \in 1 .. Len(acts) /\ acts[Len(acts)] \in Actions
    BY <2>1
  <2>3. Acted \in Nat
    BY <2>2 DEF Acted, Actions
  <2> QED BY <1>2, <2>3
<1>6. UserTyped'
  <2>1. [key |-> k, released |-> released, end |-> Acted + Len(bytes)] \in Actions
    BY <1>5 DEF Actions
  <2>2. acts \in Seq(Actions) /\ moves \in Nat /\ held \subseteq Keys
    BY DEF Typed, UserTyped
  <2>3. acts' \in Seq(Actions)
    BY <1>3, <2>1, <2>2
  <2> QED BY <1>3, <2>2, <2>3 DEF UserTyped
<1>7. WiresTyped'
  BY <1>3, <1>4 DEF Typed, WiresTyped
<1>8. ControllerTyped' /\ DriverTyped'
  BY <1>3 DEF Typed, ControllerTyped, DriverTyped, controller, driver
<1>9. HistoryTyped'
  BY <1>3 DEF Typed, HistoryTyped
<1>10. HandlerTyped' /\ DecoderTyped'
  BY <1>3 DEF Typed, HandlerTyped, DecoderTyped, irq, decoder
<1> QED BY <1>6, <1>7, <1>8, <1>9, <1>10 DEF Typed

LEMMA KeyboardStep == Typed /\ [Next]_vars => Typed'
<1> SUFFICES ASSUME Typed, [Next]_vars
             PROVE  Typed'
  OBVIOUS
<1>0. WiresTyped /\ ControllerTyped /\ DriverTyped /\ HistoryTyped /\ HandlerTyped /\ DecoderTyped /\ UserTyped
  BY DEF Typed
<1>1. CASE InitStep
  <2>1. WiresTyped' /\ ControllerTyped' /\ DriverTyped' /\ HistoryTyped'
    BY <1>0, <1>1, InitTyped DEF InitStep
  <2>2. HandlerTyped' /\ DecoderTyped' /\ UserTyped'
    BY <1>0, <1>1 DEF InitStep, HandlerTyped, DecoderTyped, UserTyped, irq, decoder, user
  <2> QED BY <2>1, <2>2 DEF Typed
<1>2. CASE DeliverStep
  <2>1. WiresTyped' /\ ControllerTyped'
    BY <1>0, <1>2, DeliverTyped DEF DeliverStep
  <2>2. DriverTyped' /\ HistoryTyped'
    BY <1>0, <1>2 DEF DeliverStep, Deliver, DriverTyped, HistoryTyped, driver, history
  <2>3. HandlerTyped' /\ DecoderTyped' /\ UserTyped'
    BY <1>0, <1>2 DEF DeliverStep, HandlerTyped, DecoderTyped, UserTyped, irq, decoder, user
  <2> QED BY <2>1, <2>2, <2>3 DEF Typed
<1>3. ASSUME NEW src \in {"keyboard", "mouse"}, Enter(src) PROVE Typed'
  BY <1>0, <1>3 DEF Typed, Enter, WiresTyped, ControllerTyped, DriverTyped, HistoryTyped, HandlerTyped,
     DecoderTyped, UserTyped, driver, controller, history, decoder, user
<1>4. CASE keyboard_handler
  <2>1. WiresTyped' /\ ControllerTyped'
    BY <1>0, <1>4, ReadTyped DEF keyboard_handler
  <2>2. queue' \in Seq(Bytes) /\ Len(queue') <= RingSize
    <3>1. queue' = Kept(queue, out.byte) /\ out.byte \in Bytes /\ queue \in Seq(Bytes) /\ Len(queue) <= RingSize
      BY <1>0, <1>4 DEF keyboard_handler, WiresTyped, HandlerTyped
    <3>2. Append(queue, out.byte) \in Seq(Bytes) /\ Len(Append(queue, out.byte)) = Len(queue) + 1
      BY <3>1
    <3>3. Len(queue) \in Nat /\ RingSize \in Nat
      BY <3>1, BoundAssumption
    <3> QED BY <3>1, <3>2, <3>3 DEF Kept
  <2>3. stolen' \in BOOLEAN /\ full' \in BOOLEAN
    BY <1>0, <1>4 DEF keyboard_handler, Stolen, HandlerTyped
  <2>4. HandlerTyped'
    BY <1>4, <2>2, <2>3 DEF keyboard_handler, HandlerTyped
  <2>5. DriverTyped' /\ HistoryTyped' /\ DecoderTyped' /\ UserTyped'
    BY <1>0, <1>4 DEF keyboard_handler, DriverTyped, HistoryTyped, DecoderTyped, UserTyped, driver, history,
       decoder, user
  <2> QED BY <2>1, <2>4, <2>5 DEF Typed
<1>5. CASE keyboard_handler_times_out
  BY <1>0, <1>5 DEF keyboard_handler_times_out, KERNEL_PANIC, Typed, WiresTyped, ControllerTyped, DriverTyped,
     HistoryTyped, HandlerTyped, DecoderTyped, UserTyped, wires, controller, history, irq, decoder, user
<1>6. CASE mouse_handler
  <2>1. WiresTyped' /\ ControllerTyped'
    BY <1>0, <1>6, ReadTyped DEF mouse_handler
  <2>2. HandlerTyped'
    BY <1>0, <1>6 DEF mouse_handler, After, Stolen, HandlerTyped
  <2>3. DriverTyped' /\ HistoryTyped' /\ DecoderTyped' /\ UserTyped'
    BY <1>0, <1>6 DEF mouse_handler, DriverTyped, HistoryTyped, DecoderTyped, UserTyped, driver, history,
       decoder, user
  <2> QED BY <2>1, <2>2, <2>3 DEF Typed
<1>7. CASE PS2_get_char
  <2>1. HandlerTyped' /\ DecoderTyped'
    BY <1>0, <1>7, CharTyped
  <2> QED BY <1>0, <1>7, <2>1 DEF PS2_get_char, Typed, WiresTyped, ControllerTyped, DriverTyped,
             HistoryTyped, UserTyped, ps2, driver, controller, wires, history, user
<1>8. ASSUME NEW k \in Keys, Hit(k) PROVE Typed'
  BY <1>8, HitTyped
<1>9. CASE Move
  <2>1. <<8, 1, 0>> \in Seq(Bytes)
    BY DEF Bytes
  <2>2. sent' \in [Sources -> Seq(Bytes)]
    BY <1>0, <1>9, <2>1, SayTyped DEF Move, Sources
  <2> QED BY <1>0, <1>9, <2>2 DEF Move, Typed, WiresTyped, ControllerTyped, DriverTyped, HistoryTyped,
             HandlerTyped, DecoderTyped, UserTyped, driver, controller, history, irq, decoder
<1>10. CASE UNCHANGED vars
  BY <1>0, <1>10 DEF Typed, WiresTyped, ControllerTyped, DriverTyped, HistoryTyped, HandlerTyped,
     DecoderTyped, UserTyped, vars, ps2, driver, controller, wires, history, irq, decoder, user
<1> QED BY <1>1, <1>2, <1>3, <1>4, <1>5, <1>6, <1>7, <1>8, <1>9, <1>10 DEF Next, Handle, Stop

LEMMA KeyboardInit == Init => Typed
<1> SUFFICES ASSUME Init
             PROVE  Typed
  OBVIOUS
<1>1. ControllerInit /\ DriverInit
  BY DEF Init
<1>2. ControllerTyped
  <2>1. Translate + Int1 + Off2 \in Bytes
    BY DEF Translate, Int1, Off2, Bytes
  <2>2. \A s \in Sets : s \in Bytes
    BY SetAssumption DEF Bytes
  <2>3. keyboard \in [set : Bytes, waits : BOOLEAN]
    BY <1>1, <2>2 DEF ControllerInit
  <2> QED BY <1>1, <2>1, <2>3 DEF ControllerInit, ControllerTyped
<1>3. WiresTyped
  <2>1. << >> \in Seq(Bytes)
    OBVIOUS
  <2>2. Leftover \in Bytes
    BY SetAssumption DEF Bytes
  <2>3. out \in [src : Sources, new : BOOLEAN, byte : Bytes]
    BY <1>1, <2>2 DEF ControllerInit, Sources
  <2>4. sent \in [Sources -> Seq(Bytes)]
    BY <1>1, <2>1 DEF ControllerInit, Sources
  <2> QED BY <1>1, <2>3, <2>4 DEF ControllerInit, WiresTyped
<1>4. DriverTyped /\ HistoryTyped
  <2>1. todo \in Seq(Ops)
    BY <1>1, DetectIs, DetectTyped DEF DriverInit
  <2>2. late \in BOOLEAN /\ early \in BOOLEAN
    BY <1>1, Zenon DEF DriverInit
  <2> QED BY <1>1, <2>1, <2>2 DEF DriverInit, DriverTyped, HistoryTyped, Bytes
<1>5. HandlerTyped
  <2>1. RingSize \in Nat
    BY BoundAssumption
  <2>2. << >> \in Seq(Bytes) /\ Len(<< >>) = 0
    OBVIOUS
  <2>3. queue = << >> /\ handler = "none" /\ stolen = FALSE /\ full = FALSE
    BY DEF Init
  <2>4. stolen \in BOOLEAN /\ full \in BOOLEAN
    BY <2>3, Zenon
  <2>5. queue \in Seq(Bytes) /\ Len(queue) <= RingSize
    BY <2>1, <2>2, <2>3
  <2> QED BY <2>3, <2>4, <2>5 DEF HandlerTyped
<1>6. DecoderTyped
  BY DEF Init, DecoderTyped, NoKey
<1>7. UserTyped
  BY DEF Init, UserTyped
<1> QED BY <1>2, <1>3, <1>4, <1>5, <1>6, <1>7 DEF Typed

(***************************************************************************)
(* The variables of the controller and the driver keep their types: bytes  *)
(* stay bytes, the ring holds no more than RingSize codes, and between two *)
(* bytes PS2_get_char keeps no scancode.                                   *)
(***************************************************************************)
THEOREM KeyboardTypes == Spec => []TypeOK
<1>1. Typed => TypeOK
  <2> SUFFICES ASSUME Typed
               PROVE  TypeOK
    OBVIOUS
  <2>1. /\ pc \in {"init", "up", "panic"} /\ config \in Bytes /\ cfg \in Bytes /\ out.byte \in Bytes
        /\ expecting \in {"config", "mouse", "keyboard"} /\ keyboard.set \in Bytes
        /\ requests \subseteq {"keyboard", "mouse"}
    BY DEF Typed, WiresTyped, ControllerTyped, DriverTyped
  <2>2. handler \in {"none", "keyboard", "mouse0", "mouse1", "mouse2"} /\ queue \in Seq(Bytes)
        /\ Len(queue) <= RingSize /\ key.scancode = 0 /\ mod \subseteq Modifiers
    BY DEF Typed, HandlerTyped, DecoderTyped
  <2>3. \A i \in DOMAIN queue : queue[i] \in Bytes
    BY <2>2
  <2> QED BY <2>1, <2>2, <2>3 DEF TypeOK, Bytes, Modifiers
<1> QED BY <1>1, KeyboardInit, KeyboardStep, PTL DEF Spec

-----------------------------------------------------------------------------
(***************************************************************************)
(* Where PS2_init can be, as long as it has not been too early and no key  *)
(* was hit.  At says what is left to do and what the controller has been   *)
(* told; beside it stands what is on its way to the output buffer.         *)
(***************************************************************************)
Quiet == ~out.new /\ \A s \in Sources : sent[s] = << >>
Stale == \A s \in Sources : sent[s] = << >>

Seen(src, b) == IF src = "keyboard" THEN Translated(b) ELSE b

\* Nothing but these bytes of src is on its way, the first one in the buffer or not.
Stream(src, bytes) ==
  /\ \A s \in Sources \ {src} : sent[s] = << >>
  /\ \/ ~out.new /\ sent[src] = bytes
     \/ /\ out.new /\ out.src = src /\ bytes # << >>
        /\ out.byte = Seen(src, Head(bytes)) /\ sent[src] = Tail(bytes)

\* No byte of a device arrives while the interrupts of the ports are on.
Calm == machine.resets
        \/ /\ requests = {}
           /\ Bits(config, Int1) \/ Bits(config, Int2) => sent["keyboard"] = << >> /\ sent["mouse"] = << >>

At(t, e, w, c, f, v) ==
  /\ todo = t /\ expecting = e /\ keyboard.waits = w /\ config = c /\ cfg = f /\ reporting = v
  /\ Calm

\* The configuration before and after the second port is looked for, and at the end.
Tested(m) == IF m.resets THEN 97 ELSE 32
Base(m) == (IF m.resets THEN 65 ELSE 0) + (IF m.port2 THEN 0 ELSE 32)
Final(m) == IF m.port2 THEN 3 ELSE 33

Starting(m) ==
  \/ At(Detecting, "keyboard", FALSE, 97, 0, FALSE) /\ Stale
  \/ At(DisableSecond, "keyboard", FALSE, 113, 0, FALSE) /\ Stale
  \/ At(Flush, "keyboard", FALSE, 113, 0, FALSE) /\ Stale
  \/ At(AskCfg, "keyboard", FALSE, 113, 0, FALSE) /\ Quiet
  \/ At(TakeCfg, "keyboard", FALSE, 113, 0, FALSE) /\ Stream("controller", <<113>>)
  \/ At(Store(Check), "keyboard", FALSE, 113, 32, FALSE) /\ Quiet
  \/ At(Then(PutCfg, Check), "config", FALSE, 113, 32, FALSE) /\ Quiet
  \/ At(Check, "keyboard", FALSE, 32, 32, FALSE) /\ Quiet
  \/ At(Checked, "keyboard", FALSE, Tested(m), 32, FALSE) /\ Stream("controller", <<CTRL_TEST_OK>>)
  \/ At(Second, "keyboard", FALSE, Tested(m), 32, FALSE) /\ Quiet
  \/ At(Look, "keyboard", FALSE, Base(m), 32, FALSE) /\ Quiet
  \/ At(Found, "keyboard", FALSE, Base(m), 32, FALSE) /\ Stream("controller", <<Base(m)>>)

Settled(t, m) == At(t, "keyboard", FALSE, Base(m), Base(m), FALSE)

Testing(m) ==
  \/ /\ m.port2
     /\ \/ Settled(Disable2, m) /\ Quiet
        \/ At(Store(Test1(TRUE)), "keyboard", FALSE, Base(m) + 32, Base(m), FALSE) /\ Quiet
        \/ At(Then(PutCfg, Test1(TRUE)), "config", FALSE, Base(m) + 32, Base(m), FALSE) /\ Quiet
        \/ Settled(Then(Exp(0), SetSet(TRUE)), m) /\ Stream("controller", <<0>>)
  \/ Settled(Test1(m.port2), m) /\ Quiet
  \/ Settled(Then(Exp(0), Test2(m.port2)), m) /\ Stream("controller", <<0>>)
  \/ Settled(Test2(m.port2), m) /\ Quiet
  \/ Settled(SetSet(m.port2), m) /\ Quiet

\* F0h has been sent: the keyboard waits for a parameter.
Waiting(t, m) == At(t, "keyboard", TRUE, Base(m), Base(m), FALSE)

Setting(m) ==
  \/ /\ Waiting(Then(Ack, Exchange(SET_SCANCODE2, GetSet(m.port2))), m)
     /\ Stream("keyboard", IF m.keyboard THEN <<ACK>> ELSE << >>)
  \/ /\ m.keyboard
     /\ \/ Waiting(Exchange(SET_SCANCODE2, GetSet(m.port2)), m) /\ Quiet
        \/ /\ keyboard.set = SET_SCANCODE2
           /\ \/ Settled(Then(Ack, GetSet(m.port2)), m) /\ Stream("keyboard", <<ACK>>)
              \/ Settled(GetSet(m.port2), m) /\ Quiet
              \/ Waiting(Then(Ack, Exchange(GET_SCANCODE, SetIs2(m.port2))), m) /\ Stream("keyboard", <<ACK>>)
              \/ Waiting(Exchange(GET_SCANCODE, SetIs2(m.port2)), m) /\ Quiet
              \/ Settled(Then(Ack, SetIs2(m.port2)), m) /\ Stream("keyboard", <<ACK, SET_SCANCODE2>>)
              \/ Settled(SetIs2(m.port2), m) /\ Stream("keyboard", <<SET_SCANCODE2>>)

ToMouse(t, m) == At(t, "mouse", FALSE, Base(m), Base(m), FALSE)

Resetting(m) ==
  \/ Settled(KeyboardReset(m.port2), m) /\ Quiet
  \/ Settled(Then(Ack, Confirm(MouseReset(m.port2))), m) /\ Stream("keyboard", <<ACK, SELF_TEST_OK>>)
  \/ Settled(Confirm(MouseReset(m.port2)), m) /\ Stream("keyboard", <<SELF_TEST_OK>>)
  \/ Settled(Then(Drop, Then(Drop, MouseReset(m.port2))), m) /\ Quiet
  \/ Settled(Then(Drop, MouseReset(m.port2)), m) /\ Quiet
  \/ Settled(MouseReset(m.port2), m) /\ Quiet
  \/ /\ m.port2
     /\ \/ ToMouse(Reset(Mouse1), m) /\ Quiet
        \/ Settled(Then(Ack, Confirm(Mouse1)), m) /\ Stream("mouse", <<ACK, SELF_TEST_OK, 0>>)
        \/ Settled(Confirm(Mouse1), m) /\ Stream("mouse", <<SELF_TEST_OK, 0>>)
        \/ Settled(Then(Drop, Then(Drop, Mouse1)), m) /\ Stream("mouse", <<0>>)
        \/ Settled(Then(Drop, Mouse1), m) /\ Quiet

Telling(d, r, v, m) ==
  \/ Settled(Report(d, r), m) /\ Quiet
  \/ ToMouse(Exchange(d, r), m) /\ Quiet
  \/ At(Then(Ack, r), "keyboard", FALSE, Base(m), Base(m), v) /\ Stream("mouse", <<ACK>>)

Reporting(m) ==
  /\ m.port2
  /\ \/ Telling(SCALING1_1, Mouse2, FALSE, m) \/ Telling(RESOLUTION, Mouse3, FALSE, m)
     \/ Telling(0, Mouse4, FALSE, m) \/ Telling(SAMPLE_RATE, Mouse5, FALSE, m)
     \/ Telling(20, Mouse6, FALSE, m) \/ Telling(REPORTING, Enable(TRUE), TRUE, m)

Enabling(m) ==
  /\ Quiet
  /\ \/ At(Enable(m.port2), "keyboard", FALSE, Base(m), Base(m), m.port2)
     \/ At(Then(Or(1), Enabled1(m.port2)), "keyboard", FALSE, Base(m), Base(m), m.port2)
     \/ At(Enabled1(m.port2), "keyboard", FALSE, Base(m), Base(m) + 1, m.port2)
     \/ m.port2 /\ At(Then(Or(2), Store(<< >>)), "keyboard", FALSE, Base(m), Base(m) + 1, TRUE)
     \/ At(Store(<< >>), "keyboard", FALSE, Base(m), Final(m), m.port2)
     \/ At(Then(PutCfg, << >>), "config", FALSE, Base(m), Final(m), m.port2)
     \/ At(<< >>, "keyboard", FALSE, Final(m), Final(m), m.port2)

Right(m) == m.keyboard /\ ~m.resets /\ keyboard.set = SET_SCANCODE2

Place(m) == \/ Starting(m) \/ Testing(m) \/ Setting(m)
            \/ Right(m) /\ (Resetting(m) \/ Reporting(m) \/ Enabling(m))

\* While PS2_init runs nobody else does, but for a key that is hit too early.
Untouched ==
  /\ pc = "init" => /\ handler = "none" /\ queue = << >> /\ eaten = 0 /\ key = NoKey /\ event.at = 0
                    /\ moves = 0 /\ ~stolen /\ ~full
  /\ pc = "init" /\ ~early => acts = << >>
  /\ early => acts # << >>

Undisturbed == ~late /\ ~early

\* The driver is up: as InitRight says, and each request of the keyboard has its byte.
Up ==
  /\ Right(machine) /\ config = Final(machine) /\ reporting = machine.port2
  /\ acts = << >> /\ moves = 0 => Quiet
  /\ ~stolen => /\ "keyboard" \in requests \/ handler = "keyboard" => out.new /\ out.src = "keyboard"
                /\ handler = "keyboard" => "keyboard" \notin requests

Booted ==
  /\ pc = "init" /\ Undisturbed => Place(machine)
  /\ pc = "up" /\ Undisturbed => Up

\* The prefix of an extended key is followed by its code, or by RELEASED and its code.
Prefixes(p) == \E i \in DOMAIN acts :
  IsExtended(acts[i].key) /\ (acts[i].end = p + 1 \/ (acts[i].end = p + 2 /\ acts[i].released))

\* A byte that arrives at position p of what the keyboard has sent.
Meant(p, x) ==
  /\ \A i \in DOMAIN acts : acts[i].end = p => x = Code(acts[i].key)
  /\ \A i \in DOMAIN acts : acts[i].end = p + 1 /\ acts[i].released => x = RELEASED
  /\ x = RELEASED => \E i \in DOMAIN acts : acts[i].end = p + 1 /\ acts[i].released
  /\ x = EXTENDED => Prefixes(p)
  /\ x \notin {EXTENDED, RELEASED} => \E i \in DOMAIN acts : acts[i].end = p

Buffered == IF out.new /\ out.src = "keyboard" THEN 1 ELSE 0
Passed == eaten + Len(queue) + Buffered

\* No byte is lost, and none comes in another's place.
Carried ==
  /\ Passed + Len(sent["keyboard"]) = Acted
  /\ \A j \in 1 .. Len(queue) : Meant(eaten + j, queue[j])
  /\ out.new /\ out.src = "keyboard" => Meant(eaten + Len(queue) + 1, out.byte)
  /\ \A j \in 1 .. Len(sent["keyboard"]) : Meant(Passed + j, sent["keyboard"][j])

Ends ==
  /\ \A i \in DOMAIN acts : acts[i].end <= Acted
  /\ \A i, j \in DOMAIN acts : acts[i].end = acts[j].end => i = j

\* What PS2_get_char has taken since the last event: codes of modifiers, and with
\* `extended' the prefix at least of an extended key.
Taken ==
  /\ event.at <= eaten
  /\ \A i \in DOMAIN acts : acts[i].end \in event.at + 1 .. eaten => IsModifier(acts[i].key)
  /\ key.released <=> \E i \in DOMAIN acts : acts[i].released /\ acts[i].end \in event.at + 1 .. eaten + 1
  /\ key.extended => \E i \in DOMAIN acts :
       /\ IsExtended(acts[i].key) /\ acts[i].end > event.at
       /\ acts[i].end <= eaten + 1 \/ (acts[i].end = eaten + 2 /\ acts[i].released)

Decoding == pc = "up" /\ Clean => Carried /\ Ends /\ Taken



-----------------------------------------------------------------------------
(***************************************************************************)
(* The wires.                                                              *)
(***************************************************************************)
LEMMA DeliverKeeps ==
  ASSUME WiresTyped, NEW src \in Sources, NEW bytes \in Seq(Bytes), Stream(src, bytes), Calm, Deliver
  PROVE  Stream(src, bytes)' /\ Calm' /\ UNCHANGED <<controller, driver, history>>
<1>0. UNCHANGED <<controller, driver, history>>
  BY DEF Deliver
<1>1. PICK s \in Arriving :
        /\ ~out.new
        /\ out' = [src |-> s, new |-> TRUE,
                   byte |-> IF s = "keyboard" THEN Translated(Head(sent[s])) ELSE Head(sent[s])]
        /\ sent' = [sent EXCEPT ![s] = Tail(@)]
        /\ requests' = IF Interrupts(s) THEN requests \cup {s} ELSE requests
  BY DEF Deliver
<1>2. s \in Sources /\ sent[s] # << >>
  BY <1>1 DEF Arriving, WiresTyped
<1>3. s = src /\ sent[src] = bytes /\ bytes # << >>
  BY <1>1, <1>2 DEF Stream
<1>4. \A b : Translated(b)' = Translated(b)
  BY <1>0 DEF Translated, controller
<1>5. /\ out'.new /\ out'.src = src /\ out'.byte = Seen(src, Head(bytes))'
      /\ sent'[src] = Tail(bytes) /\ \A t \in Sources \ {src} : sent'[t] = << >>
  <2>1. out'.byte = IF src = "keyboard" THEN Translated(Head(bytes)) ELSE Head(bytes)
    BY <1>1, <1>3
  <2>2. Seen(src, Head(bytes))' = IF src = "keyboard" THEN Translated(Head(bytes)) ELSE Head(bytes)
    BY <1>4 DEF Seen
  <2> QED BY <1>1, <1>3, <2>1, <2>2 DEF Stream, WiresTyped
<1>6. Stream(src, bytes)'
  BY <1>3, <1>5 DEF Stream
<1>7. Calm'
  <2>1. CASE machine.resets
    BY <1>0, <2>1 DEF Calm, controller
  <2>2. CASE ~machine.resets
    <3>1. /\ requests = {}
          /\ Bits(config, Int1) \/ Bits(config, Int2) => sent["keyboard"] = << >> /\ sent["mouse"] = << >>
      BY <2>2 DEF Calm
    <3>2. ~Interrupts(s)
      BY <1>2, <3>1 DEF Interrupts, Sources
    <3>3. requests' = {} /\ config' = config
      BY <1>0, <1>1, <3>1, <3>2 DEF controller
    <3>4. Bits(config, Int1) \/ Bits(config, Int2) => sent'["keyboard"] = << >> /\ sent'["mouse"] = << >>
      BY <1>1, <1>2, <3>1 DEF WiresTyped, Sources
    <3> QED BY <3>3, <3>4 DEF Calm
  <2> QED BY <2>1, <2>2
<1> QED BY <1>0, <1>6, <1>7

\* A poll or a read in time finds the first byte.
LEMMA InTime ==
  ASSUME WiresTyped, NEW src \in Sources, NEW bytes \in Seq(Bytes), Stream(src, bytes), bytes # << >>,
         Connected(src)
  PROVE  Early \/ (out.new /\ out.byte = Seen(src, Head(bytes)))
BY DEF Stream, Early, Arriving, WiresTyped

LEMMA TakenAway ==
  ASSUME WiresTyped, NEW src \in Sources, NEW bytes \in Seq(Bytes), Stream(src, bytes), out.new, ReadData
  PROVE  Stream(src, Tail(bytes))' /\ bytes # << >>
BY DEF Stream, ReadData, WiresTyped

LEMMA SaysNext ==
  ASSUME WiresTyped, NEW src \in Sources, NEW bytes \in Seq(Bytes), Quiet, Say(src, bytes), UNCHANGED out
  PROVE  Stream(src, bytes)' /\ \A s \in Sources \ {src} : sent'[s] = << >>
<1>1. << >> \o bytes = bytes
  BY ConcatEmptySeq
<1>2. sent' = [sent EXCEPT ![src] = << >> \o bytes]
  BY DEF Quiet, Say
<1> QED BY <1>1, <1>2 DEF Quiet, Stream, WiresTyped

LEMMA QuietIs ==
  ASSUME NEW src \in Sources
  PROVE  Quiet <=> Stream(src, << >>)
BY DEF Quiet, Stream

LEMMA QuietThen ==
  ASSUME NEW src \in Sources
  PROVE  Quiet' <=> Stream(src, << >>)'
BY DEF Quiet, Stream


-----------------------------------------------------------------------------
(***************************************************************************)
(* One step of PS2_init, by the operation it is at.                        *)
(***************************************************************************)
Kinds == {"command", "data", "ack", "expect", "read", "read_cfg", "write_cfg", "detect", "or_cfg"}

LEMMA Dispatch ==
  ASSUME NEW op \in Ops, NEW r \in Seq(Ops), todo = Then(op, r), PS2_init
  PROVE  /\ op[1] = "command" => SendCommand /\ TakeCommand(op[2]) /\ todo' = r
         /\ op[1] = "data" => SendData /\ TakeData(op[2]) /\ todo' = r
         /\ op[1] = "write_cfg" => SendConfig /\ todo' = r
         /\ op[1] = "or_cfg" => OrConfig /\ cfg' = SetBit(cfg, op[2]) /\ todo' = r
         /\ op[1] = "read" => Read /\ todo' = r
         /\ op[1] = "read_cfg" => ReadConfig /\ todo' = r
         /\ op[1] = "detect" => DetectPort2
         /\ op[1] = "expect" => Expect /\ IF out.byte = op[2] THEN todo' = r /\ pc' = pc ELSE pc' = "panic"
         /\ op[1] = "ack" => \/ PollAck /\ IF out.byte = op[2] THEN todo' = r /\ pc' = pc ELSE pc' = "panic"
                             \/ PollTimesOut
<1>1. todo # << >> /\ Head(todo) = op /\ Tail(todo) = r
  BY ThenIs
<1> USE DEF Do, Arg, GoOn, KERNEL_PANIC
<1>2. SendCommand => op[1] = "command" /\ TakeCommand(op[2]) /\ todo' = r
  BY <1>1 DEF SendCommand
<1>3. SendData => op[1] = "data" /\ TakeData(op[2]) /\ todo' = r
  BY <1>1 DEF SendData
<1>4. SendConfig => op[1] = "write_cfg" /\ todo' = r
  BY <1>1 DEF SendConfig
<1>5. OrConfig => op[1] = "or_cfg" /\ cfg' = SetBit(cfg, op[2]) /\ todo' = r
  BY <1>1 DEF OrConfig
<1>6. Read => op[1] = "read" /\ todo' = r
  BY <1>1 DEF Read
<1>7. ReadConfig => op[1] = "read_cfg" /\ todo' = r
  BY <1>1 DEF ReadConfig
<1>8. DetectPort2 => op[1] = "detect"
  BY <1>1 DEF DetectPort2
<1>9. Expect => op[1] = "expect" /\ IF out.byte = op[2] THEN todo' = r /\ pc' = pc ELSE pc' = "panic"
  BY <1>1 DEF Expect
<1>10. PollAck => op[1] = "ack" /\ IF out.byte = op[2] THEN todo' = r /\ pc' = pc ELSE pc' = "panic"
  BY <1>1 DEF PollAck
<1>11. PollTimesOut => op[1] = "ack"
  BY <1>1 DEF PollTimesOut
<1>12. ~InitDone
  BY <1>1 DEF InitDone
<1> HIDE DEF Do, Arg, GoOn, KERNEL_PANIC
<1> QED BY <1>2, <1>3, <1>4, <1>5, <1>6, <1>7, <1>8, <1>9, <1>10, <1>11, <1>12 DEF PS2_init

\* A step that is in time, and what none of them changes.
Stepping(m) == Typed /\ machine = m /\ pc = "init" /\ PS2_init /\ ~late'
Went == pc' = "init" /\ machine' = machine /\ keyboard'.set = keyboard.set

Expected(c) == CASE c = "WRITE_CFG" -> "config" [] c = "WRITE_PORT2" -> "mouse" [] OTHER -> "keyboard"

LEMMA CommandAt ==
  ASSUME NEW m, NEW c \in Commands, NEW r \in Seq(Ops), NEW e, NEW w, NEW x, NEW f, NEW v, NEW y,
         NEW n, NEW a \in Seq(Bytes),
         Stepping(m), At(Then(Cmd(c), r), e, w, x, f, v), Quiet, Expected(c) = n, Configured(c) = y, Answer(c) = a
  PROVE  At(r, n, w, y, f, v)' /\ Stream("controller", a)' /\ Went
<1>1. Cmd(c) \in Ops /\ Cmd(c)[1] = "command" /\ Cmd(c)[2] = c
  BY OpsAre DEF Cmd
<1>2. SendCommand /\ TakeCommand(c) /\ todo' = r
  BY <1>1, Dispatch DEF At, Stepping
<1>3. pc' = pc /\ UNCHANGED <<cfg, out, requests, history>>
  BY <1>2 DEF SendCommand, GoOn
<1>4. config' = y /\ expecting' = n /\ Say("controller", a) /\ UNCHANGED <<machine, keyboard, reporting>>
  BY <1>2 DEF TakeCommand, Expected
<1>5. Stream("controller", a)' /\ \A s \in Sources \ {"controller"} : sent'[s] = << >>
  BY <1>3, <1>4, SaysNext DEF Stepping, Typed, Sources
<1>6. sent'["keyboard"] = << >> /\ sent'["mouse"] = << >>
  BY <1>5 DEF Sources
<1>7. Calm'
  BY <1>3, <1>4, <1>6 DEF At, Calm
<1> QED BY <1>2, <1>3, <1>4, <1>5, <1>7 DEF At, Went, Stepping

\* A command that has no answer.
LEMMA QuietCommandAt ==
  ASSUME NEW m, NEW c \in Commands, NEW r \in Seq(Ops), NEW e, NEW w, NEW x, NEW f, NEW v, NEW y, NEW n,
         Stepping(m), At(Then(Cmd(c), r), e, w, x, f, v), Quiet, Expected(c) = n, Configured(c) = y,
         Answer(c) = << >>
  PROVE  At(r, n, w, y, f, v)' /\ Quiet' /\ Went
<1>1. PICK a \in Seq(Bytes) : a = << >>
  <2>1. << >> \in Seq(Bytes)
    OBVIOUS
  <2> QED BY <2>1
<1>2. At(r, n, w, y, f, v)' /\ Stream("controller", a)' /\ Went
  BY <1>1, CommandAt
<1> QED BY <1>1, <1>2, QuietThen DEF Sources

\* Before the buffer is flushed, a byte of the boot loader may be in it.
LEMMA StaleCommandAt ==
  ASSUME NEW m, NEW c \in Commands, NEW r \in Seq(Ops), NEW e, NEW w, NEW x, NEW f, NEW v, NEW y, NEW n,
         Stepping(m), At(Then(Cmd(c), r), e, w, x, f, v), Stale, Expected(c) = n, Configured(c) = y,
         Answer(c) = << >>
  PROVE  At(r, n, w, y, f, v)' /\ Stale' /\ Went
<1>1. Cmd(c) \in Ops /\ Cmd(c)[1] = "command" /\ Cmd(c)[2] = c
  BY OpsAre DEF Cmd
<1>2. SendCommand /\ TakeCommand(c) /\ todo' = r
  BY <1>1, Dispatch DEF At, Stepping
<1>3. pc' = pc /\ UNCHANGED <<cfg, out, requests, history>>
  BY <1>2 DEF SendCommand, GoOn
<1>4. config' = y /\ expecting' = n /\ Say("controller", << >>) /\ UNCHANGED <<machine, keyboard, reporting>>
  BY <1>2 DEF TakeCommand, Expected
<1>5. Stale'
  <2>1. << >> \o << >> = << >>
    OBVIOUS
  <2>2. sent' = [sent EXCEPT !["controller"] = << >> \o << >>]
    BY <1>4 DEF Say, Stale, Sources
  <2> QED BY <2>1, <2>2 DEF Stale, Sources, Stepping, Typed, WiresTyped
<1>6. Calm'
  BY <1>3, <1>4, <1>5 DEF At, Calm, Stale, Sources
<1> QED BY <1>2, <1>3, <1>4, <1>5, <1>6 DEF At, Went, Stepping

LEMMA ConfigAt ==
  ASSUME NEW m, NEW r \in Seq(Ops), NEW w, NEW x, NEW f, NEW v,
         Stepping(m), At(Then(PutCfg, r), "config", w, x, f, v), Quiet
  PROVE  At(r, "keyboard", w, f, f, v)' /\ Quiet' /\ Went
<1>1. PutCfg \in Ops /\ PutCfg[1] = "write_cfg"
  BY OpsAre DEF PutCfg
<1>2. SendConfig /\ todo' = r
  BY <1>1, Dispatch DEF At, Stepping
<1>3. pc' = pc /\ UNCHANGED <<cfg, out, requests, history>> /\ TakeData(cfg)
  BY <1>2 DEF SendConfig, GoOn
<1>4. config' = f /\ expecting' = "keyboard" /\ UNCHANGED <<machine, keyboard, reporting, sent>>
  BY <1>3 DEF At, TakeData, TakeConfig
<1>5. Quiet'
  BY <1>3, <1>4 DEF Quiet
<1>6. Calm'
  BY <1>3, <1>4, <1>5 DEF At, Calm, Quiet, Sources
<1> QED BY <1>2, <1>3, <1>4, <1>5, <1>6 DEF At, Went, Stepping

LEMMA OrAt ==
  ASSUME NEW m, NEW mask \in {1, 2}, NEW r \in Seq(Ops), NEW e, NEW w, NEW x, NEW f, NEW v,
         Stepping(m), At(Then(Or(mask), r), e, w, x, f, v), Quiet
  PROVE  At(r, e, w, x, SetBit(f, mask), v)' /\ Quiet' /\ Went
<1>1. Or(mask) \in Ops /\ Or(mask)[1] = "or_cfg" /\ Or(mask)[2] = mask
  BY OpsAre DEF Or
<1>2. OrConfig /\ cfg' = SetBit(cfg, mask) /\ todo' = r
  BY <1>1, Dispatch DEF At, Stepping
<1>3. pc' = pc /\ UNCHANGED <<controller, wires, history>>
  BY <1>2 DEF OrConfig, GoOn
<1> QED BY <1>2, <1>3 DEF At, Calm, Quiet, Went, Stepping, controller, wires

Reply(m, d, w) == CASE ~m.keyboard -> << >>
                    [] d = RESET -> <<ACK, SELF_TEST_OK>>
                    [] w /\ d = GET_SCANCODE -> <<ACK, keyboard.set>>
                    [] OTHER -> <<ACK>>

NewSet(d, w) == IF d = RESET THEN SET_SCANCODE2 ELSE IF w /\ d # GET_SCANCODE THEN d ELSE keyboard.set

LEMMA KeyboardAt ==
  ASSUME NEW m, NEW d \in Bytes, NEW r \in Seq(Ops), NEW w, NEW x, NEW f, NEW v, NEW a \in Seq(Bytes),
         NEW n \in BOOLEAN, n <=> d = SCANCODE,
         Stepping(m), At(Exchange(d, r), "keyboard", w, x, f, v), Quiet,
         m.resets \/ (~Bits(x, Int1) /\ ~Bits(x, Int2)),
         a = Reply(m, d, w)
  PROVE  /\ At(Then(Ack, r), "keyboard", n, x, f, v)' /\ Stream("keyboard", a)'
         /\ pc' = "init" /\ machine' = machine
         /\ keyboard'.set = NewSet(d, w)
<1>1. Data(d) \in Ops /\ Data(d)[1] = "data" /\ Data(d)[2] = d /\ Then(Ack, r) \in Seq(Ops)
  BY OpsAre, ThenIs DEF Data
<1>2. SendData /\ TakeData(d) /\ todo' = Then(Ack, r)
  BY <1>1, Dispatch DEF At, Stepping, Exchange
<1>3. pc' = pc /\ UNCHANGED <<cfg, out, requests, history>>
  BY <1>2 DEF SendData, GoOn
<1>4. TakeKeyboard(d) /\ expecting' = "keyboard" /\ machine' = machine
  BY <1>2 DEF At, TakeData
<1>5. Say("keyboard", a) /\ UNCHANGED <<config, reporting>>
  BY <1>4 DEF TakeKeyboard, At, Stepping, Reply
<1>6. Stream("keyboard", a)'
  BY <1>3, <1>5, SaysNext DEF Stepping, Typed, Sources
<1>7. keyboard'.set = NewSet(d, w) /\ keyboard'.waits = n
  BY <1>4 DEF TakeKeyboard, At, NewSet
<1>8. Calm'
  BY <1>3, <1>4, <1>5 DEF At, Calm, Stepping
<1> QED BY <1>2, <1>3, <1>4, <1>5, <1>6, <1>7, <1>8 DEF At, Stepping

MouseReply(d) == IF d = RESET THEN <<ACK, SELF_TEST_OK, 0>> ELSE <<ACK>>

LEMMA MouseAt ==
  ASSUME NEW m, NEW d \in Bytes, NEW r \in Seq(Ops), NEW w, NEW x, NEW f, NEW v, NEW a \in Seq(Bytes),
         NEW n \in BOOLEAN, n <=> d = REPORTING,
         Stepping(m), At(Exchange(d, r), "mouse", w, x, f, v), Quiet,
         m.resets \/ (~Bits(x, Int1) /\ ~Bits(x, Int2)),
         a = MouseReply(d)
  PROVE  At(Then(Ack, r), "keyboard", w, x, f, n)' /\ Stream("mouse", a)' /\ Went
<1>1. Data(d) \in Ops /\ Data(d)[1] = "data" /\ Data(d)[2] = d /\ Then(Ack, r) \in Seq(Ops)
  BY OpsAre, ThenIs DEF Data
<1>2. SendData /\ TakeData(d) /\ todo' = Then(Ack, r)
  BY <1>1, Dispatch DEF At, Stepping, Exchange
<1>3. pc' = pc /\ UNCHANGED <<cfg, out, requests, history>>
  BY <1>2 DEF SendData, GoOn
<1>4. TakeMouse(d) /\ expecting' = "keyboard" /\ machine' = machine
  BY <1>2 DEF At, TakeData
<1>5. Say("mouse", a) /\ reporting' = n /\ UNCHANGED <<config, keyboard>>
  BY <1>4 DEF TakeMouse, MouseReply
<1>6. Stream("mouse", a)'
  BY <1>3, <1>5, SaysNext DEF Stepping, Typed, Sources
<1>7. Calm'
  BY <1>3, <1>4, <1>5 DEF At, Calm, Stepping
<1> QED BY <1>2, <1>3, <1>4, <1>5, <1>6, <1>7 DEF At, Went, Stepping


LEMMA ReadKeepsCalm ==
  ASSUME ReadData, Calm
  PROVE  Calm' /\ UNCHANGED <<controller, sent>>
BY DEF ReadData, Calm, controller

LEMMA DropAt ==
  ASSUME NEW m, NEW r \in Seq(Ops), NEW e, NEW w, NEW x, NEW f, NEW v,
         Stepping(m), At(Then(Drop, r), e, w, x, f, v), Stale
  PROVE  At(r, e, w, x, f, v)' /\ Quiet' /\ Went
<1>1. Drop \in Ops /\ Drop[1] = "read"
  BY OpsAre DEF Drop
<1>2. Read /\ todo' = r
  BY <1>1, Dispatch DEF At, Stepping
<1>3. pc' = pc /\ ReadData /\ UNCHANGED <<cfg, early>>
  BY <1>2 DEF Read, GoOn
<1>4. Calm' /\ UNCHANGED <<controller, sent>>
  BY <1>3, ReadKeepsCalm DEF At
<1>5. Quiet'
  BY <1>3, <1>4 DEF ReadData, Stale, Quiet, Stepping, Typed, WiresTyped
<1> QED BY <1>2, <1>3, <1>4, <1>5 DEF At, Went, Stepping, controller

LEMMA DropByteAt ==
  ASSUME NEW m, NEW r \in Seq(Ops), NEW e, NEW w, NEW x, NEW f, NEW v, NEW src \in Sources,
         NEW bytes \in Seq(Bytes), bytes # << >>, Stream(src, bytes), Connected(src),
         Stepping(m), At(Then(Drop, r), e, w, x, f, v)
  PROVE  At(r, e, w, x, f, v)' /\ Stream(src, Tail(bytes))' /\ Went
<1>1. Drop \in Ops /\ Drop[1] = "read"
  BY OpsAre DEF Drop
<1>2. Read /\ todo' = r
  BY <1>1, Dispatch DEF At, Stepping
<1>3. pc' = pc /\ ReadData /\ UNCHANGED <<cfg, early>> /\ ~Early
  BY <1>2 DEF Read, GoOn, Stepping
<1>4. Calm' /\ UNCHANGED <<controller, sent>>
  BY <1>3, ReadKeepsCalm DEF At
<1>5. Stream(src, Tail(bytes))'
  BY <1>3, InTime, TakenAway DEF Stepping, Typed
<1> QED BY <1>2, <1>3, <1>4, <1>5 DEF At, Went, Stepping, controller

LEMMA ExpectAt ==
  ASSUME NEW m, NEW d \in Bytes, NEW r \in Seq(Ops), NEW e, NEW w, NEW x, NEW f, NEW v, NEW src \in Sources,
         NEW bytes \in Seq(Bytes), bytes # << >>, Stream(src, bytes), Connected(src),
         Stepping(m), At(Then(Exp(d), r), e, w, x, f, v)
  PROVE  \/ Seen(src, Head(bytes)) = d /\ At(r, e, w, x, f, v)' /\ Stream(src, Tail(bytes))' /\ Went
         \/ Seen(src, Head(bytes)) # d /\ pc' = "panic"
<1>1. Exp(d) \in Ops /\ Exp(d)[1] = "expect" /\ Exp(d)[2] = d
  BY OpsAre DEF Exp
<1>2. Expect /\ IF out.byte = d THEN todo' = r /\ pc' = pc ELSE pc' = "panic"
  BY <1>1, Dispatch DEF At, Stepping
<1>3. ReadData /\ UNCHANGED <<cfg, early>> /\ ~Early
  BY <1>2 DEF Expect, Stepping
<1>4. Calm' /\ UNCHANGED <<controller, sent>>
  BY <1>3, ReadKeepsCalm DEF At
<1>5. out.new /\ out.byte = Seen(src, Head(bytes))
  BY <1>3, InTime DEF Stepping, Typed
<1>6. Stream(src, Tail(bytes))'
  BY <1>3, <1>5, TakenAway DEF Stepping, Typed
<1>7. CASE out.byte = d
  BY <1>2, <1>3, <1>4, <1>5, <1>6, <1>7 DEF At, Went, Stepping, controller
<1>8. CASE out.byte # d
  BY <1>2, <1>5, <1>8
<1> QED BY <1>7, <1>8

LEMMA AckAt ==
  ASSUME NEW m, NEW r \in Seq(Ops), NEW e, NEW w, NEW x, NEW f, NEW v, NEW src \in Sources,
         NEW bytes \in Seq(Bytes), bytes # << >>, Stream(src, bytes), Connected(src),
         Seen(src, Head(bytes)) = ACK,
         Stepping(m), At(Then(Ack, r), e, w, x, f, v)
  PROVE  At(r, e, w, x, f, v)' /\ Stream(src, Tail(bytes))' /\ Went
<1>1. Ack \in Ops /\ Ack[1] = "ack" /\ Ack[2] = ACK
  BY OpsAre DEF Ack
<1>2. \/ PollAck /\ IF out.byte = ACK THEN todo' = r /\ pc' = pc ELSE pc' = "panic"
      \/ PollTimesOut
  BY <1>1, Dispatch DEF At, Stepping
<1>3. Early \/ (out.new /\ out.byte = ACK)
  BY InTime DEF Stepping, Typed
<1>4. PollAck /\ todo' = r /\ pc' = pc /\ ReadData /\ UNCHANGED <<cfg, history>> /\ out.new
  BY <1>2, <1>3 DEF PollAck, PollTimesOut, Early
<1>5. Calm' /\ UNCHANGED <<controller, sent>>
  BY <1>4, ReadKeepsCalm DEF At
<1>6. Stream(src, Tail(bytes))'
  BY <1>4, TakenAway DEF Stepping, Typed
<1> QED BY <1>4, <1>5, <1>6 DEF At, Went, Stepping, controller

LEMMA NoAckAt ==
  ASSUME NEW m, NEW r \in Seq(Ops), NEW e, NEW w, NEW x, NEW f, NEW v,
         Quiet, Stepping(m), At(Then(Ack, r), e, w, x, f, v)
  PROVE  pc' = "panic"
<1>1. Ack \in Ops /\ Ack[1] = "ack" /\ Ack[2] = ACK
  BY OpsAre DEF Ack
<1>2. PollAck \/ PollTimesOut
  BY <1>1, Dispatch DEF At, Stepping
<1> QED BY <1>2 DEF PollAck, PollTimesOut, KERNEL_PANIC, Quiet

LEMMA ReadConfigAt ==
  ASSUME NEW m, NEW r \in Seq(Ops), NEW e, NEW w, NEW x, NEW f, NEW v, NEW b \in Bytes, NEW y,
         Stream("controller", <<b>>), Stepping(m), At(Then(GetCfg, r), e, w, x, f, v),
         ClearBit(ClearBit(ClearBit(b, Int1), Translate), Off1) = y
  PROVE  At(r, e, w, x, y, v)' /\ Quiet' /\ Went
<1>1. GetCfg \in Ops /\ GetCfg[1] = "read_cfg"
  BY OpsAre DEF GetCfg
<1>2. ReadConfig /\ todo' = r
  BY <1>1, Dispatch DEF At, Stepping
<1>3. /\ pc' = pc /\ ReadData /\ ~Early
      /\ cfg' = ClearBit(ClearBit(ClearBit(out.byte, Int1), Translate), Off1)
  BY <1>2 DEF ReadConfig, GoOn, Stepping
<1>4. Calm' /\ UNCHANGED <<controller, sent>>
  BY <1>3, ReadKeepsCalm DEF At
<1>5. <<b>> \in Seq(Bytes) /\ <<b>> # << >> /\ Head(<<b>>) = b /\ Tail(<<b>>) = << >> /\ "controller" \in Sources
  BY DEF Sources
<1>6. Connected("controller") /\ Seen("controller", b) = b
  BY DEF Connected, Seen
<1>7. out.new /\ out.byte = b
  <2>1. Early \/ (out.new /\ out.byte = Seen("controller", Head(<<b>>)))
    BY <1>5, <1>6, InTime DEF Stepping, Typed
  <2> QED BY <1>3, <1>5, <1>6, <2>1
<1>8. Stream("controller", Tail(<<b>>))'
  BY <1>3, <1>5, <1>7, TakenAway DEF Stepping, Typed
<1>9. Quiet'
  BY <1>5, <1>8, QuietThen
<1> QED BY <1>2, <1>3, <1>4, <1>7, <1>9 DEF At, Went, Stepping, controller

LEMMA DetectAt ==
  ASSUME NEW m, NEW h \in BOOLEAN, NEW e, NEW w, NEW x, NEW f, NEW v, NEW b \in Bytes,
         Stream("controller", <<b>>), Stepping(m), At(Found, e, w, x, f, v), h <=> ~Bits(b, Off2)
  PROVE  At(Settling(h), e, w, x, IF h THEN ClearBit(ClearBit(b, Int2), Off2) ELSE b, v)' /\ Quiet' /\ Went
<1>0. << >> \in Seq(Ops)
  OBVIOUS
<1>1. <<"detect", 0>> \in Ops
  BY OpsAre
<1>2. DetectPort2
  BY <1>0, <1>1, Dispatch DEF At, Stepping, Found
<1>3. /\ pc' = pc /\ ReadData /\ ~Early
      /\ cfg' = IF ~Bits(out.byte, Off2) THEN ClearBit(ClearBit(out.byte, Int2), Off2) ELSE out.byte
      /\ todo' = Settle(~Bits(out.byte, Off2))
  BY <1>2 DEF DetectPort2, Stepping
<1>4. Calm' /\ UNCHANGED <<controller, sent>>
  BY <1>3, ReadKeepsCalm DEF At
<1>5. <<b>> \in Seq(Bytes) /\ <<b>> # << >> /\ Head(<<b>>) = b /\ Tail(<<b>>) = << >> /\ "controller" \in Sources
  BY DEF Sources
<1>6. Connected("controller") /\ Seen("controller", b) = b
  BY DEF Connected, Seen
<1>7. out.new /\ out.byte = b
  <2>1. Early \/ (out.new /\ out.byte = Seen("controller", Head(<<b>>)))
    BY <1>5, <1>6, InTime DEF Stepping, Typed
  <2> QED BY <1>3, <1>5, <1>6, <2>1
<1>8. Stream("controller", Tail(<<b>>))'
  BY <1>3, <1>5, <1>7, TakenAway DEF Stepping, Typed
<1>9. Quiet'
  BY <1>5, <1>8, QuietThen
<1>10. todo' = Settling(h)
  <2>1. (~Bits(out.byte, Off2)) = h
    BY <1>7 DEF Bits
  <2> QED BY <1>3, <2>1, SettleIs
<1>11. cfg' = IF h THEN ClearBit(ClearBit(b, Int2), Off2) ELSE b
  BY <1>3, <1>7
<1> QED BY <1>3, <1>4, <1>9, <1>10, <1>11 DEF At, Went, Stepping, controller

LEMMA DoneAt ==
  ASSUME NEW m, NEW e, NEW w, NEW x, NEW f, NEW v, Stepping(m), At(<< >>, e, w, x, f, v)
  PROVE  pc' = "up" /\ UNCHANGED <<todo, cfg, controller, wires, history>>
BY DEF At, Stepping, PS2_init, InitDone, SendCommand, SendData, SendConfig, OrConfig, PollAck, PollTimesOut,
       Read, Expect, ReadConfig, DetectPort2, Do


-----------------------------------------------------------------------------
(***************************************************************************)
(* Every step of PS2_init leads to the next place.                         *)
(***************************************************************************)
Machines == [keyboard : BOOLEAN, port2 : BOOLEAN, resets : BOOLEAN]

LEMMA BaseIs ==
  ASSUME NEW m \in Machines
  PROVE  /\ Base(m) \in Bytes /\ ~Bits(Base(m), Off1) /\ (Bits(Base(m), Off2) <=> ~m.port2)
         /\ Bits(Base(m), Translate) <=> m.resets
         /\ m.resets \/ (~Bits(Base(m), Int1) /\ ~Bits(Base(m), Int2))
         /\ Base(m) = IF m.resets THEN IF m.port2 THEN 65 ELSE 97 ELSE IF m.port2 THEN 0 ELSE 32
<1>1. m.keyboard \in BOOLEAN /\ m.port2 \in BOOLEAN /\ m.resets \in BOOLEAN
  BY DEF Machines
<1> USE DEF Bytes, Bits, Off1, Off2, Int1, Int2, Translate
<1>2. CASE m.resets /\ m.port2
  <2>1. Base(m) = 65
    BY <1>2 DEF Base
  <2> QED BY <1>2, <2>1
<1>3. CASE m.resets /\ ~m.port2
  <2>1. Base(m) = 97
    BY <1>3 DEF Base
  <2> QED BY <1>3, <2>1
<1>4. CASE ~m.resets /\ m.port2
  <2>1. Base(m) = 0
    BY <1>4 DEF Base
  <2> QED BY <1>4, <2>1
<1>5. CASE ~m.resets /\ ~m.port2
  <2>1. Base(m) = 32
    BY <1>5 DEF Base
  <2> QED BY <1>5, <2>1
<1> QED BY <1>2, <1>3, <1>4, <1>5

LEMMA CommandsAre ==
  /\ Commands = {"DISABLE_PORT1", "DISABLE_PORT2", "READ_CFG", "WRITE_CFG", "TEST", "TEST_PORT1",
                 "TEST_PORT2", "ENABLE_PORT1", "ENABLE_PORT2", "WRITE_PORT2"}
  /\ Expected("WRITE_CFG") = "config" /\ Expected("WRITE_PORT2") = "mouse"
  /\ \A c \in Commands \ {"WRITE_CFG", "WRITE_PORT2"} : Expected(c) = "keyboard"
  /\ \A c \in Commands \ {"READ_CFG", "TEST", "TEST_PORT1", "TEST_PORT2"} : Answer(c) = << >>
  /\ Answer("READ_CFG") = <<config>> /\ Answer("TEST") = <<CTRL_TEST_OK>>
  /\ Answer("TEST_PORT1") = <<0>> /\ Answer("TEST_PORT2") = <<0>>
  /\ \A c \in {"READ_CFG", "WRITE_CFG", "TEST_PORT1", "TEST_PORT2", "WRITE_PORT2"} : Configured(c) = config
BY DEF Commands, Expected, Answer, Configured

LEMMA StoreAt ==
  ASSUME NEW m, NEW r \in Seq(Ops), NEW w, NEW x, NEW f, NEW v,
         Stepping(m), At(Store(r), "keyboard", w, x, f, v), Quiet
  PROVE  At(Then(PutCfg, r), "config", w, x, f, v)' /\ Quiet' /\ Went
<1> DEFINE c == "WRITE_CFG"
           t == Then(PutCfg, r)
<1>1. c \in Commands /\ Expected(c) = "config" /\ Answer(c) = << >> /\ Configured(c) = x
  BY CommandsAre DEF At
<1>2. t \in Seq(Ops)
  BY OpsAre, ThenIs
<1>3. At(Then(Cmd(c), t), "keyboard", w, x, f, v)
  BY DEF Store
<1> HIDE DEF c, t
<1>4. At(t, "config", w, x, f, v)' /\ Quiet' /\ Went
  BY <1>1, <1>2, <1>3, QuietCommandAt
<1> QED BY <1>4 DEF t

LEMMA StartingStep ==
  ASSUME NEW m \in Machines, Stepping(m), Starting(m)
  PROVE  (Starting(m)' \/ Testing(m)') /\ Went
<1>0. /\ "controller" \in Sources
      /\ \A c \in {"DISABLE_PORT1", "DISABLE_PORT2", "ENABLE_PORT2"} :
           c \in Commands /\ Expected(c) = "keyboard" /\ Answer(c) = << >>
  BY CommandsAre DEF Sources
<1>1. CASE At(Detecting, "keyboard", FALSE, 97, 0, FALSE) /\ Stale
  <2> DEFINE y == 113
  <2>1. Configured("DISABLE_PORT1") = y
    BY <1>1 DEF At, Configured, SetBit, Bits, Off1
  <2>2. DisableSecond \in Seq(Ops) /\ At(Then(Cmd("DISABLE_PORT1"), DisableSecond), "keyboard", FALSE, 97, 0, FALSE)
    BY <1>1, DetectTyped DEF Detecting
  <2> HIDE DEF y
  <2>3. "DISABLE_PORT1" \in Commands /\ Expected("DISABLE_PORT1") = "keyboard" /\ Answer("DISABLE_PORT1") = << >>
    BY <1>0
  <2>4. At(DisableSecond, "keyboard", FALSE, y, 0, FALSE)' /\ Stale' /\ Went
    BY <1>1, <2>1, <2>2, <2>3, StaleCommandAt
  <2> QED BY <2>4 DEF Starting, y
<1>2. CASE At(DisableSecond, "keyboard", FALSE, 113, 0, FALSE) /\ Stale
  <2>1. Configured("DISABLE_PORT2") = 113
    BY <1>2 DEF At, Configured, SetBit, Bits, Off2
  <2>2. Flush \in Seq(Ops) /\ At(Then(Cmd("DISABLE_PORT2"), Flush), "keyboard", FALSE, 113, 0, FALSE)
    BY <1>2, DetectTyped DEF DisableSecond
  <2>3. At(Flush, "keyboard", FALSE, 113, 0, FALSE)' /\ Stale' /\ Went
    BY <1>0, <1>2, <2>1, <2>2, StaleCommandAt
  <2> QED BY <2>3 DEF Starting
<1>3. CASE At(Flush, "keyboard", FALSE, 113, 0, FALSE) /\ Stale
  <2>1. At(AskCfg, "keyboard", FALSE, 113, 0, FALSE)' /\ Quiet' /\ Went
    BY <1>3, DetectTyped, DropAt DEF Flush
  <2> QED BY <2>1 DEF Starting
<1>4. CASE At(AskCfg, "keyboard", FALSE, 113, 0, FALSE) /\ Quiet
  <2> DEFINE a == <<113>>
  <2>1. Configured("READ_CFG") = 113 /\ Answer("READ_CFG") = a /\ a \in Seq(Bytes)
    BY <1>4, CommandsAre DEF At, Bytes
  <2> HIDE DEF a
  <2>2. TakeCfg \in Seq(Ops) /\ At(Then(Cmd("READ_CFG"), TakeCfg), "keyboard", FALSE, 113, 0, FALSE)
    BY <1>4, DetectTyped DEF AskCfg
  <2>3. "READ_CFG" \in Commands /\ Expected("READ_CFG") = "keyboard"
    BY CommandsAre
  <2>4. At(TakeCfg, "keyboard", FALSE, 113, 0, FALSE)' /\ Stream("controller", a)' /\ Went
    BY <1>4, <2>1, <2>2, <2>3, CommandAt
  <2> QED BY <2>4 DEF Starting, a
<1>5. CASE At(TakeCfg, "keyboard", FALSE, 113, 0, FALSE) /\ Stream("controller", <<113>>)
  <2>1. ClearBit(ClearBit(ClearBit(113, Int1), Translate), Off1) = 32 /\ 113 \in Bytes
    BY DEF ClearBit, Bits, Int1, Translate, Off1, Bytes
  <2>2. Store(Check) \in Seq(Ops)
    BY DetectTyped, ThenTyped
  <2>3. At(Store(Check), "keyboard", FALSE, 113, 32, FALSE)' /\ Quiet' /\ Went
    <3>1. At(Then(GetCfg, Store(Check)), "keyboard", FALSE, 113, 0, FALSE)
      BY <1>5 DEF TakeCfg
    <3> QED BY <1>5, <2>1, <2>2, <3>1, ReadConfigAt, ZenonT(60)
  <2> QED BY <2>3 DEF Starting
<1>6. CASE At(Store(Check), "keyboard", FALSE, 113, 32, FALSE) /\ Quiet
  <2>1. At(Then(PutCfg, Check), "config", FALSE, 113, 32, FALSE)' /\ Quiet' /\ Went
    BY <1>6, DetectTyped, StoreAt
  <2> QED BY <2>1 DEF Starting
<1>7. CASE At(Then(PutCfg, Check), "config", FALSE, 113, 32, FALSE) /\ Quiet
  <2>1. At(Check, "keyboard", FALSE, 32, 32, FALSE)' /\ Quiet' /\ Went
    BY <1>7, DetectTyped, ConfigAt
  <2> QED BY <2>1 DEF Starting
<1>8. CASE At(Check, "keyboard", FALSE, 32, 32, FALSE) /\ Quiet
  <2>1. Configured("TEST") = Tested(m)
    BY <1>8 DEF At, Configured, Tested, Translate, Off2, Int1, Stepping
  <2> DEFINE a == <<CTRL_TEST_OK>>
  <2>2. a \in Seq(Bytes)
    BY DEF CTRL_TEST_OK, Bytes
  <2>3. "TEST" \in Commands /\ Expected("TEST") = "keyboard" /\ Answer("TEST") = a
    BY CommandsAre
  <2> HIDE DEF a
  <2>4. Checked \in Seq(Ops) /\ At(Then(Cmd("TEST"), Checked), "keyboard", FALSE, 32, 32, FALSE)
    BY <1>8, DetectTyped DEF Check
  <2>5. At(Checked, "keyboard", FALSE, Tested(m), 32, FALSE)' /\ Stream("controller", a)' /\ Went
    BY <1>8, <2>1, <2>2, <2>3, <2>4, CommandAt
  <2> QED BY <2>5 DEF Starting, a
<1>9. CASE At(Checked, "keyboard", FALSE, Tested(m), 32, FALSE) /\ Stream("controller", <<CTRL_TEST_OK>>)
  <2> DEFINE b == <<CTRL_TEST_OK>>
  <2>1. CTRL_TEST_OK \in Bytes
    BY DEF CTRL_TEST_OK, Bytes
  <2>2. b \in Seq(Bytes) /\ b # << >> /\ Head(b) = CTRL_TEST_OK /\ Tail(b) = << >>
    BY <2>1
  <2>3. Connected("controller") /\ Seen("controller", Head(b)) = CTRL_TEST_OK
    BY <2>2 DEF Connected, Seen
  <2>4. Stream("controller", b)
    BY <1>9
  <2> HIDE DEF b
  <2>5. At(Second, "keyboard", FALSE, Tested(m), 32, FALSE)' /\ Stream("controller", Tail(b))' /\ Went
    BY <1>0, <1>9, <2>1, <2>2, <2>3, <2>4, DetectTyped, ExpectAt DEF Checked
  <2> QED BY <1>0, <2>2, <2>5, QuietThen DEF Starting
<1>10. CASE At(Second, "keyboard", FALSE, Tested(m), 32, FALSE) /\ Quiet
  <2>1. Configured("ENABLE_PORT2") = Base(m)
    <3>1. m.port2 \in BOOLEAN /\ m.resets \in BOOLEAN
      BY DEF Machines
    <3>2. config = Tested(m) /\ machine = m
      BY <1>10 DEF At, Stepping
    <3>3. ClearBit(97, 32) = 65 /\ ClearBit(32, 32) = 0
      BY DEF ClearBit, Bits
    <3> QED BY <3>1, <3>2, <3>3, BaseIs DEF Configured, Tested, Off2
  <2>2. Look \in Seq(Ops) /\ At(Then(Cmd("ENABLE_PORT2"), Look), "keyboard", FALSE, Tested(m), 32, FALSE)
    BY <1>10, DetectTyped DEF Second
  <2>3. At(Look, "keyboard", FALSE, Base(m), 32, FALSE)' /\ Quiet' /\ Went
    BY <1>0, <1>10, <2>1, <2>2, QuietCommandAt
  <2> QED BY <2>3 DEF Starting
<1>11. CASE At(Look, "keyboard", FALSE, Base(m), 32, FALSE) /\ Quiet
  <2> DEFINE a == <<Base(m)>>
  <2>1. Configured("READ_CFG") = Base(m) /\ Answer("READ_CFG") = a /\ a \in Seq(Bytes)
    BY <1>11, CommandsAre, BaseIs DEF At
  <2> HIDE DEF a
  <2>2. Found \in Seq(Ops) /\ At(Then(Cmd("READ_CFG"), Found), "keyboard", FALSE, Base(m), 32, FALSE)
    BY <1>11, DetectTyped DEF Look
  <2>3. "READ_CFG" \in Commands /\ Expected("READ_CFG") = "keyboard"
    BY CommandsAre
  <2>4. At(Found, "keyboard", FALSE, Base(m), 32, FALSE)' /\ Stream("controller", a)' /\ Went
    BY <1>11, <2>1, <2>2, <2>3, CommandAt
  <2> QED BY <2>4 DEF Starting, a
<1>12. CASE At(Found, "keyboard", FALSE, Base(m), 32, FALSE) /\ Stream("controller", <<Base(m)>>)
  <2>1. m.port2 \in BOOLEAN /\ (m.port2 <=> ~Bits(Base(m), Off2)) /\ Base(m) \in Bytes
    BY BaseIs DEF Machines
  <2>2. m.port2 => ClearBit(ClearBit(Base(m), Int2), Off2) = Base(m)
    <3>1. m.port2 => Base(m) \in {0, 65}
      BY BaseIs
    <3> QED BY <3>1 DEF ClearBit, Bits, Int2, Off2
  <2>3. (IF m.port2 THEN ClearBit(ClearBit(Base(m), Int2), Off2) ELSE Base(m)) = Base(m)
    BY <2>2
  <2>4. At(Settling(m.port2), "keyboard", FALSE, Base(m),
           IF m.port2 THEN ClearBit(ClearBit(Base(m), Int2), Off2) ELSE Base(m), FALSE)' /\ Quiet' /\ Went
    BY <1>12, <2>1, DetectAt
  <2>5. Settled(Settling(m.port2), m)' /\ Quiet' /\ Went
    BY <2>3, <2>4 DEF Settled
  <2>6. CASE m.port2
    BY <2>5, <2>6 DEF Settling, Testing
  <2>7. CASE ~m.port2
    <3>1. Settling(m.port2) = Test1(m.port2)
      BY <2>7 DEF Settling
    <3> QED BY <2>5, <3>1 DEF Testing
  <2> QED BY <2>6, <2>7
<1> QED BY <1>1, <1>2, <1>3, <1>4, <1>5, <1>6, <1>7, <1>8, <1>9, <1>10, <1>11, <1>12 DEF Starting


LEMMA BytesAre ==
  ASSUME NEW b \in Bytes, NEW c \in Bytes, NEW d \in Bytes
  PROVE  /\ <<b>> \in Seq(Bytes) /\ <<b>> # << >> /\ Head(<<b>>) = b /\ Tail(<<b>>) = << >>
         /\ <<b, c>> \in Seq(Bytes) /\ <<b, c>> # << >> /\ Head(<<b, c>>) = b /\ Tail(<<b, c>>) = <<c>>
         /\ <<b, c, d>> \in Seq(Bytes) /\ <<b, c, d>> # << >> /\ Head(<<b, c, d>>) = b
         /\ Tail(<<b, c, d>>) = <<c, d>>
OBVIOUS

\* Nothing but a scancode set is mangled on its way.
LEMMA SeenIs ==
  /\ \A b : Seen("controller", b) = b /\ Seen("mouse", b) = b
  /\ Seen("keyboard", ACK) = ACK /\ Seen("keyboard", SELF_TEST_OK) = SELF_TEST_OK
  /\ Seen("keyboard", SET_SCANCODE2) = IF Bits(config, Translate) THEN 60 ELSE SET_SCANCODE2
BY DEF Seen, Translated, ACK, SELF_TEST_OK, SET_SCANCODE2

LEMMA TestPortAt ==
  ASSUME NEW m, NEW c \in {"TEST_PORT1", "TEST_PORT2"}, NEW r \in Seq(Ops), NEW w, NEW x, NEW f, NEW v,
         Stepping(m), At(Test(c, r), "keyboard", w, x, f, v), Quiet
  PROVE  At(Then(Exp(0), r), "keyboard", w, x, f, v)' /\ Stream("controller", <<0>>)' /\ Went
<1> DEFINE a == <<0>>
           t == Then(Exp(0), r)
           n == "keyboard"
<1>1. c \in Commands /\ Expected(c) = n /\ Answer(c) = a /\ Configured(c) = x
  BY CommandsAre DEF At
<1>2. t \in Seq(Ops)
  BY ThenTyped DEF Codes
<1>3. At(Then(Cmd(c), t), n, w, x, f, v)
  BY DEF Test
<1>4. a \in Seq(Bytes)
  <2>1. 0 \in Bytes
    BY DEF Bytes
  <2> QED BY <2>1, BytesAre
<1> HIDE DEF a, t, n
<1>5. At(t, n, w, x, f, v)' /\ Stream("controller", a)' /\ Went
  BY <1>1, <1>2, <1>3, <1>4, CommandAt
<1> QED BY <1>5 DEF a, t, n

LEMMA PassedAt ==
  ASSUME NEW m, NEW r \in Seq(Ops), NEW e, NEW w, NEW x, NEW f, NEW v,
         Stepping(m), At(Then(Exp(0), r), e, w, x, f, v), Stream("controller", << 0 >>)
  PROVE  At(r, e, w, x, f, v)' /\ Quiet' /\ Went
<1> DEFINE a == <<0>>
           s == "controller"
<1>1. a \in Seq(Bytes) /\ a # << >> /\ Head(a) = 0 /\ Tail(a) = << >> /\ s \in Sources /\ 0 \in Bytes
  <2>1. 0 \in Bytes /\ s \in Sources
    BY DEF Bytes, Sources
  <2> QED BY <2>1, BytesAre
<1>2. Seen(s, Head(a)) = 0 /\ Connected(s) /\ Stream(s, a)
  BY <1>1, SeenIs DEF Connected
<1> HIDE DEF a, s
<1>3. At(r, e, w, x, f, v)' /\ Stream(s, Tail(a))' /\ Went
  BY <1>1, <1>2, ExpectAt
<1> QED BY <1>1, <1>3, QuietThen

\* An acknowledge of a device that is connected, and what follows it.
LEMMA HeardAt ==
  ASSUME NEW m, NEW r \in Seq(Ops), NEW e, NEW w, NEW x, NEW f, NEW v, NEW src \in {"keyboard", "mouse"},
         NEW bytes \in Seq(Bytes), bytes # << >>, Head(bytes) = ACK, Stream(src, bytes),
         ~Bits(x, Off1), src = "mouse" => ~Bits(x, Off2),
         Stepping(m), At(Then(Ack, r), e, w, x, f, v)
  PROVE  At(r, e, w, x, f, v)' /\ Stream(src, Tail(bytes))' /\ Went
<1>1. Connected(src) /\ src \in Sources
  BY DEF Connected, At, Sources
<1>2. Seen(src, Head(bytes)) = ACK
  BY SeenIs
<1> QED BY <1>1, <1>2, AckAt

\* The self test of a device.
LEMMA ConfirmedAt ==
  ASSUME NEW m, NEW r \in Seq(Ops), NEW e, NEW w, NEW x, NEW f, NEW v, NEW src \in {"keyboard", "mouse"},
         NEW bytes \in Seq(Bytes), bytes # << >>, Head(bytes) = SELF_TEST_OK, Stream(src, bytes),
         ~Bits(x, Off1), src = "mouse" => ~Bits(x, Off2),
         Stepping(m), At(Confirm(r), e, w, x, f, v)
  PROVE  At(Then(Drop, Then(Drop, r)), e, w, x, f, v)' /\ Stream(src, Tail(bytes))' /\ Went
<1>1. Connected(src) /\ src \in Sources
  BY DEF Connected, At, Sources
<1>2. Seen(src, Head(bytes)) = SELF_TEST_OK
  BY SeenIs
<1> DEFINE t == Then(Drop, Then(Drop, r))
<1>3. t \in Seq(Ops) /\ SELF_TEST_OK \in Bytes /\ At(Then(Exp(SELF_TEST_OK), t), e, w, x, f, v)
  BY ThenTyped DEF Confirm, SELF_TEST_OK, Bytes
<1> HIDE DEF t
<1>4. At(t, e, w, x, f, v)' /\ Stream(src, Tail(bytes))' /\ Went
  BY <1>1, <1>2, <1>3, ExpectAt
<1> QED BY <1>4 DEF t


LEMMA PlacesTyped ==
  ASSUME NEW m \in Machines
  PROVE  /\ m.port2 \in BOOLEAN /\ m.keyboard \in BOOLEAN /\ m.resets \in BOOLEAN
         /\ Test1(TRUE) \in Seq(Ops) /\ SetSet(TRUE) \in Seq(Ops) /\ Test1(m.port2) \in Seq(Ops)
         /\ Test2(m.port2) \in Seq(Ops) /\ SetSet(m.port2) \in Seq(Ops) /\ GetSet(m.port2) \in Seq(Ops)
         /\ Exchange(SET_SCANCODE2, GetSet(m.port2)) \in Seq(Ops) /\ SetIs2(m.port2) \in Seq(Ops)
         /\ Exchange(GET_SCANCODE, SetIs2(m.port2)) \in Seq(Ops) /\ KeyboardReset(m.port2) \in Seq(Ops)
         /\ MouseReset(m.port2) \in Seq(Ops) /\ Enable(m.port2) \in Seq(Ops) /\ Enabled1(m.port2) \in Seq(Ops)
<1>1. m.port2 \in BOOLEAN /\ m.keyboard \in BOOLEAN /\ m.resets \in BOOLEAN
  BY DEF Machines
<1>2. SET_SCANCODE2 \in Codes /\ GET_SCANCODE \in Codes
  BY DEF Codes
<1>3. GetSet(m.port2) \in Seq(Ops) /\ SetIs2(m.port2) \in Seq(Ops)
  BY <1>1, RestsTyped
<1>4. Exchange(SET_SCANCODE2, GetSet(m.port2)) \in Seq(Ops) /\ Exchange(GET_SCANCODE, SetIs2(m.port2)) \in Seq(Ops)
  BY <1>2, <1>3, ThenTyped
<1> QED BY <1>1, <1>3, <1>4, RestsTyped

LEMMA TestingStep ==
  ASSUME NEW m \in Machines, Stepping(m), Testing(m)
  PROVE  (Testing(m)' \/ Setting(m)') /\ pc' = "init" /\ machine' = machine
<1> DEFINE h == m.port2
           b == Base(m)
<1>0. /\ h \in BOOLEAN /\ m.keyboard \in BOOLEAN /\ Test1(TRUE) \in Seq(Ops) /\ SetSet(TRUE) \in Seq(Ops)
      /\ Test1(h) \in Seq(Ops) /\ Test2(h) \in Seq(Ops) /\ SetSet(h) \in Seq(Ops)
      /\ Exchange(SET_SCANCODE2, GetSet(h)) \in Seq(Ops)
  BY PlacesTyped
<1>1. CASE h /\ Settled(Disable2, m) /\ Quiet
  <2> DEFINE y == b + 32
             c == "DISABLE_PORT2"
             t == Store(Test1(TRUE))
  <2>1. Configured(c) = y
    <3>1. config = b /\ ~Bits(b, Off2)
      BY <1>1, BaseIs DEF Settled, At
    <3> QED BY <3>1 DEF Configured, SetBit, Off2
  <2>2. c \in Commands /\ Expected(c) = "keyboard" /\ Answer(c) = << >>
    BY CommandsAre
  <2>3. t \in Seq(Ops) /\ At(Then(Cmd(c), t), "keyboard", FALSE, b, b, FALSE)
    BY <1>0, <1>1, ThenTyped DEF Settled, Disable2
  <2> HIDE DEF y, c, t
  <2>4. At(t, "keyboard", FALSE, y, b, FALSE)' /\ Quiet' /\ Went
    BY <1>1, <2>1, <2>2, <2>3, QuietCommandAt
  <2> QED BY <1>1, <2>4 DEF Testing, t, y, Went
<1>2. CASE h /\ At(Store(Test1(TRUE)), "keyboard", FALSE, b + 32, b, FALSE) /\ Quiet
  <2>1. At(Then(PutCfg, Test1(TRUE)), "config", FALSE, b + 32, b, FALSE)' /\ Quiet' /\ Went
    BY <1>0, <1>2, StoreAt
  <2> QED BY <1>2, <2>1 DEF Testing, Went
<1>3. CASE h /\ At(Then(PutCfg, Test1(TRUE)), "config", FALSE, b + 32, b, FALSE) /\ Quiet
  <2>1. At(Test1(TRUE), "keyboard", FALSE, b, b, FALSE)' /\ Quiet' /\ Went
    BY <1>0, <1>3, ConfigAt
  <2>2. h = TRUE
    BY <1>0, <1>3
  <2> QED BY <2>1, <2>2 DEF Testing, Settled, Went
<1>4. CASE h /\ Settled(Then(Exp(0), SetSet(TRUE)), m) /\ Stream("controller", <<0>>)
  <2>1. At(SetSet(TRUE), "keyboard", FALSE, b, b, FALSE)' /\ Quiet' /\ Went
    BY <1>0, <1>4, PassedAt DEF Settled
  <2>2. h = TRUE
    BY <1>0, <1>4
  <2> QED BY <2>1, <2>2 DEF Testing, Settled, Went
<1>5. CASE Settled(Test1(h), m) /\ Quiet
  <2>1. At(Test("TEST_PORT1", Test2(h)), "keyboard", FALSE, b, b, FALSE)
    BY <1>5 DEF Settled, Test1
  <2>2. At(Then(Exp(0), Test2(h)), "keyboard", FALSE, b, b, FALSE)' /\ Stream("controller", <<0>>)' /\ Went
    BY <1>0, <1>5, <2>1, TestPortAt
  <2> QED BY <2>2 DEF Testing, Settled, Went
<1>6. CASE Settled(Then(Exp(0), Test2(h)), m) /\ Stream("controller", <<0>>)
  <2>1. At(Test2(h), "keyboard", FALSE, b, b, FALSE)' /\ Quiet' /\ Went
    BY <1>0, <1>6, PassedAt DEF Settled
  <2> QED BY <2>1 DEF Testing, Settled, Went
<1>7. CASE Settled(SetSet(h), m) /\ Quiet
  <2>1. At(Exchange(SCANCODE, Exchange(SET_SCANCODE2, GetSet(h))), "keyboard", FALSE, b, b, FALSE)
    BY <1>7 DEF Settled, SetSet
  <2> DEFINE a == IF m.keyboard THEN <<ACK>> ELSE << >>
             d == SCANCODE
             n == TRUE
             t == Exchange(SET_SCANCODE2, GetSet(h))
  <2>2. d \in Bytes /\ n \in BOOLEAN /\ (n <=> d = SCANCODE) /\ d # RESET
    BY DEF Bytes, SCANCODE, RESET
  <2>3. a \in Seq(Bytes) /\ a = Reply(m, d, FALSE)
    <3>1. ACK \in Bytes
      BY DEF ACK, Bytes
    <3>2. <<ACK>> \in Seq(Bytes) /\ << >> \in Seq(Bytes)
      BY <3>1
    <3> QED BY <1>0, <2>2, <3>2 DEF Reply
  <2>4. m.resets \/ (~Bits(b, Int1) /\ ~Bits(b, Int2))
    BY BaseIs
  <2>5. At(Exchange(d, t), "keyboard", FALSE, b, b, FALSE) /\ t \in Seq(Ops)
    BY <1>0, <2>1
  <2> HIDE DEF a, d, n, t
  <2>6. At(Then(Ack, t), "keyboard", n, b, b, FALSE)' /\ Stream("keyboard", a)' /\ pc' = "init" /\ machine' = machine
    BY <1>7, <2>2, <2>3, <2>4, <2>5, KeyboardAt
  <2> QED BY <2>6 DEF Setting, Waiting, a, n, t
<1>8. CASE Settled(Test2(h), m) /\ Quiet
  <2>1. CASE h
    <3>1. h = TRUE
      BY <1>0, <2>1
    <3>2. At(Test("TEST_PORT2", SetSet(TRUE)), "keyboard", FALSE, b, b, FALSE)
      BY <1>8, <3>1 DEF Settled, Test2
    <3>3. At(Then(Exp(0), SetSet(TRUE)), "keyboard", FALSE, b, b, FALSE)' /\ Stream("controller", <<0>>)' /\ Went
      BY <1>0, <1>8, <3>2, TestPortAt
    <3> QED BY <2>1, <3>3 DEF Testing, Settled, Went
  <2>2. CASE ~h
    <3>1. Test2(h) = SetSet(h)
      BY <2>2 DEF Test2
    <3> QED BY <1>7, <1>8, <3>1
  <2> QED BY <2>1, <2>2
<1> QED BY <1>1, <1>2, <1>3, <1>4, <1>5, <1>6, <1>7, <1>8 DEF Testing

LEMMA SettingStep ==
  ASSUME NEW m \in Machines, Stepping(m), Setting(m)
  PROVE  /\ machine' = machine
         /\ \/ pc' = "init" /\ (Setting(m)' \/ (Right(m)' /\ Resetting(m)'))
            \/ pc' = "panic" /\ (~m.keyboard \/ m.resets)
<1> DEFINE h == m.port2
           b == Base(m)
<1>0. /\ h \in BOOLEAN /\ m.keyboard \in BOOLEAN /\ m.resets \in BOOLEAN
      /\ GetSet(h) \in Seq(Ops) /\ SetIs2(h) \in Seq(Ops) /\ KeyboardReset(h) \in Seq(Ops)
      /\ Exchange(SET_SCANCODE2, GetSet(h)) \in Seq(Ops) /\ Exchange(GET_SCANCODE, SetIs2(h)) \in Seq(Ops)
  BY PlacesTyped
<1>1. /\ ~Bits(b, Off1) /\ (m.resets \/ (~Bits(b, Int1) /\ ~Bits(b, Int2)))
      /\ Bits(b, Translate) <=> m.resets
  BY BaseIs
<1>2. machine' = machine
  BY DEF Stepping, PS2_init, SendCommand, SendData, SendConfig, OrConfig, PollAck, PollTimesOut, Read, Expect,
     ReadConfig, DetectPort2, InitDone, TakeCommand, TakeData, ReadData, controller
<1>3. ACK \in Bytes /\ SET_SCANCODE2 \in Bytes /\ SCANCODE \in Bytes /\ GET_SCANCODE \in Bytes
      /\ RESET \notin {SCANCODE, SET_SCANCODE2, GET_SCANCODE} /\ SCANCODE \notin {SET_SCANCODE2, GET_SCANCODE}
      /\ GET_SCANCODE # SET_SCANCODE2
  BY DEF ACK, Bytes, SCANCODE, SET_SCANCODE2, GET_SCANCODE, RESET
<1> DEFINE one == <<ACK>>
           two == <<ACK, SET_SCANCODE2>>
           set == <<SET_SCANCODE2>>
<1>4. /\ one \in Seq(Bytes) /\ one # << >> /\ Head(one) = ACK /\ Tail(one) = << >>
      /\ two \in Seq(Bytes) /\ two # << >> /\ Head(two) = ACK /\ Tail(two) = set
      /\ set \in Seq(Bytes) /\ set # << >> /\ Head(set) = SET_SCANCODE2 /\ Tail(set) = << >>
  BY <1>3, BytesAre
<1>5. ASSUME NEW t \in Seq(Ops), NEW w, At(Then(Ack, t), "keyboard", w, b, b, FALSE), Stream("keyboard", one)
      PROVE  At(t, "keyboard", w, b, b, FALSE)' /\ Quiet' /\ Went
  <2> HIDE DEF one
  <2>1. At(t, "keyboard", w, b, b, FALSE)' /\ Stream("keyboard", Tail(one))' /\ Went
    BY <1>1, <1>4, <1>5, HeardAt
  <2> QED BY <1>4, <2>1, QuietThen DEF Sources
<1>6. CASE /\ Waiting(Then(Ack, Exchange(SET_SCANCODE2, GetSet(h))), m)
           /\ Stream("keyboard", IF m.keyboard THEN <<ACK>> ELSE << >>)
  <2>1. CASE m.keyboard
    <3>1. Stream("keyboard", one)
      BY <1>6, <2>1
    <3> HIDE DEF one
    <3>2. At(Exchange(SET_SCANCODE2, GetSet(h)), "keyboard", TRUE, b, b, FALSE)' /\ Quiet' /\ Went
      BY <1>0, <1>5, <1>6, <3>1 DEF Waiting
    <3> QED BY <1>2, <2>1, <3>2 DEF Setting, Waiting, Went
  <2>2. CASE ~m.keyboard
    <3>1. Quiet
      BY <1>6, <2>2, QuietIs DEF Sources
    <3>2. pc' = "panic"
      BY <1>0, <1>6, <3>1, NoAckAt DEF Waiting
    <3> QED BY <1>2, <2>2, <3>2
  <2> QED BY <2>1, <2>2
<1>7. CASE m.keyboard /\ Waiting(Exchange(SET_SCANCODE2, GetSet(h)), m) /\ Quiet
  <2> DEFINE d == SET_SCANCODE2
             n == FALSE
             t == GetSet(h)
             w == TRUE
  <2>1. one = Reply(m, d, w)
    BY <1>3, <1>7 DEF Reply
  <2>2. d \in Bytes /\ n \in BOOLEAN /\ (n <=> d = SCANCODE) /\ d # RESET /\ w /\ d # GET_SCANCODE /\ t \in Seq(Ops)
    BY <1>0, <1>3
  <2>3. At(Exchange(d, t), "keyboard", w, b, b, FALSE)
    BY <1>7 DEF Waiting
  <2> HIDE DEF d, n, t, w, one
  <2>4. /\ At(Then(Ack, t), "keyboard", n, b, b, FALSE)' /\ Stream("keyboard", one)' /\ pc' = "init"
        /\ keyboard'.set = NewSet(d, w)
    BY <1>1, <1>4, <1>7, <2>1, <2>2, <2>3, KeyboardAt
  <2>5. keyboard'.set = d
    BY <2>2, <2>4 DEF NewSet
  <2> QED BY <1>2, <1>7, <2>4, <2>5 DEF Setting, Settled, d, n, t, one
<1>8. CASE m.keyboard /\ keyboard.set = SET_SCANCODE2 /\ Settled(Then(Ack, GetSet(h)), m) /\ Stream("keyboard", <<ACK>>)
  <2>1. At(GetSet(h), "keyboard", FALSE, b, b, FALSE)' /\ Quiet' /\ Went
    BY <1>0, <1>5, <1>8 DEF Settled
  <2> QED BY <1>2, <1>8, <2>1 DEF Setting, Settled, Went
<1>9. CASE m.keyboard /\ keyboard.set = SET_SCANCODE2 /\ Settled(GetSet(h), m) /\ Quiet
  <2> DEFINE d == SCANCODE
             n == TRUE
             t == Exchange(GET_SCANCODE, SetIs2(h))
             w == FALSE
  <2>1. one = Reply(m, d, w)
    BY <1>3, <1>9 DEF Reply
  <2>2. d \in Bytes /\ n \in BOOLEAN /\ (n <=> d = SCANCODE) /\ d # RESET /\ ~w /\ t \in Seq(Ops)
    BY <1>0, <1>3
  <2>3. At(Exchange(d, t), "keyboard", w, b, b, FALSE)
    BY <1>9 DEF Settled, GetSet
  <2> HIDE DEF d, n, t, w, one
  <2>4. /\ At(Then(Ack, t), "keyboard", n, b, b, FALSE)' /\ Stream("keyboard", one)' /\ pc' = "init"
        /\ keyboard'.set = NewSet(d, w)
    BY <1>1, <1>4, <1>9, <2>1, <2>2, <2>3, KeyboardAt
  <2>5. keyboard'.set = SET_SCANCODE2
    BY <1>9, <2>2, <2>4 DEF NewSet
  <2> QED BY <1>2, <1>9, <2>4, <2>5 DEF Setting, Waiting, n, t, one
<1>10. CASE /\ m.keyboard /\ keyboard.set = SET_SCANCODE2
            /\ Waiting(Then(Ack, Exchange(GET_SCANCODE, SetIs2(h))), m) /\ Stream("keyboard", <<ACK>>)
  <2>1. At(Exchange(GET_SCANCODE, SetIs2(h)), "keyboard", TRUE, b, b, FALSE)' /\ Quiet' /\ Went
    BY <1>0, <1>5, <1>10 DEF Waiting
  <2> QED BY <1>2, <1>10, <2>1 DEF Setting, Waiting, Went
<1>11. CASE m.keyboard /\ keyboard.set = SET_SCANCODE2 /\ Waiting(Exchange(GET_SCANCODE, SetIs2(h)), m) /\ Quiet
  <2> DEFINE d == GET_SCANCODE
             n == FALSE
             t == SetIs2(h)
             w == TRUE
  <2>1. two = Reply(m, d, w)
    BY <1>3, <1>11 DEF Reply
  <2>2. d \in Bytes /\ n \in BOOLEAN /\ (n <=> d = SCANCODE) /\ d # RESET /\ d = GET_SCANCODE /\ t \in Seq(Ops)
    BY <1>0, <1>3
  <2>3. At(Exchange(d, t), "keyboard", w, b, b, FALSE)
    BY <1>11 DEF Waiting
  <2> HIDE DEF d, n, t, w, two
  <2>4. /\ At(Then(Ack, t), "keyboard", n, b, b, FALSE)' /\ Stream("keyboard", two)' /\ pc' = "init"
        /\ keyboard'.set = NewSet(d, w)
    BY <1>1, <1>4, <1>11, <2>1, <2>2, <2>3, KeyboardAt
  <2>5. keyboard'.set = SET_SCANCODE2
    BY <1>11, <2>2, <2>4 DEF NewSet
  <2> QED BY <1>2, <1>11, <2>4, <2>5 DEF Setting, Settled, n, t, two
<1>12. CASE /\ m.keyboard /\ keyboard.set = SET_SCANCODE2
            /\ Settled(Then(Ack, SetIs2(h)), m) /\ Stream("keyboard", <<ACK, SET_SCANCODE2>>)
  <2>1. Stream("keyboard", two)
    BY <1>12
  <2> HIDE DEF two, set
  <2>2. At(SetIs2(h), "keyboard", FALSE, b, b, FALSE)' /\ Stream("keyboard", Tail(two))' /\ Went
    BY <1>0, <1>1, <1>4, <1>12, <2>1, HeardAt DEF Settled
  <2>3. Stream("keyboard", set)'
    BY <1>4, <2>2
  <2> QED BY <1>2, <1>12, <2>2, <2>3 DEF Setting, Settled, Went, set
<1>13. CASE /\ m.keyboard /\ keyboard.set = SET_SCANCODE2
            /\ Settled(SetIs2(h), m) /\ Stream("keyboard", <<SET_SCANCODE2>>)
  <2>1. Stream("keyboard", set) /\ Connected("keyboard") /\ config = b
    BY <1>1, <1>13 DEF Settled, At, Connected
  <2>2. Seen("keyboard", SET_SCANCODE2) = SET_SCANCODE2 => ~m.resets
    BY <1>1, <2>1, SeenIs DEF SET_SCANCODE2
  <2>3. Seen("keyboard", SET_SCANCODE2) # SET_SCANCODE2 => m.resets
    BY <1>1, <2>1, SeenIs
  <2> HIDE DEF set
  <2>4. \/ /\ Seen("keyboard", Head(set)) = SET_SCANCODE2 /\ At(KeyboardReset(h), "keyboard", FALSE, b, b, FALSE)'
           /\ Stream("keyboard", Tail(set))' /\ Went
        \/ Seen("keyboard", Head(set)) # SET_SCANCODE2 /\ pc' = "panic"
    BY <1>0, <1>3, <1>4, <1>13, <2>1, ExpectAt DEF Settled, SetIs2, Sources
  <2>5. \/ ~m.resets /\ At(KeyboardReset(h), "keyboard", FALSE, b, b, FALSE)' /\ Stream("keyboard", << >>)' /\ Went
        \/ m.resets /\ pc' = "panic"
    BY <1>4, <2>2, <2>3, <2>4
  <2>6. CASE m.resets /\ pc' = "panic"
    BY <1>2, <2>6
  <2>7. CASE ~m.resets /\ At(KeyboardReset(h), "keyboard", FALSE, b, b, FALSE)' /\ Stream("keyboard", << >>)' /\ Went
    <3>1. Quiet'
      BY <2>7, QuietThen DEF Sources
    <3> QED BY <1>2, <1>13, <2>7, <3>1 DEF Right, Resetting, Settled, Went
  <2> QED BY <2>5, <2>6, <2>7
<1> QED BY <1>6, <1>7, <1>8, <1>9, <1>10, <1>11, <1>12, <1>13 DEF Setting


LEMMA EnablingStep ==
  ASSUME NEW m \in Machines, Stepping(m), Right(m), Enabling(m)
  PROVE  /\ machine' = machine /\ Right(m)'
         /\ \/ pc' = "init" /\ Enabling(m)'
            \/ pc' = "up" /\ Quiet' /\ config' = Final(m) /\ reporting' = m.port2 /\ requests' = {}
<1> DEFINE h == m.port2
           b == Base(m)
<1>0. /\ h \in BOOLEAN /\ Enabled1(h) \in Seq(Ops) /\ Store(<< >>) \in Seq(Ops) /\ << >> \in Seq(Ops)
      /\ Enable2 \in Seq(Ops)
  BY PlacesTyped, RestsTyped, ThenTyped
<1>1. ~Bits(b, Off1) /\ b = (IF h THEN 0 ELSE 32)
  BY BaseIs DEF Right
<1>2. Right(m)' <=> keyboard'.set = SET_SCANCODE2
  BY DEF Right
<1>3. Went => machine' = machine /\ Right(m)' /\ pc' = "init"
  BY <1>2 DEF Went, Right
<1>4. Then(Or(1), Enabled1(h)) \in Seq(Ops) /\ Then(Or(2), Store(<< >>)) \in Seq(Ops)
  BY <1>0, OpsAre, ThenIs
<1>5. CASE Quiet /\ At(Enable(h), "keyboard", FALSE, b, b, h)
  <2> DEFINE c == "ENABLE_PORT1"
             t == Then(Or(1), Enabled1(h))
             n == "keyboard"
  <2>1. c \in Commands /\ Expected(c) = n /\ Answer(c) = << >>
    BY CommandsAre
  <2>2. Configured(c) = b
    BY <1>1, <1>5 DEF Configured, ClearBit, At
  <2>3. t \in Seq(Ops) /\ At(Then(Cmd(c), t), n, FALSE, b, b, h)
    BY <1>4, <1>5 DEF Enable
  <2> HIDE DEF c, t, n
  <2>4. At(t, n, FALSE, b, b, h)' /\ Quiet' /\ Went
    BY <1>5, <2>1, <2>2, <2>3, QuietCommandAt
  <2> QED BY <1>3, <2>4 DEF Enabling, t, n
<1>6. CASE Quiet /\ At(Then(Or(1), Enabled1(h)), "keyboard", FALSE, b, b, h)
  <2> DEFINE mask == 1
  <2>1. mask \in {1, 2} /\ SetBit(b, mask) = b + 1
    BY <1>0, <1>1 DEF SetBit, Bits
  <2>2. At(Then(Or(mask), Enabled1(h)), "keyboard", FALSE, b, b, h)
    BY <1>6
  <2> HIDE DEF mask
  <2>3. At(Enabled1(h), "keyboard", FALSE, b, SetBit(b, mask), h)' /\ Quiet' /\ Went
    BY <1>0, <1>6, <2>1, <2>2, OrAt
  <2>4. At(Enabled1(h), "keyboard", FALSE, b, b + 1, h)'
    BY <2>1, <2>3
  <2> QED BY <1>3, <2>3, <2>4 DEF Enabling
<1>7. CASE Quiet /\ At(Store(<< >>), "keyboard", FALSE, b, Final(m), h)
  <2>1. At(Then(PutCfg, << >>), "config", FALSE, b, Final(m), h)' /\ Quiet' /\ Went
    BY <1>0, <1>7, StoreAt
  <2> QED BY <1>3, <2>1 DEF Enabling
<1>8. CASE Quiet /\ At(Enabled1(h), "keyboard", FALSE, b, b + 1, h)
  <2>1. CASE h
    <3> DEFINE c == "ENABLE_PORT2"
               t == Then(Or(2), Store(<< >>))
               n == "keyboard"
               f == b + 1
    <3>1. c \in Commands /\ Expected(c) = n /\ Answer(c) = << >>
      BY CommandsAre
    <3>2. Configured(c) = b
      <4>1. config = b /\ machine.port2 = h /\ b = 0
        BY <1>1, <1>8, <2>1 DEF At, Stepping
      <4> QED BY <4>1 DEF Configured, ClearBit, Bits, Off2
    <3>3. t \in Seq(Ops) /\ At(Then(Cmd(c), t), n, FALSE, b, f, h)
      BY <1>4, <1>8, <2>1 DEF Enabled1, Enable2
    <3> HIDE DEF c, t, n, f
    <3>4. At(t, n, FALSE, b, f, h)' /\ Quiet' /\ Went
      BY <1>8, <3>1, <3>2, <3>3, QuietCommandAt
    <3>5. h = TRUE
      BY <1>0, <2>1
    <3>6. At(t, n, FALSE, b, f, TRUE)'
      BY <3>4, <3>5
    <3> QED BY <1>3, <2>1, <3>4, <3>6 DEF Enabling, t, n, f
  <2>2. CASE ~h
    <3>1. Enabled1(h) = Store(<< >>) /\ b + 1 = Final(m)
      BY <1>1, <2>2 DEF Enabled1, Final
    <3>2. At(Store(<< >>), "keyboard", FALSE, b, Final(m), h)
      BY <1>8, <3>1
    <3> QED BY <1>7, <1>8, <3>2
  <2> QED BY <2>1, <2>2
<1>9. CASE Quiet /\ h /\ At(Then(Or(2), Store(<< >>)), "keyboard", FALSE, b, b + 1, TRUE)
  <2> DEFINE mask == 2
             f == b + 1
  <2>1. mask \in {1, 2} /\ SetBit(f, mask) = Final(m)
    BY <1>1, <1>9 DEF SetBit, Bits, Final
  <2>2. At(Then(Or(mask), Store(<< >>)), "keyboard", FALSE, b, f, TRUE)
    BY <1>9
  <2> HIDE DEF mask, f
  <2>3. At(Store(<< >>), "keyboard", FALSE, b, SetBit(f, mask), TRUE)' /\ Quiet' /\ Went
    BY <1>0, <1>9, <2>1, <2>2, OrAt
  <2>4. h = TRUE
    BY <1>0, <1>9
  <2>5. At(Store(<< >>), "keyboard", FALSE, b, Final(m), h)'
    BY <2>1, <2>3, <2>4
  <2> QED BY <1>3, <2>3, <2>5 DEF Enabling
<1>10. CASE Quiet /\ At(Then(PutCfg, << >>), "config", FALSE, b, Final(m), h)
  <2>1. At(<< >>, "keyboard", FALSE, Final(m), Final(m), h)' /\ Quiet' /\ Went
    BY <1>0, <1>10, ConfigAt
  <2> QED BY <1>3, <2>1 DEF Enabling
<1>11. CASE Quiet /\ At(<< >>, "keyboard", FALSE, Final(m), Final(m), h)
  <2>1. pc' = "up" /\ UNCHANGED <<todo, cfg, controller, wires, history>>
    BY <1>11, DoneAt
  <2>2. Quiet' /\ config' = Final(m) /\ reporting' = h /\ requests' = {} /\ machine' = machine /\ keyboard' = keyboard
    BY <1>11, <2>1 DEF Quiet, At, Calm, Right, Stepping, controller, wires
  <2> QED BY <1>2, <2>1, <2>2 DEF Right
<1> QED BY <1>5, <1>6, <1>7, <1>8, <1>9, <1>10, <1>11 DEF Enabling

LEMMA TellingStep ==
  ASSUME NEW m \in Machines, NEW d \in Codes \ {RESET}, NEW r \in Seq(Ops), NEW v \in BOOLEAN, v <=> d = REPORTING,
         Stepping(m), Right(m), m.port2, Telling(d, r, v, m)
  PROVE  /\ Telling(d, r, v, m)' \/ (At(r, "keyboard", FALSE, Base(m), Base(m), v)' /\ Quiet')
         /\ Went
<1> DEFINE b == Base(m)
           one == <<ACK>>
<1>1. ~Bits(b, Off1) /\ ~Bits(b, Off2) /\ ~Bits(b, Int1) /\ ~Bits(b, Int2)
  BY BaseIs DEF Right
<1>2. one \in Seq(Bytes) /\ one # << >> /\ Head(one) = ACK /\ Tail(one) = << >>
  <2>1. ACK \in Bytes
    BY DEF ACK, Bytes
  <2> QED BY <2>1, BytesAre
<1>3. d \in Bytes /\ d # RESET /\ Exchange(d, r) \in Seq(Ops)
  BY CodesAreBytes, ThenTyped
<1>4. CASE Settled(Report(d, r), m) /\ Quiet
  <2> DEFINE c == "WRITE_PORT2"
             t == Exchange(d, r)
             n == "mouse"
  <2>1. c \in Commands /\ Expected(c) = n /\ Answer(c) = << >> /\ Configured(c) = config
    BY CommandsAre
  <2>2. Configured(c) = b
    BY <1>4, <2>1 DEF Settled, At
  <2>3. t \in Seq(Ops) /\ At(Then(Cmd(c), t), "keyboard", FALSE, b, b, FALSE)
    BY <1>3, <1>4 DEF Settled, Report
  <2> HIDE DEF c, t, n
  <2>4. At(t, n, FALSE, b, b, FALSE)' /\ Quiet' /\ Went
    BY <1>4, <2>1, <2>2, <2>3, QuietCommandAt
  <2> QED BY <2>4 DEF Telling, ToMouse, t, n
<1>5. CASE ToMouse(Exchange(d, r), m) /\ Quiet
  <2>1. one = MouseReply(d) /\ At(Exchange(d, r), "mouse", FALSE, b, b, FALSE)
    BY <1>3, <1>5 DEF MouseReply, ToMouse
  <2> HIDE DEF one
  <2>2. At(Then(Ack, r), "keyboard", FALSE, b, b, v)' /\ Stream("mouse", one)' /\ Went
    BY <1>1, <1>2, <1>3, <1>5, <2>1, MouseAt
  <2> QED BY <2>2 DEF Telling, one
<1>6. CASE At(Then(Ack, r), "keyboard", FALSE, b, b, v) /\ Stream("mouse", <<ACK>>)
  <2>1. Stream("mouse", one)
    BY <1>6
  <2> HIDE DEF one
  <2>2. At(r, "keyboard", FALSE, b, b, v)' /\ Stream("mouse", Tail(one))' /\ Went
    BY <1>1, <1>2, <1>6, <2>1, HeardAt
  <2> QED BY <1>2, <2>2, QuietThen DEF Sources
<1> QED BY <1>4, <1>5, <1>6 DEF Telling

LEMMA ReportingStep ==
  ASSUME NEW m \in Machines, Stepping(m), Right(m), Reporting(m)
  PROVE  machine' = machine /\ pc' = "init" /\ Right(m)' /\ (Reporting(m)' \/ Enabling(m)')
<1>1. Went => machine' = machine /\ Right(m)' /\ pc' = "init"
  BY DEF Went, Right
<1>2. m.port2 /\ m.port2 = TRUE
  BY DEF Reporting, Machines
<1>3. {SCALING1_1, RESOLUTION, 0, SAMPLE_RATE, 20, REPORTING} \subseteq Codes \ {RESET}
      /\ REPORTING \notin {SCALING1_1, RESOLUTION, 0, SAMPLE_RATE, 20}
  BY DEF Codes, SCALING1_1, RESOLUTION, SAMPLE_RATE, REPORTING, RESET
<1>4. /\ Mouse2 \in Seq(Ops) /\ Mouse3 \in Seq(Ops) /\ Mouse4 \in Seq(Ops) /\ Mouse5 \in Seq(Ops)
      /\ Mouse6 \in Seq(Ops) /\ Enable(TRUE) \in Seq(Ops)
  BY RestsTyped
<1>5. FALSE \in BOOLEAN /\ TRUE \in BOOLEAN
  OBVIOUS
<1>6. CASE Telling(SCALING1_1, Mouse2, FALSE, m)
  <2>1. (Telling(SCALING1_1, Mouse2, FALSE, m)' \/ (At(Mouse2, "keyboard", FALSE, Base(m), Base(m), FALSE)' /\ Quiet')) /\ Went
    BY <1>2, <1>3, <1>4, <1>5, <1>6, TellingStep
  <2> QED BY <1>1, <1>2, <2>1 DEF Reporting, Telling, Mouse2, Settled
<1>7. CASE Telling(RESOLUTION, Mouse3, FALSE, m)
  <2>1. (Telling(RESOLUTION, Mouse3, FALSE, m)' \/ (At(Mouse3, "keyboard", FALSE, Base(m), Base(m), FALSE)' /\ Quiet')) /\ Went
    BY <1>2, <1>3, <1>4, <1>5, <1>7, TellingStep
  <2> QED BY <1>1, <1>2, <2>1 DEF Reporting, Telling, Mouse3, Settled
<1>8. CASE Telling(0, Mouse4, FALSE, m)
  <2>1. (Telling(0, Mouse4, FALSE, m)' \/ (At(Mouse4, "keyboard", FALSE, Base(m), Base(m), FALSE)' /\ Quiet')) /\ Went
    BY <1>2, <1>3, <1>4, <1>5, <1>8, TellingStep
  <2> QED BY <1>1, <1>2, <2>1 DEF Reporting, Telling, Mouse4, Settled
<1>9. CASE Telling(SAMPLE_RATE, Mouse5, FALSE, m)
  <2>1. (Telling(SAMPLE_RATE, Mouse5, FALSE, m)' \/ (At(Mouse5, "keyboard", FALSE, Base(m), Base(m), FALSE)' /\ Quiet')) /\ Went
    BY <1>2, <1>3, <1>4, <1>5, <1>9, TellingStep
  <2> QED BY <1>1, <1>2, <2>1 DEF Reporting, Telling, Mouse5, Settled
<1>10. CASE Telling(20, Mouse6, FALSE, m)
  <2>1. (Telling(20, Mouse6, FALSE, m)' \/ (At(Mouse6, "keyboard", FALSE, Base(m), Base(m), FALSE)' /\ Quiet')) /\ Went
    BY <1>2, <1>3, <1>4, <1>5, <1>10, TellingStep
  <2> QED BY <1>1, <1>2, <2>1 DEF Reporting, Telling, Mouse6, Settled
<1>11. CASE Telling(REPORTING, Enable(TRUE), TRUE, m)
  <2>1. (Telling(REPORTING, Enable(TRUE), TRUE, m)' \/ (At(Enable(TRUE), "keyboard", FALSE, Base(m), Base(m), TRUE)' /\ Quiet')) /\ Went
    BY <1>2, <1>3, <1>4, <1>5, <1>11, TellingStep
  <2>2. CASE Telling(REPORTING, Enable(TRUE), TRUE, m)'
    BY <1>1, <1>2, <2>1, <2>2 DEF Reporting
  <2>3. CASE At(Enable(TRUE), "keyboard", FALSE, Base(m), Base(m), TRUE)' /\ Quiet'
    <3>1. At(Enable(m.port2), "keyboard", FALSE, Base(m), Base(m), m.port2)'
      BY <1>2, <2>3
    <3> QED BY <1>1, <2>1, <2>3, <3>1 DEF Enabling
  <2> QED BY <2>1, <2>2, <2>3
<1> QED BY <1>6, <1>7, <1>8, <1>9, <1>10, <1>11 DEF Reporting


LEMMA ResettingStep ==
  ASSUME NEW m \in Machines, Stepping(m), Right(m), Resetting(m)
  PROVE  machine' = machine /\ pc' = "init" /\ Right(m)' /\ (Resetting(m)' \/ Reporting(m)' \/ Enabling(m)')
<1> DEFINE h == m.port2
           b == Base(m)
           two == <<ACK, SELF_TEST_OK>>
           ok == <<SELF_TEST_OK>>
           three == <<ACK, SELF_TEST_OK, 0>>
           ok0 == <<SELF_TEST_OK, 0>>
           id == <<0>>
           rest == MouseReset(h)
           drop1 == Then(Drop, rest)
           drop2 == Then(Drop, drop1)
           mouse1 == Then(Drop, Mouse1)
           mouse2 == Then(Drop, mouse1)
<1>0. /\ h \in BOOLEAN /\ rest \in Seq(Ops) /\ drop1 \in Seq(Ops) /\ Confirm(rest) \in Seq(Ops)
      /\ Mouse1 \in Seq(Ops) /\ mouse1 \in Seq(Ops) /\ Confirm(Mouse1) \in Seq(Ops) /\ Reset(Mouse1) \in Seq(Ops)
  <2>1. h \in BOOLEAN /\ rest \in Seq(Ops) /\ Mouse1 \in Seq(Ops)
    BY PlacesTyped, RestsTyped
  <2> HIDE DEF rest
  <2> QED BY <2>1, ThenTyped
<1>1. ~Bits(b, Off1) /\ ~Bits(b, Int1) /\ ~Bits(b, Int2) /\ (h => ~Bits(b, Off2))
  BY BaseIs DEF Right
<1>2. Went => machine' = machine /\ Right(m)' /\ pc' = "init"
  BY DEF Went, Right
<1>3. ACK \in Bytes /\ SELF_TEST_OK \in Bytes /\ 0 \in Bytes /\ RESET \in Bytes
  BY DEF ACK, Bytes, SELF_TEST_OK, RESET
<1>4. /\ two \in Seq(Bytes) /\ two # << >> /\ Head(two) = ACK /\ Tail(two) = ok
      /\ ok \in Seq(Bytes) /\ ok # << >> /\ Head(ok) = SELF_TEST_OK /\ Tail(ok) = << >>
      /\ three \in Seq(Bytes) /\ three # << >> /\ Head(three) = ACK /\ Tail(three) = ok0
      /\ ok0 \in Seq(Bytes) /\ ok0 # << >> /\ Head(ok0) = SELF_TEST_OK /\ Tail(ok0) = id
      /\ id \in Seq(Bytes) /\ id # << >> /\ Tail(id) = << >>
  BY <1>3, BytesAre
<1>5. Quiet => Stale
  BY DEF Quiet, Stale
<1>6. CASE Settled(KeyboardReset(h), m) /\ Quiet
  <2> DEFINE d == RESET
             n == FALSE
             t == Confirm(rest)
             w == FALSE
  <2>1. two = Reply(m, d, w)
    BY DEF Reply, Right
  <2>2. d \in Bytes /\ n \in BOOLEAN /\ (n <=> d = SCANCODE) /\ d = RESET /\ t \in Seq(Ops)
    BY <1>0, <1>3 DEF RESET, SCANCODE
  <2>3. At(Exchange(d, t), "keyboard", w, b, b, FALSE)
    BY <1>6 DEF Settled, KeyboardReset, Reset
  <2> HIDE DEF d, n, t, w, two
  <2>4. /\ At(Then(Ack, t), "keyboard", n, b, b, FALSE)' /\ Stream("keyboard", two)' /\ pc' = "init"
        /\ keyboard'.set = NewSet(d, w) /\ machine' = machine
    BY <1>1, <1>4, <1>6, <2>1, <2>2, <2>3, KeyboardAt
  <2>5. keyboard'.set = SET_SCANCODE2
    BY <2>2, <2>4 DEF NewSet
  <2>6. Right(m)'
    BY <2>5 DEF Right
  <2> QED BY <2>4, <2>6 DEF Resetting, Settled, n, t, two
<1>7. CASE Settled(Then(Ack, Confirm(rest)), m) /\ Stream("keyboard", <<ACK, SELF_TEST_OK>>)
  <2>1. Stream("keyboard", two)
    BY <1>7
  <2> HIDE DEF two, ok, rest
  <2>2. At(Confirm(rest), "keyboard", FALSE, b, b, FALSE)' /\ Stream("keyboard", Tail(two))' /\ Went
    BY <1>0, <1>1, <1>4, <1>7, <2>1, HeardAt DEF Settled
  <2>3. Stream("keyboard", ok)'
    BY <1>4, <2>2
  <2> QED BY <1>2, <2>2, <2>3 DEF Resetting, Settled, ok, rest
<1>8. CASE Settled(Confirm(rest), m) /\ Stream("keyboard", <<SELF_TEST_OK>>)
  <2>1. Stream("keyboard", ok)
    BY <1>8
  <2> HIDE DEF ok, rest
  <2>2. At(drop2, "keyboard", FALSE, b, b, FALSE)' /\ Stream("keyboard", Tail(ok))' /\ Went
    BY <1>0, <1>1, <1>4, <1>8, <2>1, ConfirmedAt DEF Settled
  <2>3. Quiet'
    BY <1>4, <2>2, QuietThen DEF Sources
  <2> QED BY <1>2, <2>2, <2>3 DEF Resetting, Settled, rest
<1>9. CASE Settled(drop2, m) /\ Quiet
  <2> HIDE DEF drop1
  <2>1. At(drop1, "keyboard", FALSE, b, b, FALSE)' /\ Quiet' /\ Went
    BY <1>0, <1>5, <1>9, DropAt DEF Settled
  <2> QED BY <1>2, <2>1 DEF Resetting, Settled, drop1
<1>10. CASE Settled(drop1, m) /\ Quiet
  <2> HIDE DEF rest
  <2>1. At(rest, "keyboard", FALSE, b, b, FALSE)' /\ Quiet' /\ Went
    BY <1>0, <1>5, <1>10, DropAt DEF Settled
  <2> QED BY <1>2, <2>1 DEF Resetting, Settled, rest
<1>11. CASE Settled(rest, m) /\ Quiet /\ h
  <2> DEFINE c == "WRITE_PORT2"
             t == Reset(Mouse1)
             n == "mouse"
  <2>1. c \in Commands /\ Expected(c) = n /\ Answer(c) = << >> /\ Configured(c) = config
    BY CommandsAre
  <2>2. Configured(c) = b
    BY <1>11, <2>1 DEF Settled, At
  <2>3. t \in Seq(Ops) /\ At(Then(Cmd(c), t), "keyboard", FALSE, b, b, FALSE)
    BY <1>0, <1>11 DEF Settled, MouseReset
  <2> HIDE DEF c, t, n
  <2>4. At(t, n, FALSE, b, b, FALSE)' /\ Quiet' /\ Went
    BY <1>11, <2>1, <2>2, <2>3, QuietCommandAt
  <2> QED BY <1>2, <1>11, <2>4 DEF Resetting, ToMouse, t, n
<1>12. CASE Settled(rest, m) /\ Quiet /\ ~h
  <2>1. h = FALSE
    BY <1>0, <1>12
  <2>2. rest = Enable(h)
    BY <2>1 DEF MouseReset
  <2>3. At(Enable(h), "keyboard", FALSE, b, b, h)
    BY <1>12, <2>1, <2>2 DEF Settled
  <2>4. Enabling(m)
    BY <1>12, <2>3 DEF Enabling
  <2>5. todo # << >>
    <3>1. todo = Then(Cmd("ENABLE_PORT1"), Then(Or(1), Enabled1(h)))
      BY <2>3 DEF At, Enable
    <3>2. Then(Or(1), Enabled1(h)) \in Seq(Ops) /\ Cmd("ENABLE_PORT1") \in Ops
      BY PlacesTyped, OpsAre, ThenIs, CommandsAre
    <3> QED BY <3>1, <3>2, ThenIs
  <2>6. pc' # "up"
    BY <2>5 DEF Stepping, PS2_init, InitDone, SendCommand, SendData, SendConfig, OrConfig, PollAck, PollTimesOut,
                Read, Expect, ReadConfig, DetectPort2, Do, GoOn, KERNEL_PANIC
  <2> QED BY <2>4, <2>6, EnablingStep
<1>13. CASE h /\ ToMouse(Reset(Mouse1), m) /\ Quiet
  <2> DEFINE d == RESET
             n == FALSE
             t == Confirm(Mouse1)
  <2>1. three = MouseReply(d) /\ At(Exchange(d, t), "mouse", FALSE, b, b, FALSE)
    BY <1>13 DEF MouseReply, ToMouse, Reset
  <2>2. d \in Bytes /\ n \in BOOLEAN /\ (n <=> d = REPORTING) /\ t \in Seq(Ops)
    BY <1>0, <1>3 DEF RESET, REPORTING
  <2> HIDE DEF d, n, t, three
  <2>3. At(Then(Ack, t), "keyboard", FALSE, b, b, n)' /\ Stream("mouse", three)' /\ Went
    BY <1>1, <1>4, <1>13, <2>1, <2>2, MouseAt
  <2> QED BY <1>2, <1>13, <2>3 DEF Resetting, Settled, n, t, three
<1>14. CASE h /\ Settled(Then(Ack, Confirm(Mouse1)), m) /\ Stream("mouse", <<ACK, SELF_TEST_OK, 0>>)
  <2>1. Stream("mouse", three)
    BY <1>14
  <2> HIDE DEF three, ok0
  <2>2. At(Confirm(Mouse1), "keyboard", FALSE, b, b, FALSE)' /\ Stream("mouse", Tail(three))' /\ Went
    BY <1>0, <1>1, <1>4, <1>14, <2>1, HeardAt DEF Settled
  <2>3. Stream("mouse", ok0)'
    BY <1>4, <2>2
  <2> QED BY <1>2, <1>14, <2>2, <2>3 DEF Resetting, Settled, ok0
<1>15. CASE h /\ Settled(Confirm(Mouse1), m) /\ Stream("mouse", <<SELF_TEST_OK, 0>>)
  <2>1. Stream("mouse", ok0)
    BY <1>15
  <2> HIDE DEF ok0, id
  <2>2. At(mouse2, "keyboard", FALSE, b, b, FALSE)' /\ Stream("mouse", Tail(ok0))' /\ Went
    BY <1>0, <1>1, <1>4, <1>15, <2>1, ConfirmedAt DEF Settled
  <2>3. Stream("mouse", id)'
    BY <1>4, <2>2
  <2> QED BY <1>2, <1>15, <2>2, <2>3 DEF Resetting, Settled, id
<1>16. CASE h /\ Settled(mouse2, m) /\ Stream("mouse", <<0>>)
  <2>1. Stream("mouse", id) /\ Connected("mouse") /\ "mouse" \in Sources
    BY <1>1, <1>16 DEF Settled, At, Connected, Sources
  <2> HIDE DEF id, mouse1
  <2>2. At(mouse1, "keyboard", FALSE, b, b, FALSE)' /\ Stream("mouse", Tail(id))' /\ Went
    BY <1>0, <1>4, <1>16, <2>1, DropByteAt DEF Settled
  <2>3. Quiet'
    BY <1>4, <2>2, QuietThen DEF Sources
  <2> QED BY <1>2, <1>16, <2>2, <2>3 DEF Resetting, Settled, mouse1
<1>17. CASE h /\ Settled(mouse1, m) /\ Quiet
  <2>1. At(Mouse1, "keyboard", FALSE, b, b, FALSE)' /\ Quiet' /\ Went
    BY <1>0, <1>5, <1>17, DropAt DEF Settled
  <2>2. Telling(SCALING1_1, Mouse2, FALSE, m)'
    BY <2>1 DEF Telling, Settled, Mouse1
  <2> QED BY <1>2, <1>17, <2>1, <2>2 DEF Reporting
<1> QED BY <1>6, <1>7, <1>8, <1>9, <1>10, <1>11, <1>12, <1>13, <1>14, <1>15, <1>16, <1>17 DEF Resetting


\* A step of PS2_init leads to the next place, to the end, or to a panic that has its reason.
LEMMA PlaceStep ==
  ASSUME NEW m \in Machines, Stepping(m), Place(m)
  PROVE  /\ machine' = machine
         /\ \/ pc' = "init" /\ Place(m)'
            \/ /\ pc' = "up" /\ Right(m)' /\ Quiet' /\ config' = Final(m)
               /\ reporting' = m.port2 /\ requests' = {}
            \/ pc' = "panic" /\ (~m.keyboard \/ m.resets)
<1>1. CASE Starting(m)
  BY <1>1, StartingStep DEF Place, Went
<1>2. CASE Testing(m)
  BY <1>2, TestingStep DEF Place
<1>3. CASE Setting(m)
  BY <1>3, SettingStep DEF Place
<1>4. CASE Right(m) /\ Resetting(m)
  BY <1>4, ResettingStep DEF Place
<1>5. CASE Right(m) /\ Reporting(m)
  BY <1>5, ReportingStep DEF Place
<1>6. CASE Right(m) /\ Enabling(m)
  BY <1>6, EnablingStep DEF Place
<1> QED BY <1>1, <1>2, <1>3, <1>4, <1>5, <1>6 DEF Place

\* A byte that reaches the buffer leaves PS2_init where it is.
LEMMA PlaceDelivers ==
  ASSUME NEW m \in Machines, WiresTyped, Place(m), Deliver
  PROVE  Place(m)'
<1>1. ~Stale /\ ~Quiet
  BY DEF Stale, Quiet, Deliver, Arriving, WiresTyped, Sources
<1>2. UNCHANGED <<controller, driver, history>>
  BY DEF Deliver
<1>3. ASSUME NEW t, NEW e, NEW w, NEW c, NEW f, NEW v, NEW src \in Sources, NEW bytes \in Seq(Bytes),
             At(t, e, w, c, f, v), Stream(src, bytes)
      PROVE  At(t, e, w, c, f, v)' /\ Stream(src, bytes)'
  <2>1. Stream(src, bytes)' /\ Calm'
    BY <1>3, DeliverKeeps DEF At
  <2> QED BY <1>2, <1>3, <2>1 DEF At, controller, driver
<1>4. Right(m) => Right(m)'
  BY <1>2 DEF Right, controller
<1>5. keyboard.set = SET_SCANCODE2 => keyboard'.set = SET_SCANCODE2
  BY <1>2 DEF controller
<1>6. /\ ACK \in Bytes /\ SELF_TEST_OK \in Bytes /\ 0 \in Bytes /\ SET_SCANCODE2 \in Bytes
      /\ CTRL_TEST_OK \in Bytes /\ 113 \in Bytes /\ Base(m) \in Bytes
  <2>1. Base(m) \in Bytes
    BY BaseIs
  <2> QED BY <2>1 DEF ACK, Bytes, SELF_TEST_OK, SET_SCANCODE2, CTRL_TEST_OK
<1>7. "controller" \in Sources /\ "keyboard" \in Sources /\ "mouse" \in Sources
  BY DEF Sources
<1> DEFINE cfgs == <<113>>
           test == <<CTRL_TEST_OK>>
           base == <<Base(m)>>
           zero == <<0>>
           one == <<ACK>>
           heard == IF m.keyboard THEN <<ACK>> ELSE << >>
           both == <<ACK, SET_SCANCODE2>>
           set == <<SET_SCANCODE2>>
           two == <<ACK, SELF_TEST_OK>>
           ok == <<SELF_TEST_OK>>
           three == <<ACK, SELF_TEST_OK, 0>>
           ok0 == <<SELF_TEST_OK, 0>>
<1>8. /\ cfgs \in Seq(Bytes) /\ test \in Seq(Bytes) /\ base \in Seq(Bytes) /\ zero \in Seq(Bytes)
      /\ one \in Seq(Bytes) /\ heard \in Seq(Bytes) /\ both \in Seq(Bytes) /\ set \in Seq(Bytes)
      /\ two \in Seq(Bytes) /\ ok \in Seq(Bytes) /\ three \in Seq(Bytes) /\ ok0 \in Seq(Bytes)
  <2>1. << >> \in Seq(Bytes)
    OBVIOUS
  <2>2. one \in Seq(Bytes)
    BY <1>6, BytesAre
  <2>3. heard \in Seq(Bytes)
    BY <2>1, <2>2
  <2> QED BY <1>6, <2>2, <2>3, BytesAre
<1>9. CASE Starting(m)
  <2>1. \/ At(TakeCfg, "keyboard", FALSE, 113, 0, FALSE) /\ Stream("controller", cfgs)
        \/ At(Checked, "keyboard", FALSE, Tested(m), 32, FALSE) /\ Stream("controller", test)
        \/ At(Found, "keyboard", FALSE, Base(m), 32, FALSE) /\ Stream("controller", base)
    BY <1>1, <1>9 DEF Starting
  <2> HIDE DEF cfgs, test, base
  <2>2. \/ At(TakeCfg, "keyboard", FALSE, 113, 0, FALSE)' /\ Stream("controller", cfgs)'
        \/ At(Checked, "keyboard", FALSE, Tested(m), 32, FALSE)' /\ Stream("controller", test)'
        \/ At(Found, "keyboard", FALSE, Base(m), 32, FALSE)' /\ Stream("controller", base)'
    BY <1>3, <1>7, <1>8, <2>1
  <2> QED BY <2>2 DEF Place, Starting, cfgs, test, base
<1>10. CASE Testing(m)
  <2>1. \/ m.port2 /\ Settled(Then(Exp(0), SetSet(TRUE)), m) /\ Stream("controller", zero)
        \/ Settled(Then(Exp(0), Test2(m.port2)), m) /\ Stream("controller", zero)
    BY <1>1, <1>10 DEF Testing
  <2> HIDE DEF zero
  <2>2. \/ m.port2 /\ Settled(Then(Exp(0), SetSet(TRUE)), m)' /\ Stream("controller", zero)'
        \/ Settled(Then(Exp(0), Test2(m.port2)), m)' /\ Stream("controller", zero)'
    BY <1>3, <1>7, <1>8, <2>1 DEF Settled
  <2> QED BY <2>2 DEF Place, Testing, zero
<1>11. CASE Setting(m)
  <2> DEFINE set2 == keyboard.set = SET_SCANCODE2
             t1 == Then(Ack, Exchange(SET_SCANCODE2, GetSet(m.port2)))
             t2 == Then(Ack, GetSet(m.port2))
             t3 == Then(Ack, Exchange(GET_SCANCODE, SetIs2(m.port2)))
             t4 == Then(Ack, SetIs2(m.port2))
             t5 == SetIs2(m.port2)
  <2>1. \/ Waiting(t1, m) /\ Stream("keyboard", heard)
        \/ /\ m.keyboard /\ set2
           /\ \/ Settled(t2, m) /\ Stream("keyboard", one)
              \/ Waiting(t3, m) /\ Stream("keyboard", one)
              \/ Settled(t4, m) /\ Stream("keyboard", both)
              \/ Settled(t5, m) /\ Stream("keyboard", set)
    BY <1>1, <1>11 DEF Setting
  <2> HIDE DEF heard, one, both, set, t1, t2, t3, t4, t5
  <2>2. \/ Waiting(t1, m)' /\ Stream("keyboard", heard)'
        \/ /\ m.keyboard /\ set2
           /\ \/ Settled(t2, m)' /\ Stream("keyboard", one)'
              \/ Waiting(t3, m)' /\ Stream("keyboard", one)'
              \/ Settled(t4, m)' /\ Stream("keyboard", both)'
              \/ Settled(t5, m)' /\ Stream("keyboard", set)'
    BY <1>3, <1>7, <1>8, <2>1 DEF Settled, Waiting
  <2> QED BY <1>5, <2>2 DEF Place, Setting, heard, one, both, set, t1, t2, t3, t4, t5
<1>12. CASE Right(m) /\ Resetting(m)
  <2> DEFINE rest == MouseReset(m.port2)
  <2>1. \/ Settled(Then(Ack, Confirm(rest)), m) /\ Stream("keyboard", two)
        \/ Settled(Confirm(rest), m) /\ Stream("keyboard", ok)
        \/ m.port2 /\ Settled(Then(Ack, Confirm(Mouse1)), m) /\ Stream("mouse", three)
        \/ m.port2 /\ Settled(Confirm(Mouse1), m) /\ Stream("mouse", ok0)
        \/ m.port2 /\ Settled(Then(Drop, Then(Drop, Mouse1)), m) /\ Stream("mouse", zero)
    BY <1>1, <1>12 DEF Resetting
  <2> HIDE DEF two, ok, three, ok0, zero, rest
  <2>2. \/ Settled(Then(Ack, Confirm(rest)), m)' /\ Stream("keyboard", two)'
        \/ Settled(Confirm(rest), m)' /\ Stream("keyboard", ok)'
        \/ m.port2 /\ Settled(Then(Ack, Confirm(Mouse1)), m)' /\ Stream("mouse", three)'
        \/ m.port2 /\ Settled(Confirm(Mouse1), m)' /\ Stream("mouse", ok0)'
        \/ m.port2 /\ Settled(Then(Drop, Then(Drop, Mouse1)), m)' /\ Stream("mouse", zero)'
    BY <1>3, <1>7, <1>8, <2>1 DEF Settled
  <2> QED BY <1>4, <1>12, <2>2 DEF Place, Resetting, two, ok, three, ok0, zero, rest
<1>13. CASE Right(m) /\ Reporting(m)
  <2>1. ASSUME NEW d, NEW r, NEW v, Telling(d, r, v, m)
        PROVE  Telling(d, r, v, m)'
    <3>1. At(Then(Ack, r), "keyboard", FALSE, Base(m), Base(m), v) /\ Stream("mouse", one)
      BY <1>1, <2>1 DEF Telling
    <3> HIDE DEF one
    <3>2. At(Then(Ack, r), "keyboard", FALSE, Base(m), Base(m), v)' /\ Stream("mouse", one)'
      BY <1>3, <1>7, <1>8, <3>1
    <3> QED BY <3>2 DEF Telling, one
  <2> QED BY <1>4, <1>13, <2>1 DEF Place, Reporting
<1>14. CASE Right(m) /\ Enabling(m)
  BY <1>1, <1>14 DEF Enabling
<1> QED BY <1>9, <1>10, <1>11, <1>12, <1>13, <1>14 DEF Place

LEMMA PlaceInit ==
  ASSUME Init
  PROVE  Place(machine) /\ machine \in Machines
<1>1. config = 97 /\ todo = Detecting /\ expecting = "keyboard" /\ keyboard.waits = FALSE /\ cfg = 0
      /\ reporting = FALSE /\ requests = {} /\ machine \in Machines
  <2>1. config = 97
    BY DEF Init, ControllerInit, Translate, Int1, Off2
  <2>2. todo = Detecting /\ cfg = 0
    BY DetectIs DEF Init, DriverInit
  <2>3. keyboard.waits = FALSE
    BY DEF Init, ControllerInit
  <2>4. expecting = "keyboard" /\ reporting = FALSE /\ requests = {} /\ machine \in Machines
    BY DEF Init, ControllerInit, Machines
  <2> QED BY <2>1, <2>2, <2>3, <2>4
<1>2. Stale /\ sent["keyboard"] = << >> /\ sent["mouse"] = << >>
  BY DEF Init, ControllerInit, Stale, Sources
<1>3. At(Detecting, "keyboard", FALSE, 97, 0, FALSE)
  BY <1>1, <1>2 DEF At, Calm
<1> QED BY <1>1, <1>2, <1>3 DEF Place, Starting


-----------------------------------------------------------------------------
(***************************************************************************)
(* After PS2_init: the driver is up, and the handlers take turns.          *)
(***************************************************************************)
DriverInv == Typed /\ Untouched /\ Booted /\ PanicHasReason

LEMMA InitOnly ==
  ASSUME PS2_init
  PROVE  pc = "init" /\ (late => late') /\ early' = early
<1> USE DEF Do, history
<1>1. SendCommand => pc = "init" /\ UNCHANGED history
  BY DEF SendCommand
<1>2. SendData => pc = "init" /\ UNCHANGED history
  BY DEF SendData
<1>3. SendConfig => pc = "init" /\ UNCHANGED history
  BY DEF SendConfig
<1>4. OrConfig => pc = "init" /\ UNCHANGED history
  BY DEF OrConfig
<1>5. PollAck => pc = "init" /\ UNCHANGED history
  BY DEF PollAck
<1>6. PollTimesOut => pc = "init" /\ UNCHANGED history
  BY DEF PollTimesOut
<1>7. Read => pc = "init" /\ (late => late') /\ early' = early
  BY DEF Read
<1>8. Expect => pc = "init" /\ (late => late') /\ early' = early
  BY DEF Expect
<1>9. ReadConfig => pc = "init" /\ (late => late') /\ early' = early
  BY DEF ReadConfig
<1>10. DetectPort2 => pc = "init" /\ (late => late') /\ early' = early
  BY DEF DetectPort2
<1>11. InitDone => pc = "init" /\ UNCHANGED history
  BY DEF InitDone
<1> QED BY <1>1, <1>2, <1>3, <1>4, <1>5, <1>6, <1>7, <1>8, <1>9, <1>10, <1>11 DEF PS2_init

LEMMA KeptByInit ==
  ASSUME DriverInv, Typed', InitStep
  PROVE  Untouched' /\ Booted' /\ PanicHasReason'
<1>1. pc = "init" /\ (late => late') /\ early' = early /\ UNCHANGED <<irq, decoder, user>> /\ PS2_init
  BY InitOnly DEF InitStep
<1>2. Untouched'
  BY <1>1 DEF DriverInv, Untouched, irq, decoder, user
<1>3. event'.at = 0 /\ moves' = moves
  BY <1>1 DEF DriverInv, Untouched, decoder, user
<1>4. CASE late' \/ early
  BY <1>1, <1>2, <1>4 DEF Booted, PanicHasReason, Undisturbed
<1>5. CASE ~late' /\ ~early
  <2>1. PICK m \in Machines : machine = m
    BY DEF DriverInv, Typed, ControllerTyped, Machines
  <2>2. Place(m)
    BY <1>1, <1>5, <2>1 DEF DriverInv, Booted, Undisturbed
  <2>3. Stepping(m)
    BY <1>1, <1>5, <2>1 DEF DriverInv, Stepping
  <2>4. /\ machine' = machine
        /\ \/ pc' = "init" /\ Place(m)'
           \/ /\ pc' = "up" /\ Right(m)' /\ Quiet' /\ config' = Final(m)
              /\ reporting' = m.port2 /\ requests' = {}
           \/ pc' = "panic" /\ (~m.keyboard \/ m.resets)
    BY <2>2, <2>3, PlaceStep
  <2>5. CASE pc' = "init" /\ Place(m)'
    <3>1. Place(machine)'
      BY <2>1, <2>4, <2>5
    <3> QED BY <1>2, <2>5, <3>1 DEF Booted, PanicHasReason
  <2>6. CASE pc' = "up" /\ Right(m)' /\ Quiet' /\ config' = Final(m) /\ reporting' = m.port2 /\ requests' = {}
    <3>1. Right(machine)' /\ config' = Final(machine)' /\ reporting' = machine'.port2
      BY <2>1, <2>4, <2>6
    <3>2. handler' = "none"
      BY <1>1 DEF DriverInv, Untouched, irq
    <3>3. Up'
      BY <2>6, <3>1, <3>2 DEF Up
    <3> QED BY <1>2, <2>6, <3>3 DEF Booted, PanicHasReason
  <2>7. CASE pc' = "panic" /\ (~m.keyboard \/ m.resets)
    BY <1>2, <1>3, <2>1, <2>4, <2>7 DEF Booted, PanicHasReason
  <2> QED BY <2>4, <2>5, <2>6, <2>7
<1> QED BY <1>2, <1>4, <1>5

LEMMA KeptByDeliver ==
  ASSUME DriverInv, Typed', DeliverStep
  PROVE  Untouched' /\ Booted' /\ PanicHasReason'
<1>1. Deliver /\ UNCHANGED <<controller, driver, history, irq, decoder, user>>
  BY DEF DeliverStep, Deliver
<1>2. Untouched' /\ PanicHasReason'
  BY <1>1 DEF DriverInv, Untouched, PanicHasReason, controller, driver, history, irq, decoder, user
<1>3. pc = "init" /\ Undisturbed => Place(machine)'
  <2>1. PICK m \in Machines : machine = m
    BY DEF DriverInv, Typed, ControllerTyped, Machines
  <2>2. Place(m) => Place(m)'
    BY <1>1, PlaceDelivers DEF DriverInv, Typed
  <2> QED BY <1>1, <2>1, <2>2 DEF DriverInv, Booted, controller
<1>4. pc = "up" /\ Undisturbed => Up'
  <2> SUFFICES ASSUME pc = "up", Undisturbed
               PROVE  Up'
    OBVIOUS
  <2>1. Up
    BY DEF DriverInv, Booted
  <2>2. ~Quiet /\ ~out.new
    BY <1>1 DEF Quiet, Deliver, Arriving, DriverInv, Typed, WiresTyped, Sources
  <2>3. (Right(machine) /\ config = Final(machine) /\ reporting = machine.port2)'
    BY <1>1, <2>1 DEF Up, Right, controller
  <2>4. ~(acts' = << >> /\ moves' = 0)
    BY <1>1, <2>1, <2>2 DEF Up, user
  <2>5. ~stolen' => ("keyboard" \in requests' \/ handler' = "keyboard" => out'.new /\ out'.src = "keyboard")
                    /\ (handler' = "keyboard" => "keyboard" \notin requests')
    <3> SUFFICES ASSUME ~stolen
                 PROVE  ("keyboard" \in requests' \/ handler' = "keyboard" => out'.new /\ out'.src = "keyboard")
                        /\ (handler' = "keyboard" => "keyboard" \notin requests')
      BY <1>1 DEF irq
    <3>1. "keyboard" \notin requests /\ handler # "keyboard" /\ handler' = handler
      BY <1>1, <2>1, <2>2 DEF Up, irq
    <3>2. "keyboard" \in requests' => out'.new /\ out'.src = "keyboard"
      BY <1>1, <3>1 DEF Deliver
    <3> QED BY <3>1, <3>2
  <2> QED BY <2>3, <2>4, <2>5 DEF Up
<1> QED BY <1>1, <1>2, <1>3, <1>4 DEF DriverInv, Booted, Undisturbed, driver, history, irq, decoder


\* Who runs while the driver is up: the controller's state is the program's, not theirs.
LEMMA KeptByHandlers ==
  ASSUME DriverInv, Typed', Handle
  PROVE  Untouched' /\ Booted' /\ PanicHasReason'
<1>0. /\ pc \in {"init", "up", "panic"} /\ machine \in Machines /\ stolen \in BOOLEAN
      /\ moves \in Nat /\ acts \in Seq(Actions) /\ out.new \in BOOLEAN
  BY DEF DriverInv, Typed, WiresTyped, ControllerTyped, Machines, DriverTyped, HandlerTyped, UserTyped
<1>1. pc = "up" /\ Undisturbed => Up
  BY DEF DriverInv, Booted
<1>2. ASSUME NEW src \in {"keyboard", "mouse"}, Enter(src)
      PROVE  Untouched' /\ Booted' /\ PanicHasReason'
  <2>1. /\ pc = "up" /\ pc' = "up" /\ machine' = machine /\ config' = config /\ keyboard' = keyboard
        /\ reporting' = reporting /\ out' = out /\ sent' = sent /\ acts' = acts /\ moves' = moves
        /\ UNCHANGED history /\ stolen' = stolen
    BY <1>2 DEF Enter, controller, driver, user
  <2>2. handler = "none" /\ src \in requests /\ requests' = requests \ {src}
        /\ handler' = IF src = "keyboard" THEN "keyboard" ELSE "mouse0"
    BY <1>2 DEF Enter
  <2>3. Undisturbed => Up'
    <3> SUFFICES ASSUME Undisturbed
                 PROVE  Up'
      OBVIOUS
    <3>1. Up
      BY <1>1, <2>1
    <3>2. (Right(machine) /\ config = Final(machine) /\ reporting = machine.port2)'
      BY <2>1, <3>1 DEF Up, Right
    <3>3. (acts = << >> /\ moves = 0 => Quiet)'
      BY <2>1, <3>1 DEF Up, Quiet
    <3>4. (~stolen => ("keyboard" \in requests \/ handler = "keyboard" => out.new /\ out.src = "keyboard")
                      /\ (handler = "keyboard" => "keyboard" \notin requests))'
      BY <2>1, <2>2, <3>1 DEF Up
    <3> QED BY <3>2, <3>3, <3>4 DEF Up
  <2> QED BY <2>1, <2>3 DEF DriverInv, Untouched, Booted, PanicHasReason, Undisturbed, history
<1>3. ASSUME keyboard_handler
      PROVE  Untouched' /\ Booted' /\ PanicHasReason'
  <2>1. /\ pc = "up" /\ pc' = "up" /\ machine' = machine /\ config' = config /\ keyboard' = keyboard
        /\ reporting' = reporting /\ acts' = acts /\ moves' = moves /\ UNCHANGED history
        /\ (~stolen' => ~stolen) /\ handler' = "none"
    BY <1>0, <1>3 DEF keyboard_handler, ReadData, Stolen, controller, driver, user
  <2>2. handler = "keyboard" /\ out.new /\ "keyboard" \in requests' => "keyboard" \in requests
    BY <1>3 DEF keyboard_handler, ReadData
  <2>3. handler = "keyboard" /\ out.new
    BY <1>3 DEF keyboard_handler
  <2>4. Undisturbed => Up'
    <3> SUFFICES ASSUME Undisturbed
                 PROVE  Up'
      OBVIOUS
    <3>1. Up
      BY <1>1, <2>1
    <3>2. (Right(machine) /\ config = Final(machine) /\ reporting = machine.port2)'
      BY <2>1, <3>1 DEF Up, Right
    <3>3. (acts = << >> /\ moves = 0 => Quiet)'
      BY <2>1, <2>3, <3>1 DEF Up, Quiet
    <3>4. (~stolen => ("keyboard" \in requests \/ handler = "keyboard" => out.new /\ out.src = "keyboard")
                      /\ (handler = "keyboard" => "keyboard" \notin requests))'
      BY <2>1, <2>2, <2>3, <3>1 DEF Up
    <3> QED BY <3>2, <3>3, <3>4 DEF Up
  <2> QED BY <2>1, <2>4 DEF DriverInv, Untouched, Booted, PanicHasReason, Undisturbed, history
<1>4. ASSUME keyboard_handler_times_out
      PROVE  Untouched' /\ Booted' /\ PanicHasReason'
  <2>1. /\ pc = "up" /\ pc' = "panic" /\ handler = "keyboard" /\ ~out.new /\ UNCHANGED history /\ stolen' = stolen
        /\ acts' = acts
    BY <1>4 DEF keyboard_handler_times_out, KERNEL_PANIC, irq, user
  <2>2. Undisturbed => stolen
    BY <1>1, <2>1 DEF Up
  <2> QED BY <2>1, <2>2 DEF DriverInv, Untouched, Booted, PanicHasReason, Undisturbed, history
<1>5. ASSUME mouse_handler
      PROVE  Untouched' /\ Booted' /\ PanicHasReason'
  <2>1. /\ pc' = pc /\ machine' = machine /\ config' = config /\ keyboard' = keyboard
        /\ reporting' = reporting /\ acts' = acts /\ moves' = moves /\ UNCHANGED history /\ event' = event
    BY <1>5 DEF mouse_handler, ReadData, controller, driver, user, decoder
  <2>2. /\ handler # "none" /\ out' = [out EXCEPT !.new = FALSE] /\ sent' = sent
        /\ requests' \in {requests, requests \ {out.src}}
    BY <1>5 DEF mouse_handler, ReadData
  <2>3. stolen' <=> stolen \/ (out.new /\ out.src # "mouse")
    BY <1>5 DEF mouse_handler, Stolen
  <2>4. handler' # "keyboard"
    BY <1>5 DEF mouse_handler, After
  <2>5. pc # "init"
    BY <2>2 DEF DriverInv, Untouched
  <2>6. pc = "up" /\ Undisturbed => Up'
    <3> SUFFICES ASSUME pc = "up", Undisturbed
                 PROVE  Up'
      OBVIOUS
    <3>1. Up
      BY <1>1
    <3>2. (Right(machine) /\ config = Final(machine) /\ reporting = machine.port2)'
      BY <2>1, <3>1 DEF Up, Right
    <3>3. (acts = << >> /\ moves = 0 => Quiet)'
      BY <2>1, <2>2, <3>1 DEF Up, Quiet, DriverInv, Typed, WiresTyped
    <3>4. ~stolen' => "keyboard" \notin requests'
      BY <2>2, <2>3, <3>1 DEF Up
    <3> QED BY <2>4, <3>2, <3>3, <3>4 DEF Up
  <2>7. PanicHasReason'
    BY <2>1, <2>3 DEF DriverInv, PanicHasReason, history
  <2>8. Booted'
    BY <2>1, <2>3, <2>5, <2>6 DEF DriverInv, Booted, Undisturbed, history
  <2> QED BY <2>1, <2>5, <2>7, <2>8 DEF DriverInv, Untouched, history
<1> QED BY <1>2, <1>3, <1>4, <1>5 DEF Handle

LEMMA KeptByTheRest ==
  ASSUME DriverInv, Typed', \/ PS2_get_char \/ (\E k \in Keys : Hit(k)) \/ Move \/ Stop \/ UNCHANGED vars
  PROVE  Untouched' /\ Booted' /\ PanicHasReason'
<1>0. /\ pc \in {"init", "up", "panic"} /\ moves \in Nat /\ acts \in Seq(Actions)
  BY DEF DriverInv, Typed, DriverTyped, UserTyped
<1>1. CASE PS2_get_char
  <2>1. pc = "up" /\ UNCHANGED <<ps2, handler, stolen, full, user>>
    BY <1>1 DEF PS2_get_char
  <2>2. Up => Up'
    BY <2>1 DEF Up, Right, Quiet, ps2, controller, wires, user
  <2> QED BY <2>1, <2>2 DEF DriverInv, Untouched, Booted, PanicHasReason, Undisturbed, history, ps2, driver, controller, user
<1>2. ASSUME NEW k \in Keys, Hit(k)
      PROVE  Untouched' /\ Booted' /\ PanicHasReason'
  <2>1. /\ pc # "panic" /\ UNCHANGED <<driver, controller, out, requests, late, irq, decoder, moves>>
        /\ early' = (early \/ pc = "init")
        /\ \E a : acts' = Append(acts, a)
    BY <1>2 DEF Hit
  <2>2. acts' # << >>
    BY <1>0, <2>1
  <2>3. Up => Up'
    BY <2>1, <2>2 DEF Up, Right, controller, irq
  <2>4. Untouched'
    BY <2>1, <2>2 DEF DriverInv, Untouched, driver, irq, decoder
  <2>5. pc' = pc
    BY <2>1 DEF driver
  <2>6. PanicHasReason'
    BY <2>1, <2>5 DEF PanicHasReason
  <2>7. Booted'
    BY <1>0, <2>1, <2>3, <2>5 DEF DriverInv, Booted, Undisturbed
  <2> QED BY <2>4, <2>6, <2>7
<1>3. CASE Move
  <2>1. /\ pc = "up" /\ moves' # 0
        /\ UNCHANGED <<driver, controller, out, requests, history, irq, decoder, held, acts>>
    BY <1>0, <1>3 DEF Move
  <2>2. Up => Up'
    BY <2>1 DEF Up, Right, controller, irq
  <2> QED BY <2>1, <2>2 DEF DriverInv, Untouched, Booted, PanicHasReason, Undisturbed, history, driver, irq, decoder
<1>4. CASE Stop \/ UNCHANGED vars
  <2>1. UNCHANGED <<pc, todo, cfg, machine, config, expecting, keyboard, reporting, out, sent, requests, late, early>>
    BY <1>4 DEF Stop, vars, ps2, driver, controller, wires, history
  <2>2. UNCHANGED <<handler, queue, stolen, full, key, event, eaten, moves, acts>>
    BY <1>4 DEF Stop, vars, irq, decoder, user
  <2>3. Untouched'
    BY <2>1, <2>2 DEF DriverInv, Untouched
  <2>4. PanicHasReason'
    BY <2>1, <2>2 DEF DriverInv, PanicHasReason
  <2>5. Up => Up'
    BY <2>1, <2>2 DEF Up, Right, Quiet
  <2>6. Place(machine) => Place(machine)'
    BY <2>1 DEF Place, Starting, Testing, Setting, Resetting, Reporting, Enabling, Telling, Right, Settled, Waiting,
                ToMouse, At, Stream, Seen, Translated, Quiet, Stale, Calm
  <2> QED BY <2>1, <2>2, <2>3, <2>4, <2>5, <2>6 DEF DriverInv, Booted, Undisturbed
<1> QED BY <1>1, <1>2, <1>3, <1>4

LEMMA DriverStep == DriverInv /\ [Next]_vars => DriverInv'
<1> SUFFICES ASSUME DriverInv, [Next]_vars
             PROVE  DriverInv'
  OBVIOUS
<1>1. Typed'
  BY KeyboardStep DEF DriverInv
<1>2. InitStep => Untouched' /\ Booted' /\ PanicHasReason'
  BY <1>1, KeptByInit
<1>3. DeliverStep => Untouched' /\ Booted' /\ PanicHasReason'
  BY <1>1, KeptByDeliver
<1>4. Handle => Untouched' /\ Booted' /\ PanicHasReason'
  BY <1>1, KeptByHandlers
<1>5. PS2_get_char \/ (\E k \in Keys : Hit(k)) \/ Move \/ Stop \/ UNCHANGED vars
      => Untouched' /\ Booted' /\ PanicHasReason'
  BY <1>1, KeptByTheRest
<1> QED BY <1>1, <1>2, <1>3, <1>4, <1>5 DEF Next, DriverInv

LEMMA DriverStarts == Init => DriverInv
<1> SUFFICES ASSUME Init
             PROVE  DriverInv
  OBVIOUS
<1>1. Typed
  BY KeyboardInit
<1>2. Place(machine)
  BY PlaceInit
<1>3. pc = "init" /\ early = FALSE
  BY DEF Init, DriverInit
<1>4. Untouched
  BY <1>3 DEF Init, Untouched
<1> QED BY <1>1, <1>2, <1>3, <1>4 DEF DriverInv, Booted, PanicHasReason


LEMMA UpIsRight == DriverInv => InitRight
<1> SUFFICES ASSUME DriverInv, pc = "up", acts = << >>, moves = 0, ~late
             PROVE  /\ keyboard.set = SET_SCANCODE2 /\ ~Bits(config, Translate)
                    /\ Connected("keyboard") /\ Bits(config, Int1)
                    /\ reporting = machine.port2
                    /\ machine.port2 => Connected("mouse") /\ Bits(config, Int2)
                    /\ ~out.new /\ \A src \in DOMAIN sent : sent[src] = << >>
  BY DEF InitRight
<1>1. Up
  BY DEF DriverInv, Untouched, Booted, Undisturbed
<1>2. Quiet /\ keyboard.set = SET_SCANCODE2 /\ reporting = machine.port2
  BY <1>1 DEF Up, Right
<1>3. config = IF machine.port2 THEN 3 ELSE 33
  BY <1>1 DEF Up, Final
<1>4. CASE config = 3 /\ machine.port2
  <2>1. ~Bits(config, Translate) /\ ~Bits(config, Off1) /\ ~Bits(config, Off2) /\ Bits(config, Int1) /\ Bits(config, Int2)
    BY <1>4 DEF Bits, Translate, Off1, Off2, Int1, Int2
  <2> QED BY <1>2, <2>1 DEF Connected, Quiet, DriverInv, Typed, WiresTyped
<1>5. CASE config = 33 /\ ~machine.port2
  <2>1. ~Bits(config, Translate) /\ ~Bits(config, Off1) /\ Bits(config, Int1)
    BY <1>5 DEF Bits, Translate, Off1, Int1
  <2> QED BY <1>2, <1>5, <2>1 DEF Connected, Quiet, DriverInv, Typed, WiresTyped
<1> QED BY <1>3, <1>4, <1>5

(***************************************************************************)
(* A driver that came up undisturbed, and with no answer read too early,   *)
(* has left the controller as the rest of the driver expects it.           *)
(***************************************************************************)
THEOREM KeyboardInitRight == Spec => []InitRight
BY DriverStarts, DriverStep, UpIsRight, PTL DEF Spec

(***************************************************************************)
(* The driver panics only when there is no keyboard, an answer was read    *)
(* too early, a key was hit during initialisation, the self test turned    *)
(* translation on, or a handler has read a byte of the other device.       *)
(***************************************************************************)
THEOREM KeyboardPanics == Spec => []PanicHasReason
<1>1. DriverInv => PanicHasReason
  BY DEF DriverInv
<1> QED BY <1>1, DriverStarts, DriverStep, PTL DEF Spec


-----------------------------------------------------------------------------
(***************************************************************************)
(* The bytes of a key, from the keyboard to PS2_get_char.                  *)
(***************************************************************************)

\* The code comes last, and the prefix of a release just before it.
LEMMA SentIs ==
  ASSUME NEW k \in Keys, NEW released \in BOOLEAN, NEW s, s = Sent(k, released)
  PROVE  /\ s \in Seq(Bytes) /\ Len(s) \in Nat /\ Len(s) >= 1 /\ s[Len(s)] = Code(k)
         /\ released => Len(s) >= 2 /\ s[Len(s) - 1] = RELEASED
         /\ \A q \in 1 .. Len(s) : s[q] = RELEASED => released /\ q = Len(s) - 1
         /\ \A q \in 1 .. Len(s) : s[q] = EXTENDED =>
              IsExtended(k) /\ (q = Len(s) - 1 \/ (q = Len(s) - 2 /\ released))
         /\ \A q \in 1 .. Len(s) : s[q] \notin {EXTENDED, RELEASED} => q = Len(s)
<1>1. Code(k) \in Bytes \ {0, EXTENDED, RELEASED} /\ s \in Seq(Bytes)
  BY KeysAre
<1>2. EXTENDED \in Bytes /\ RELEASED \in Bytes /\ EXTENDED # RELEASED
  BY DEF EXTENDED, RELEASED, Bytes
<1> DEFINE e == IF IsExtended(k) THEN <<EXTENDED>> ELSE << >>
           r == IF released THEN <<RELEASED>> ELSE << >>
           c == <<Code(k)>>
           er == e \o r
<1>3. e \in Seq(Bytes) /\ Len(e) \in {0, 1} /\ \A i \in 1 .. Len(e) : e[i] = EXTENDED
  BY <1>2
<1>4. r \in Seq(Bytes) /\ Len(r) = (IF released THEN 1 ELSE 0) /\ \A i \in 1 .. Len(r) : r[i] = RELEASED
  BY <1>2
<1>5. c \in Seq(Bytes) /\ Len(c) = 1 /\ c[1] = Code(k)
  BY <1>1
<1>6. s = er \o c
  BY DEF Sent
<1> HIDE DEF e, r, c
<1>7. /\ er \in Seq(Bytes) /\ Len(er) = Len(e) + Len(r)
      /\ \A i \in 1 .. Len(e) + Len(r) : er[i] = IF i <= Len(e) THEN e[i] ELSE r[i - Len(e)]
  BY <1>3, <1>4, ConcatProperties
<1> HIDE DEF er
<1>8. /\ Len(s) = Len(er) + Len(c)
      /\ \A i \in 1 .. Len(er) + Len(c) : s[i] = IF i <= Len(er) THEN er[i] ELSE c[i - Len(er)]
  <2>1. er \in Seq(Bytes) /\ c \in Seq(Bytes)
    BY <1>5, <1>7
  <2> QED BY <1>6, <2>1, ConcatProperties
<1>9. Len(s) = Len(e) + Len(r) + 1 /\ Len(s) \in Nat /\ Len(s) >= 1 /\ s[Len(s)] = Code(k)
  BY <1>3, <1>4, <1>5, <1>7, <1>8
<1>10. \A q \in 1 .. Len(s) : s[q] = IF q <= Len(e) THEN EXTENDED ELSE IF q <= Len(e) + Len(r) THEN RELEASED ELSE Code(k)
  BY <1>3, <1>4, <1>5, <1>7, <1>8, <1>9
<1>11. released => Len(s) >= 2 /\ s[Len(s) - 1] = RELEASED
  <2> SUFFICES ASSUME released
               PROVE  Len(s) >= 2 /\ s[Len(s) - 1] = RELEASED
    OBVIOUS
  <2>1. PICK x \in {0, 1} : x = Len(e)
    BY <1>3
  <2>2. PICK n \in Nat : n = Len(s)
    BY <1>9
  <2>3. Len(r) = 1 /\ n = Len(e) + Len(r) + 1
    BY <1>4, <1>9, <2>2
  <2>4. n = x + 2
    BY <2>1, <2>3
  <2>5. \A q \in 1 .. n : s[q] = IF q <= x THEN EXTENDED ELSE IF q <= x + 1 THEN RELEASED ELSE Code(k)
    BY <1>10, <2>1, <2>2, <2>3
  <2>6. n >= 2 /\ n - 1 \in 1 .. n /\ ~(n - 1 <= x) /\ n - 1 <= x + 1
    BY <2>4
  <2>7. s[n - 1] = RELEASED
    BY <2>5, <2>6
  <2> QED BY <2>2, <2>6, <2>7
<1>12. \A q \in 1 .. Len(s) : s[q] = RELEASED => released /\ q = Len(s) - 1
  BY <1>1, <1>2, <1>3, <1>4, <1>9, <1>10
<1>13. \A q \in 1 .. Len(s) : s[q] \notin {EXTENDED, RELEASED} => q = Len(s)
  BY <1>3, <1>4, <1>9, <1>10
<1>14. \A q \in 1 .. Len(s) : s[q] = EXTENDED =>
         IsExtended(k) /\ (q = Len(s) - 1 \/ (q = Len(s) - 2 /\ released))
  <2> SUFFICES ASSUME NEW q \in 1 .. Len(s), s[q] = EXTENDED
               PROVE  IsExtended(k) /\ (q = Len(s) - 1 \/ (q = Len(s) - 2 /\ released))
    OBVIOUS
  <2>1. q <= Len(e)
    BY <1>1, <1>2, <1>3, <1>4, <1>9, <1>10
  <2>2. IsExtended(k) /\ q = 1 /\ Len(e) = 1
    BY <1>3, <1>9, <2>1 DEF e
  <2> QED BY <1>4, <1>9, <2>2
<1> QED BY <1>1, <1>9, <1>11, <1>12, <1>13, <1>14

LEMMA ActedTyped ==
  ASSUME acts \in Seq(Actions)
  PROVE  Acted \in Nat /\ \A i \in DOMAIN acts : acts[i] \in Actions /\ acts[i].end \in Nat /\ acts[i].key \in Keys
                                                 /\ acts[i].released \in BOOLEAN
<1>1. \A i \in DOMAIN acts : acts[i] \in Actions
  OBVIOUS
<1>2. acts # << >> => Len(acts) \in DOMAIN acts
  OBVIOUS
<1> QED BY <1>1, <1>2 DEF Acted, Actions

\* What is meant by a byte does not change when nothing is hit ...
LEMMA StillMeant ==
  ASSUME UNCHANGED acts
  PROVE  (\A p, x : Meant(p, x) => Meant(p, x)') /\ Acted' = Acted
BY DEF Meant, Prefixes, Acted

\* ... nor when another key is.
LEMMA MeantGrows ==
  ASSUME acts \in Seq(Actions), NEW a \in Actions, NEW n \in Nat, acts' = Append(acts, a),
         a.end = Acted + n, n >= 1, a.released => n >= 2
  PROVE  /\ Acted' = Acted + n
         /\ \A p \in 1 .. Acted : \A x : Meant(p, x) => Meant(p, x)'
<1>1. /\ acts' \in Seq(Actions) /\ Len(acts') = Len(acts) + 1 /\ acts'[Len(acts) + 1] = a
      /\ \A i \in DOMAIN acts : acts'[i] = acts[i]
      /\ DOMAIN acts = 1 .. Len(acts) /\ DOMAIN acts' = 1 .. Len(acts) + 1 /\ Len(acts) \in Nat
  OBVIOUS
<1>2. Acted \in Nat /\ acts' # << >>
  BY <1>1, ActedTyped
<1>3. Acted' = Acted + n
  BY <1>1, <1>2 DEF Acted
<1>4. ASSUME NEW p \in 1 .. Acted, NEW x, Meant(p, x)
      PROVE  Meant(p, x)'
  <2>1. a.end # p /\ ~(a.end = p + 1 /\ a.released)
    BY <1>2
  <2>2. \A i \in DOMAIN acts' : i \in DOMAIN acts \/ acts'[i] = a
    BY <1>1
  <2>3. \A i \in DOMAIN acts' : acts'[i].end = p => i \in DOMAIN acts /\ acts'[i] = acts[i]
    BY <1>1, <2>1, <2>2
  <2>4. \A i \in DOMAIN acts' : acts'[i].end = p + 1 /\ acts'[i].released => i \in DOMAIN acts /\ acts'[i] = acts[i]
    BY <1>1, <2>1, <2>2
  <2>5. \A i \in DOMAIN acts : i \in DOMAIN acts' /\ acts'[i] = acts[i]
    BY <1>1
  <2> HIDE <1>1
  <2>6. Prefixes(p) => Prefixes(p)'
    BY <2>5 DEF Prefixes
  <2> QED BY <1>4, <2>3, <2>4, <2>5, <2>6 DEF Meant
<1> QED BY <1>3, <1>4


Followed == Carried /\ Ends /\ Taken
Loaded == out.new /\ out.src = "keyboard"

LEMMA CarriesOn ==
  ASSUME Followed, UNCHANGED <<acts, eaten, queue, key, event>>, sent'["keyboard"] = sent["keyboard"],
         Loaded' <=> Loaded, Loaded => out'.byte = out.byte
  PROVE  Followed'
<1>1. Acted' = Acted /\ \A p, x : Meant(p, x) => Meant(p, x)'
  BY StillMeant
<1>2. Buffered' = Buffered
  BY DEF Buffered, Loaded
<1>3. Passed' = Passed
  BY <1>2 DEF Passed
<1>4. Carried'
  <2>1. (Passed + Len(sent["keyboard"]) = Acted)'
    BY <1>1, <1>3 DEF Followed, Carried
  <2>2. (\A j \in 1 .. Len(queue) : Meant(eaten + j, queue[j]))'
    BY <1>1 DEF Followed, Carried
  <2>3. (Loaded => Meant(eaten + Len(queue) + 1, out.byte))'
    BY <1>1 DEF Followed, Carried, Loaded
  <2>4. (\A j \in 1 .. Len(sent["keyboard"]) : Meant(Passed + j, sent["keyboard"][j]))'
    BY <1>1, <1>3 DEF Followed, Carried
  <2> QED BY <2>1, <2>2, <2>3, <2>4 DEF Carried, Loaded
<1>5. Ends' /\ Taken'
  BY <1>1 DEF Followed, Ends, Taken
<1> QED BY <1>4, <1>5 DEF Followed

LEMMA EventsStand ==
  ASSUME EventsFollowKeys, Clean' => Clean, UNCHANGED <<acts, event>>
  PROVE  EventsFollowKeys'
<1>1. Since' = Since
  BY DEF Since
<1> QED BY <1>1 DEF EventsFollowKeys

\* A byte of the keyboard moves from the wire to the buffer ...
LEMMA FollowedToBuffer ==
  ASSUME Typed, Followed, ~Bits(config, Translate), Deliver, UNCHANGED <<irq, decoder, user>>
  PROVE  Followed'
<1>0. UNCHANGED <<acts, eaten, queue, key, event>>
  BY DEF irq, decoder, user
<1>1. PICK s \in Arriving :
        /\ ~out.new
        /\ out' = [src |-> s, new |-> TRUE,
                   byte |-> IF s = "keyboard" THEN Translated(Head(sent[s])) ELSE Head(sent[s])]
        /\ sent' = [sent EXCEPT ![s] = Tail(@)]
  BY DEF Deliver
<1>2. s \in Sources /\ sent[s] # << >> /\ sent \in [Sources -> Seq(Bytes)] /\ "keyboard" \in Sources
  BY DEF Arriving, Typed, WiresTyped, Sources
<1>3. CASE s # "keyboard"
  <2>1. sent'["keyboard"] = sent["keyboard"] /\ ~Loaded /\ ~Loaded'
    BY <1>1, <1>2, <1>3 DEF Loaded
  <2> QED BY <1>0, <2>1, CarriesOn
<1>4. CASE s = "keyboard"
  <2>1. PICK w \in Seq(Bytes) : w = sent["keyboard"] /\ w # << >>
    BY <1>2, <1>4
  <2>2. /\ Head(w) = w[1] /\ Tail(w) \in Seq(Bytes) /\ Len(Tail(w)) = Len(w) - 1 /\ Len(w) \in Nat /\ Len(w) >= 1
        /\ \A j \in 1 .. Len(Tail(w)) : Tail(w)[j] = w[j + 1] /\ j + 1 \in 1 .. Len(w)
    BY <2>1
  <2>3. out'.new /\ out'.src = "keyboard" /\ out'.byte = w[1] /\ sent'["keyboard"] = Tail(w)
    BY <1>1, <1>2, <1>4, <2>1, <2>2 DEF Translated
  <2>4. eaten \in Nat /\ Len(queue) \in Nat
    BY DEF Typed, HandlerTyped, DecoderTyped
  <2>5. PICK p \in Nat : p = Passed /\ p = eaten + Len(queue)
    BY <1>1, <2>4 DEF Passed, Buffered
  <2>6. Passed' = p + 1
    BY <1>0, <2>3, <2>4, <2>5 DEF Passed, Buffered
  <2>7. Acted' = Acted /\ \A q, x : Meant(q, x) => Meant(q, x)'
    BY <1>0, StillMeant
  <2>8. p + Len(w) = Acted /\ \A j \in 1 .. Len(w) : Meant(p + j, w[j])
    BY <2>1, <2>5 DEF Followed, Carried
  <2>9. (Passed + Len(sent["keyboard"]) = Acted)'
    BY <2>2, <2>3, <2>6, <2>7, <2>8
  <2>10. (\A j \in 1 .. Len(queue) : Meant(eaten + j, queue[j]))'
    BY <1>0, <2>7 DEF Followed, Carried
  <2>11. Meant(eaten + Len(queue) + 1, out.byte)'
    <3>1. Meant(p + 1, w[1])
      BY <2>2, <2>8
    <3>2. Meant(p + 1, w[1])'
      BY <2>7, <3>1
    <3>3. Meant(p + 1, out.byte)'
      BY <2>3, <3>2 DEF Meant
    <3>4. (eaten + Len(queue) + 1)' = p + 1
      BY <1>0, <2>5
    <3> QED BY <3>3, <3>4 DEF Meant
  <2>12. ASSUME NEW j \in 1 .. Len(Tail(w))
         PROVE  Meant(p + 1 + j, Tail(w)[j])'
    <3>1. Meant(p + (j + 1), w[j + 1])
      BY <2>2, <2>8
    <3>2. p + (j + 1) = p + 1 + j /\ Tail(w)[j] = w[j + 1]
      BY <2>2
    <3> QED BY <2>7, <3>1, <3>2
  <2>13. (\A j \in 1 .. Len(sent["keyboard"]) : Meant(Passed + j, sent["keyboard"][j]))'
    BY <2>3, <2>6, <2>12
  <2>14. Carried'
    BY <2>9, <2>10, <2>11, <2>13 DEF Carried
  <2>15. Ends' /\ Taken'
    BY <1>0, <2>7 DEF Followed, Ends, Taken
  <2> QED BY <2>14, <2>15 DEF Followed
<1> QED BY <1>3, <1>4

\* ... from there to the ring ...
LEMMA FollowedToRing ==
  ASSUME Typed, Followed, keyboard_handler, ~stolen', ~full'
  PROVE  Followed'
<1>0. /\ UNCHANGED <<acts, eaten, key, event>> /\ sent' = sent
      /\ out.new /\ ~out'.new /\ queue \in Seq(Bytes) /\ Len(queue) \in Nat /\ out.byte \in Bytes /\ eaten \in Nat
  BY DEF keyboard_handler, ReadData, decoder, user, Typed, HandlerTyped, DecoderTyped, WiresTyped
<1>1. out.src = "keyboard"
  BY <1>0 DEF keyboard_handler, Stolen
<1>2. queue' = Append(queue, out.byte)
  <2>1. Len(queue) # RingSize
    BY DEF keyboard_handler
  <2>2. RingSize \in Nat /\ Len(queue) <= RingSize
    BY BoundAssumption DEF Typed, HandlerTyped
  <2>3. Len(queue) < RingSize
    BY <1>0, <2>1, <2>2
  <2> QED BY <2>3 DEF keyboard_handler, Kept
<1>3. /\ Len(queue') = Len(queue) + 1 /\ queue'[Len(queue) + 1] = out.byte
      /\ \A j \in 1 .. Len(queue) : queue'[j] = queue[j]
  BY <1>0, <1>2
<1>4. Passed = eaten + Len(queue) + 1 /\ Passed' = Passed
  BY <1>0, <1>1, <1>3 DEF Passed, Buffered
<1>5. Acted' = Acted /\ \A q, x : Meant(q, x) => Meant(q, x)'
  BY <1>0, StillMeant
<1>6. (Passed + Len(sent["keyboard"]) = Acted)'
  BY <1>0, <1>4, <1>5 DEF Followed, Carried
<1>7. PICK q \in Seq(Bytes), e \in Nat, b \in Bytes :
        /\ q = Append(queue, b) /\ e = eaten /\ b = out.byte
  <2>1. Append(queue, out.byte) \in Seq(Bytes)
    BY <1>0
  <2> QED BY <1>0, <2>1, Zenon
<1>8. (\A j \in 1 .. Len(queue) : Meant(eaten + j, queue[j]))'
  <2>1. Len(q) = Len(queue) + 1 /\ q[Len(queue) + 1] = b /\ \A j \in 1 .. Len(queue) : q[j] = queue[j]
    BY <1>0, <1>7
  <2>2. ASSUME NEW j \in 1 .. Len(q)
        PROVE  Meant(e + j, q[j])
    <3>1. CASE j <= Len(queue)
      <4>1. j \in 1 .. Len(queue)
        BY <1>0, <2>1, <3>1
      <4>2. Meant(eaten + j, queue[j])
        BY <4>1 DEF Followed, Carried
      <4> QED BY <1>7, <2>1, <4>1, <4>2
    <3>2. CASE j = Len(queue) + 1
      <4>1. Meant(eaten + Len(queue) + 1, out.byte)
        BY <1>0, <1>1 DEF Followed, Carried
      <4>2. e + j = eaten + Len(queue) + 1 /\ q[j] = out.byte
        BY <1>0, <1>7, <2>1, <3>2
      <4> QED BY <4>1, <4>2
    <3> QED BY <1>0, <2>1, <3>1, <3>2
  <2>3. \A j \in 1 .. Len(q) : Meant(e + j, q[j])'
    BY <1>5, <2>2
  <2>4. queue' = q /\ eaten' = e
    BY <1>0, <1>2, <1>7
  <2> QED BY <2>3, <2>4
<1>9. (\A j \in 1 .. Len(sent["keyboard"]) : Meant(Passed + j, sent["keyboard"][j]))'
  BY <1>0, <1>4, <1>5 DEF Followed, Carried
<1>10. Carried'
  BY <1>0, <1>6, <1>8, <1>9 DEF Carried
<1>11. Ends' /\ Taken'
  BY <1>0, <1>5 DEF Followed, Ends, Taken
<1> QED BY <1>10, <1>11 DEF Followed


\* ... and a key that is hit puts its bytes after all the others.
LEMMA FollowedByKey ==
  ASSUME Typed, Followed, NEW k \in Keys, Hit(k), EventsFollowKeys, Clean' => Clean
  PROVE  Followed' /\ EventsFollowKeys'
<1>1. PICK released \in BOOLEAN : released = (k \in held)
  <2>1. (k \in held) \in BOOLEAN
    OBVIOUS
  <2> QED BY <2>1, Zenon
<1>2. PICK s : s = Sent(k, released)
  OBVIOUS
<1>3. /\ s \in Seq(Bytes) /\ Len(s) \in Nat /\ Len(s) >= 1 /\ s[Len(s)] = Code(k)
      /\ released => Len(s) >= 2 /\ s[Len(s) - 1] = RELEASED
      /\ \A q \in 1 .. Len(s) : s[q] = RELEASED => released /\ q = Len(s) - 1
      /\ \A q \in 1 .. Len(s) : s[q] = EXTENDED =>
           IsExtended(k) /\ (q = Len(s) - 1 \/ (q = Len(s) - 2 /\ released))
      /\ \A q \in 1 .. Len(s) : s[q] \notin {EXTENDED, RELEASED} => q = Len(s)
  BY <1>2, SentIs
<1>4. Code(k) \in Bytes \ {0, EXTENDED, RELEASED}
  BY KeysAre
<1>5. PICK n \in Nat : n = Len(s)
  BY <1>3
<1>6. /\ Say("keyboard", s)
      /\ acts' = Append(acts, [key |-> k, released |-> released, end |-> Acted + n])
      /\ UNCHANGED <<out, irq, decoder>>
  BY <1>1, <1>2, <1>5 DEF Hit
<1>7. acts \in Seq(Actions) /\ eaten \in Nat /\ Len(queue) \in Nat
      /\ sent["keyboard"] \in Seq(Bytes) /\ sent' = [sent EXCEPT !["keyboard"] = sent["keyboard"] \o s]
      /\ sent \in [Sources -> Seq(Bytes)] /\ "keyboard" \in Sources
  BY <1>6 DEF Typed, UserTyped, DecoderTyped, HandlerTyped, WiresTyped, Sources, Say
<1>8. Acted \in Nat /\ \A i \in DOMAIN acts : acts[i] \in Actions /\ acts[i].end \in Nat /\ acts[i].end <= Acted
  BY <1>7, ActedTyped DEF Followed, Ends
<1>9. PICK a \in Actions : a = [key |-> k, released |-> released, end |-> Acted + n]
  <2>1. Acted + n \in Nat
    BY <1>8
  <2>2. [key |-> k, released |-> released, end |-> Acted + n] \in Actions
    BY <2>1 DEF Actions
  <2> QED BY <2>2, Zenon
<1>10. a.key = k /\ a.released = released /\ a.end = Acted + n /\ n >= 1 /\ (a.released => n >= 2)
  BY <1>3, <1>5, <1>9
<1>11. acts' = Append(acts, a)
  BY <1>6, <1>9
<1>12. /\ Acted' = Acted + n
       /\ \A p \in 1 .. Acted : \A x : Meant(p, x) => Meant(p, x)'
  BY <1>7, <1>10, <1>11, MeantGrows
<1>13. PICK l \in Nat : l = Len(acts)
  BY <1>7
<1>14. /\ acts' \in Seq(Actions) /\ DOMAIN acts' = 1 .. l + 1 /\ acts'[l + 1] = a
       /\ DOMAIN acts = 1 .. l /\ \A i \in 1 .. l : acts'[i] = acts[i]
  BY <1>7, <1>11, <1>13
<1>15. UNCHANGED <<eaten, queue, key, event, out>>
  BY <1>6 DEF irq, decoder
<1>16. PICK p \in Nat, w \in Seq(Bytes), v \in Seq(Bytes) :
         p = Passed /\ w = sent["keyboard"] /\ v = w \o s
  <2>1. Passed \in Nat
    BY <1>7 DEF Passed, Buffered
  <2>2. sent["keyboard"] \o s \in Seq(Bytes)
    BY <1>3, <1>7, ConcatProperties
  <2> QED BY <1>7, <2>1, <2>2, Zenon
<1>17. PICK t \in Nat, e \in Nat : t = Len(w) /\ e = Acted /\ p + t = e
  BY <1>8, <1>16 DEF Followed, Carried
<1>18. /\ Len(v) = t + n
       /\ \A i \in 1 .. t + n : v[i] = IF i <= t THEN w[i] ELSE s[i - t]
  BY <1>3, <1>5, <1>16, <1>17, ConcatProperties
<1>19. sent'["keyboard"] = v /\ Passed' = p
  BY <1>7, <1>15, <1>16 DEF Passed, Buffered
<1>20. \A j \in 1 .. n : Meant(e + j, s[j])'
  <2> SUFFICES ASSUME NEW j \in 1 .. n
               PROVE  Meant(e + j, s[j])'
    OBVIOUS
  <2>2. \A i \in 1 .. l + 1 : i = l + 1 \/ (acts'[i].end \in Nat /\ acts'[i].end <= e)
    BY <1>8, <1>14, <1>17
  <2>3. a.end = e + n
    BY <1>10, <1>17
  <2>4. \A i \in 1 .. l + 1 : acts'[i].end = e + j => acts'[i] = a /\ j = n
    BY <1>14, <2>2, <2>3
  <2>5. \A i \in 1 .. l + 1 : acts'[i].end = e + j + 1 => acts'[i] = a /\ j = n - 1
    BY <1>14, <2>2, <2>3
  <2>6. l + 1 \in 1 .. l + 1
    OBVIOUS
  <2>7. \A i \in DOMAIN acts' : acts'[i].end = e + j => s[j] = Code(acts'[i].key)
    BY <1>3, <1>5, <1>10, <1>14, <2>4
  <2>8. \A i \in DOMAIN acts' : acts'[i].end = e + j + 1 /\ acts'[i].released => s[j] = RELEASED
    BY <1>3, <1>5, <1>10, <1>14, <2>5
  <2>9. s[j] = RELEASED => \E i \in DOMAIN acts' : acts'[i].end = e + j + 1 /\ acts'[i].released
    <3>1. s[j] = RELEASED => released /\ j = n - 1
      BY <1>3, <1>5
    <3>2. s[j] = RELEASED => a.end = e + j + 1 /\ a.released
      BY <1>10, <2>3, <3>1
    <3> QED BY <1>14, <2>6, <3>2
  <2>10. s[j] \notin {EXTENDED, RELEASED} => \E i \in DOMAIN acts' : acts'[i].end = e + j
    <3>1. s[j] \notin {EXTENDED, RELEASED} => j = n
      BY <1>3, <1>5
    <3> QED BY <1>14, <2>3, <2>6, <3>1
  <2>11. s[j] = EXTENDED => Prefixes(e + j)'
    <3>1. s[j] = EXTENDED => IsExtended(k) /\ (j = n - 1 \/ (j = n - 2 /\ released))
      BY <1>3, <1>5
    <3>2. s[j] = EXTENDED => IsExtended(a.key) /\ (a.end = e + j + 1 \/ (a.end = e + j + 2 /\ a.released))
      BY <1>10, <2>3, <3>1
    <3> QED BY <1>14, <2>6, <3>2 DEF Prefixes
  <2> QED BY <2>7, <2>8, <2>9, <2>10, <2>11 DEF Meant
<1>21. Acted' = e + n /\ \A q \in 1 .. e : \A x : Meant(q, x) => Meant(q, x)'
  BY <1>12, <1>17
<1>22. (Passed + Len(sent["keyboard"]) = Acted)'
  <2>1. p + (t + n) = e + n
    BY <1>17
  <2> QED BY <1>18, <1>19, <1>21, <2>1
<1>23. PICK c \in Nat, m \in Nat : c = eaten /\ m = Len(queue) /\ p = c + m + Buffered /\ Buffered \in {0, 1}
  BY <1>7, <1>16 DEF Passed, Buffered
<1>24. (\A j \in 1 .. Len(queue) : Meant(eaten + j, queue[j]))'
  <2>1. \A j \in 1 .. m : c + j \in 1 .. e
    BY <1>17, <1>23
  <2>2. \A j \in 1 .. m : Meant(c + j, queue[j])
    BY <1>23 DEF Followed, Carried
  <2>3. ASSUME NEW j \in 1 .. m
        PROVE  Meant(c + j, queue[j])'
    <3>1. PICK x : x = queue[j]
      OBVIOUS
    <3>2. Meant(c + j, x)'
      BY <1>21, <2>1, <2>2, <3>1
    <3> QED BY <1>15, <3>1, <3>2
  <2> QED BY <1>15, <1>23, <2>3
<1>25. (Loaded => Meant(eaten + Len(queue) + 1, out.byte))'
  <2> SUFFICES ASSUME Loaded
               PROVE  Meant(eaten + Len(queue) + 1, out.byte)'
    BY <1>15 DEF Loaded
  <2>1. c + m + 1 \in 1 .. e
    BY <1>17, <1>23 DEF Buffered, Loaded
  <2>2. PICK x : x = out.byte
    OBVIOUS
  <2>3. Meant(c + m + 1, x)
    BY <1>23, <2>2 DEF Followed, Carried, Loaded
  <2>4. Meant(c + m + 1, x)'
    BY <1>21, <2>1, <2>3
  <2> QED BY <1>15, <1>23, <2>2, <2>4
<1>26. \A j \in 1 .. t + n : Meant(p + j, v[j])'
  <2> SUFFICES ASSUME NEW j \in 1 .. t + n
               PROVE  Meant(p + j, v[j])'
    OBVIOUS
  <2>1. CASE j <= t
    <3>1. j \in 1 .. t /\ p + j \in 1 .. e /\ v[j] = w[j]
      BY <1>17, <1>18, <2>1
    <3>2. Meant(p + j, w[j])
      BY <1>16, <1>17, <3>1 DEF Followed, Carried
    <3> QED BY <1>21, <3>1, <3>2
  <2>2. CASE ~(j <= t)
    <3>1. PICK q \in 1 .. n : j = t + q
      BY <2>2
    <3>2. p + j = e + q
      BY <1>17, <3>1
    <3>3. v[j] = s[q]
      <4>1. j - t = q
        BY <3>1
      <4> QED BY <1>18, <2>2, <4>1
    <3> QED BY <1>20, <3>2, <3>3
  <2> QED BY <2>1, <2>2
<1>27. (\A j \in 1 .. Len(sent["keyboard"]) : Meant(Passed + j, sent["keyboard"][j]))'
  BY <1>18, <1>19, <1>26
<1>28. Carried'
  BY <1>22, <1>24, <1>25, <1>27 DEF Carried, Loaded
<1>29. /\ \A i \in 1 .. l : acts[i].end \in Nat /\ acts[i].end <= e /\ acts'[i] = acts[i]
       /\ a.end = e + n /\ n >= 1 /\ \A i \in 1 .. l + 1 : i = l + 1 \/ i \in 1 .. l
  <2>1. \A i \in 1 .. l + 1 : i = l + 1 \/ i \in 1 .. l
    OBVIOUS
  <2>2. \A i \in 1 .. l : acts[i].end \in Nat /\ acts[i].end <= e /\ acts'[i] = acts[i]
    BY <1>8, <1>14, <1>17
  <2> QED BY <1>10, <1>17, <2>1, <2>2
<1>30. Ends'
  <2>1. \A i \in 1 .. l + 1 : acts'[i].end <= e + n
    BY <1>14, <1>29
  <2>2. \A i, j \in 1 .. l : acts[i].end = acts[j].end => i = j
    BY <1>14 DEF Followed, Ends
  <2>3. ASSUME NEW i \in 1 .. l + 1, NEW j \in 1 .. l + 1, acts'[i].end = acts'[j].end
        PROVE  i = j
    <3>1. CASE i = l + 1 /\ j = l + 1
      BY <3>1
    <3>2. CASE i = l + 1 /\ j \in 1 .. l
      BY <1>14, <1>29, <2>3, <3>2
    <3>3. CASE i \in 1 .. l /\ j = l + 1
      BY <1>14, <1>29, <2>3, <3>3
    <3>4. CASE i \in 1 .. l /\ j \in 1 .. l
      BY <1>29, <2>2, <2>3, <3>4
    <3> QED BY <1>29, <3>1, <3>2, <3>3, <3>4
  <2> QED BY <1>14, <1>21, <2>1, <2>3 DEF Ends
<1>31. PICK b \in Nat : b = event.at /\ b <= c /\ c <= e
  BY <1>17, <1>23 DEF Followed, Taken, Typed, DecoderTyped
<1>32. Taken'
  <2>1. \A i \in 1 .. l + 1 : acts'[i].end \in b + 1 .. c => IsModifier(acts'[i].key)
    <3>1. \A i \in 1 .. l : acts[i].end \in b + 1 .. c => IsModifier(acts[i].key)
      BY <1>14, <1>23, <1>31 DEF Followed, Taken
    <3>2. a.end \notin b + 1 .. c
      BY <1>29, <1>31
    <3> QED BY <1>14, <1>29, <3>1, <3>2
  <2>2. a.released => a.end \notin b + 1 .. c + 1
    BY <1>10, <1>29, <1>31
  <2>3. key.released <=> \E i \in 1 .. l : acts[i].released /\ acts[i].end \in b + 1 .. c + 1
    BY <1>14, <1>23, <1>31 DEF Followed, Taken
  <2>4. key.released <=> \E i \in 1 .. l + 1 : acts'[i].released /\ acts'[i].end \in b + 1 .. c + 1
    <3>1. \A i \in 1 .. l : i \in 1 .. l + 1
      OBVIOUS
    <3> QED BY <1>14, <1>29, <2>2, <2>3, <3>1
  <2>5. event'.at = b /\ eaten' = c /\ key' = key
    BY <1>15, <1>23, <1>31
  <2>6. key.extended => \E i \in 1 .. l + 1 :
          /\ IsExtended(acts'[i].key) /\ acts'[i].end > b
          /\ acts'[i].end <= c + 1 \/ (acts'[i].end = c + 2 /\ acts'[i].released)
    <3>1. key.extended => \E i \in 1 .. l :
            /\ IsExtended(acts[i].key) /\ acts[i].end > b
            /\ acts[i].end <= c + 1 \/ (acts[i].end = c + 2 /\ acts[i].released)
      BY <1>14, <1>23, <1>31 DEF Followed, Taken
    <3>2. \A i \in 1 .. l : i \in 1 .. l + 1 /\ acts'[i] = acts[i]
      BY <1>14
    <3> QED BY <3>1, <3>2
  <2> QED BY <1>14, <1>31, <2>1, <2>4, <2>5, <2>6 DEF Taken
<1>33. Since' = Since
  <2>1. a.end \notin event.after + 1 .. event.at
    BY <1>29, <1>31
  <2>2. event' = event
    BY <1>15
  <2> QED BY <1>14, <1>29, <2>1, <2>2 DEF Since
<1>34. EventsFollowKeys'
  <2>1. \A i \in Since : acts'[i] = acts[i]
    BY <1>14 DEF Since
  <2> QED BY <1>15, <1>33, <2>1 DEF EventsFollowKeys
<1> QED BY <1>28, <1>30, <1>32, <1>34 DEF Followed


\* What PS2_get_char makes of a byte: it waits for the code, or returns an event.
LEMMA DecodedIs ==
  ASSUME DecoderTyped, NEW c \in Bytes, NEW k, k = Decoded(c)
  PROVE  /\ c = EXTENDED => k.scancode = 0 /\ k.released = key.released
         /\ c = RELEASED => k.scancode = 0 /\ k.released = TRUE /\ k.extended = key.extended
         /\ c \notin {EXTENDED, RELEASED} =>
              /\ k.released = key.released /\ k.extended = key.extended
              /\ k.scancode = IF Modifier(c, key.extended) = "none" THEN c ELSE 0
<1>1. key \in [scancode : {0}, released : BOOLEAN, extended : BOOLEAN]
  BY DEF DecoderTyped
<1>2. c = EXTENDED => k = [key EXCEPT !.extended = TRUE]
  BY DEF Decoded, EXTENDED, RELEASED
<1>3. c = RELEASED => k = [key EXCEPT !.released = TRUE]
  BY DEF Decoded, EXTENDED, RELEASED
<1>4. c \notin {EXTENDED, RELEASED} => k = IF Modifier(c, key.extended) = "none" THEN [key EXCEPT !.scancode = c] ELSE key
  BY DEF Decoded
<1>5. key.scancode = 0
  BY <1>1
<1>6. c = EXTENDED => k.scancode = 0 /\ k.released = key.released
  BY <1>1, <1>2, <1>5
<1>7. c = RELEASED => k.scancode = 0 /\ k.released = TRUE /\ k.extended = key.extended
  BY <1>1, <1>3, <1>5
<1>8. CASE Modifier(c, key.extended) = "none"
  <2>1. c \notin {EXTENDED, RELEASED} => k.scancode = c /\ k.released = key.released /\ k.extended = key.extended
    BY <1>1, <1>4, <1>8
  <2> QED BY <1>6, <1>7, <1>8, <2>1
<1>9. CASE Modifier(c, key.extended) # "none"
  <2>1. c \notin {EXTENDED, RELEASED} => k.scancode = 0 /\ k.released = key.released /\ k.extended = key.extended
    BY <1>4, <1>5, <1>9
  <2> QED BY <1>6, <1>7, <1>9, <2>1
<1> QED BY <1>8, <1>9

\* Only a modifier's code is taken for one's.
LEMMA ModifierIs ==
  ASSUME NEW k \in Keys, NEW x \in BOOLEAN, Modifier(Code(k), x) # "none"
  PROVE  IsModifier(k)
<1>1. k \in {"a", "one", "up", "lshift", "rctrl"}
  BY KeyAssumption
<1>2. CASE k = "a"
  BY <1>2 DEF Code, Modifier
<1>3. CASE k = "one"
  BY <1>3 DEF Code, Modifier
<1>4. CASE k = "up"
  BY <1>4 DEF Code, Modifier
<1>5. CASE k \in {"lshift", "rctrl"}
  BY <1>5 DEF IsModifier
<1> QED BY <1>1, <1>2, <1>3, <1>4, <1>5

\* The code of a modifier is not taken for one's only if it has no prefix, after one.
LEMMA ModifierMissed ==
  ASSUME NEW k \in Keys, NEW x \in BOOLEAN, IsModifier(k), Modifier(Code(k), x) = "none"
  PROVE  x /\ ~IsExtended(k)
<1>1. k = "lshift" \/ k = "rctrl"
  BY DEF IsModifier
<1>2. CASE k = "lshift"
  BY <1>2 DEF Code, Modifier, IsExtended
<1>3. CASE k = "rctrl"
  BY <1>3 DEF Code, Modifier, IsExtended
<1> QED BY <1>1, <1>2, <1>3

LEMMA FollowedByChar ==
  ASSUME Typed, Followed, PS2_get_char, EventsFollowKeys, Clean' => Clean
  PROVE  Followed' /\ EventsFollowKeys'
<1>1. /\ queue \in Seq(Bytes) /\ queue # << >> /\ eaten \in Nat /\ event.at \in Nat /\ acts \in Seq(Actions)
      /\ key.released \in BOOLEAN /\ key.extended \in BOOLEAN /\ DecoderTyped
  BY DEF PS2_get_char, Typed, HandlerTyped, DecoderTyped, UserTyped
<1>2. PICK c \in Bytes : c = Head(queue) /\ c = queue[1]
  BY <1>1
<1>3. PICK k : k = Decoded(c)
  OBVIOUS
<1>4. PICK m : m = IF c \in {EXTENDED, RELEASED} THEN mod ELSE mod \cup ({Modifier(c, key.extended)} \ {"none"})
  OBVIOUS
<1>5. /\ queue' = Tail(queue) /\ eaten' = eaten + 1
      /\ IF k.scancode = 0 THEN key' = k /\ UNCHANGED event ELSE key' = NoKey /\ Return(k, m)
      /\ UNCHANGED <<out, sent, acts>>
  BY <1>2, <1>3, <1>4 DEF PS2_get_char, ps2, wires, user
<1>6. PICK e \in Nat, b \in Nat : e = eaten /\ b = event.at /\ b <= e
  BY <1>1 DEF Followed, Taken
<1>7. Acted' = Acted /\ \A p, x : Meant(p, x) => Meant(p, x)'
  BY <1>5, StillMeant
<1>8. PICK n \in Nat : n = Len(queue) /\ n >= 1
  BY <1>1
<1>9. PICK q \in Seq(Bytes) : q = Tail(queue)
  <2>1. Tail(queue) \in Seq(Bytes)
    BY <1>1
  <2> QED BY <2>1, Zenon
<1>10. Len(q) = n - 1 /\ \A j \in 1 .. n - 1 : q[j] = queue[j + 1] /\ j + 1 \in 1 .. n
  BY <1>1, <1>8, <1>9
<1>11. Buffered' = Buffered /\ Buffered \in {0, 1}
  BY <1>5 DEF Buffered
<1>12. Passed' = Passed
  <2>1. Passed = e + n + Buffered
    BY <1>6, <1>8 DEF Passed
  <2>2. Passed' = (e + 1) + (n - 1) + Buffered
    BY <1>5, <1>6, <1>9, <1>10, <1>11 DEF Passed
  <2> QED BY <1>11, <2>1, <2>2
<1>13. \A j \in 1 .. n : Meant(e + j, queue[j])
  BY <1>6, <1>8 DEF Followed, Carried
<1>14. Carried'
  <2>1. (Passed + Len(sent["keyboard"]) = Acted)'
    BY <1>5, <1>7, <1>12 DEF Followed, Carried
  <2>2. ASSUME NEW j \in 1 .. n - 1
        PROVE  Meant(e + 1 + j, q[j])'
    <3>1. Meant(e + (j + 1), queue[j + 1])
      BY <1>10, <1>13
    <3>2. e + (j + 1) = e + 1 + j /\ q[j] = queue[j + 1]
      BY <1>10
    <3> QED BY <1>7, <3>1, <3>2
  <2>3. queue' = q /\ eaten' = e + 1
    BY <1>5, <1>6, <1>9
  <2>4. (\A j \in 1 .. Len(queue) : Meant(eaten + j, queue[j]))'
    BY <1>10, <2>2, <2>3
  <2>5. (Loaded => Meant(eaten + Len(queue) + 1, out.byte))'
    <3> SUFFICES ASSUME Loaded
                 PROVE  Meant(eaten + Len(queue) + 1, out.byte)'
      BY <1>5 DEF Loaded
    <3>1. PICK x : x = out.byte
      OBVIOUS
    <3>2. Meant(e + n + 1, x)
      BY <1>6, <1>8, <3>1 DEF Followed, Carried, Loaded
    <3>3. Meant(e + n + 1, x)'
      BY <1>7, <3>2
    <3>4. eaten' + Len(queue') + 1 = e + n + 1
      BY <1>10, <2>3
    <3> QED BY <1>5, <3>1, <3>3, <3>4
  <2>6. (\A j \in 1 .. Len(sent["keyboard"]) : Meant(Passed + j, sent["keyboard"][j]))'
    BY <1>5, <1>7, <1>12 DEF Followed, Carried
  <2> QED BY <2>1, <2>4, <2>5, <2>6 DEF Carried, Loaded
<1>15. Ends'
  BY <1>5, <1>7 DEF Followed, Ends
<1>16. Meant(e + 1, c)
  <2>1. 1 \in 1 .. n
    BY <1>8
  <2> QED BY <1>2, <1>13, <2>1
<1>17. \A i \in DOMAIN acts : acts[i].end \in Nat /\ acts[i].key \in Keys /\ acts[i].released \in BOOLEAN
                              /\ Code(acts[i].key) \notin {0, EXTENDED, RELEASED}
  <2>1. TRUE \in BOOLEAN
    OBVIOUS
  <2> QED BY <1>1, <2>1, ActedTyped, KeysAre
<1>18. /\ \A i \in DOMAIN acts : acts[i].end \in b + 1 .. e => IsModifier(acts[i].key)
       /\ key.released <=> \E i \in DOMAIN acts : acts[i].released /\ acts[i].end \in b + 1 .. e + 1
       /\ key.extended => \E i \in DOMAIN acts :
            /\ IsExtended(acts[i].key) /\ acts[i].end > b
            /\ acts[i].end <= e + 1 \/ (acts[i].end = e + 2 /\ acts[i].released)
  BY <1>6 DEF Followed, Taken
<1>19. \A x \in Nat : x \in b + 1 .. e + 1 <=> x \in b + 1 .. e \/ x = e + 1
  BY <1>6
<1>20. \A x \in Nat : x \in b + 1 .. e + 1 + 1 <=> x \in b + 1 .. e + 1 \/ x = e + 1 + 1
  BY <1>6
<1>21. eaten' = e + 1 /\ acts' = acts
  BY <1>5, <1>6
<1> DEFINE Behind == \E i \in DOMAIN acts :
             /\ IsExtended(acts[i].key) /\ acts[i].end > b
             /\ acts[i].end <= e + 1 + 1 \/ (acts[i].end = e + 1 + 2 /\ acts[i].released)
<1>25. key.extended => Behind
  <2>1. \A x \in Nat : (x <= e + 1 => x <= e + 1 + 1) /\ (x = e + 2 => x <= e + 1 + 1)
    OBVIOUS
  <2> QED BY <1>17, <1>18, <2>1
<1> HIDE DEF Behind
<1>22. CASE c = EXTENDED
  <2>1. k.scancode = 0 /\ k.released = key.released
    BY <1>1, <1>3, <1>22, DecodedIs
  <2>2. event' = event /\ key'.released = key.released
    BY <1>5, <2>1
  <2>3. EXTENDED # RELEASED
    BY DEF EXTENDED, RELEASED
  <2>4. \A i \in DOMAIN acts : acts[i].end # e + 1 /\ ~(acts[i].end = e + 1 + 1 /\ acts[i].released)
    BY <1>16, <1>17, <1>22, <2>3 DEF Meant
  <2>5. \A i \in DOMAIN acts : acts[i].end \in b + 1 .. e + 1 => IsModifier(acts[i].key)
    BY <1>17, <1>18, <1>19, <2>4
  <2>6. key.released <=> \E i \in DOMAIN acts : acts[i].released /\ acts[i].end \in b + 1 .. e + 1 + 1
    BY <1>17, <1>18, <1>20, <2>4
  <2>8. Behind
    <3>1. PICK i \in DOMAIN acts :
            IsExtended(acts[i].key) /\ (acts[i].end = e + 1 + 1 \/ (acts[i].end = e + 1 + 2 /\ acts[i].released))
      BY <1>16, <1>22 DEF Meant, Prefixes
    <3>2. acts[i].end > b
      BY <1>6, <3>1
    <3> QED BY <3>1, <3>2 DEF Behind
  <2>7. Taken'
    BY <1>6, <1>21, <2>2, <2>5, <2>6, <2>8 DEF Taken, Behind
  <2> QED BY <1>14, <1>15, <1>21, <2>2, <2>7, EventsStand DEF Followed
<1>23. CASE c = RELEASED
  <2>1. k.scancode = 0 /\ k.released = TRUE /\ k.extended = key.extended
    BY <1>1, <1>3, <1>23, DecodedIs
  <2>2. event' = event /\ key'.released = TRUE /\ key'.extended = key.extended
    BY <1>5, <2>1
  <2>3. \A i \in DOMAIN acts : acts[i].end # e + 1
    BY <1>16, <1>17, <1>23 DEF Meant
  <2>4. \E i \in DOMAIN acts : acts[i].end = e + 1 + 1 /\ acts[i].released
    BY <1>16, <1>23 DEF Meant
  <2>5. \A i \in DOMAIN acts : acts[i].end \in b + 1 .. e + 1 => IsModifier(acts[i].key)
    BY <1>17, <1>18, <1>19, <2>3
  <2>6. \E i \in DOMAIN acts : acts[i].released /\ acts[i].end \in b + 1 .. e + 1 + 1
    BY <1>17, <1>20, <2>4
  <2>7. Taken'
    BY <1>6, <1>21, <1>25, <2>2, <2>5, <2>6 DEF Taken, Behind
  <2> QED BY <1>14, <1>15, <1>21, <2>2, <2>7, EventsStand DEF Followed
<1>24. CASE c \notin {EXTENDED, RELEASED}
  <2>1. k.released = key.released /\ k.extended = key.extended /\ k.scancode = IF Modifier(c, key.extended) = "none" THEN c ELSE 0
    BY <1>1, <1>3, <1>24, DecodedIs
  <2>2. PICK i \in DOMAIN acts : acts[i].end = e + 1 /\ c = Code(acts[i].key)
    BY <1>16, <1>24 DEF Meant
  <2>3. \A j \in DOMAIN acts : acts[j].end = e + 1 => j = i
    BY <2>2 DEF Followed, Ends
  <2>4. \A j \in DOMAIN acts : ~(acts[j].end = e + 1 + 1 /\ acts[j].released)
    BY <1>16, <1>24 DEF Meant
  <2>5. CASE Modifier(c, key.extended) # "none"
    <3>1. event' = event /\ key'.released = key.released /\ key'.extended = key.extended
      BY <1>5, <2>1, <2>5
    <3>2. IsModifier(acts[i].key)
      BY <1>1, <1>17, <2>2, <2>5, ModifierIs
    <3>3. \A j \in DOMAIN acts : acts[j].end \in b + 1 .. e + 1 => IsModifier(acts[j].key)
      BY <1>17, <1>18, <1>19, <2>3, <3>2
    <3>4. key.released <=> \E j \in DOMAIN acts : acts[j].released /\ acts[j].end \in b + 1 .. e + 1 + 1
      BY <1>17, <1>18, <1>20, <2>4
    <3>5. Taken'
      BY <1>6, <1>21, <1>25, <3>1, <3>3, <3>4 DEF Taken, Behind
    <3> QED BY <1>14, <1>15, <1>21, <3>1, <3>5, EventsStand DEF Followed
  <2>6. CASE Modifier(c, key.extended) = "none"
    <3>1. k.scancode = c /\ c # 0
      BY <1>17, <2>1, <2>2, <2>6
    <3>2. key' = NoKey /\ Return(k, m)
      BY <1>5, <3>1
    <3>3. event'.at = e + 1 /\ event'.after = b /\ event'.scancode = c /\ event'.released = key.released
      BY <1>6, <2>1, <3>1, <3>2 DEF Return
    <3>4. key'.released = FALSE /\ key'.extended = FALSE
      BY <3>2 DEF NoKey
    <3>5. \A x : x \notin e + 1 + 1 .. e + 1
      OBVIOUS
    <3>6. \A x \in Nat : x \in e + 1 + 1 .. e + 1 + 1 => x = e + 1 + 1
      OBVIOUS
    <3>7. Taken'
      BY <1>17, <1>21, <2>4, <3>3, <3>4, <3>5, <3>6 DEF Taken
    <3>8. Since' = {j \in DOMAIN acts : acts[j].end \in b + 1 .. e + 1}
      BY <1>21, <3>3 DEF Since
    <3>9. i \in Since'
      BY <1>6, <2>2, <3>8
    <3>10. \A j \in Since' \ {i} : IsModifier(acts[j].key)
      BY <1>17, <1>18, <1>19, <2>3, <3>8
    <3>11. key.released <=> \E j \in Since' : acts[j].released
      BY <1>18, <3>8
    <3>12. ASSUME IsModifier(acts[i].key)
           PROVE  ~IsExtended(acts[i].key) /\ \E j \in Since' \ {i} : IsExtended(acts[j].key)
      <4>1. key.extended /\ ~IsExtended(acts[i].key)
        BY <1>1, <1>17, <2>2, <2>6, <3>12, ModifierMissed
      <4>2. PICK j \in DOMAIN acts :
              /\ IsExtended(acts[j].key) /\ acts[j].end > b
              /\ acts[j].end <= e + 1 \/ (acts[j].end = e + 2 /\ acts[j].released)
        BY <1>18, <4>1
      <4>3. acts[j].end \in b + 1 .. e + 1
        BY <1>6, <1>17, <2>4, <4>2
      <4>4. j \in Since' \ {i}
        BY <3>8, <4>1, <4>2, <4>3
      <4> QED BY <4>1, <4>2, <4>4
    <3>13. EventsFollowKeys'
      BY <1>21, <2>2, <3>3, <3>9, <3>10, <3>11, <3>12 DEF EventsFollowKeys
    <3> QED BY <1>14, <1>15, <3>7, <3>13 DEF Followed
  <2> QED BY <2>5, <2>6
<1> QED BY <1>22, <1>23, <1>24


KeyboardInv == DriverInv /\ Decoding /\ EventsFollowKeys

LEMMA CleanOnly ==
  ASSUME Typed, [Next]_vars
  PROVE  /\ Clean' => Clean
         /\ pc' = "up" => pc = "up" \/ (pc = "init" /\ InitStep)
<1>0. late \in BOOLEAN /\ early \in BOOLEAN /\ stolen \in BOOLEAN /\ full \in BOOLEAN
  BY DEF Typed, HistoryTyped, HandlerTyped
<1>1. CASE InitStep
  BY <1>1, InitOnly DEF InitStep, irq, Clean
<1>2. CASE DeliverStep
  BY <1>2 DEF DeliverStep, Deliver, irq, history, driver, Clean
<1>3. CASE \E src \in {"keyboard", "mouse"} : Enter(src)
  BY <1>3 DEF Enter, history, driver, Clean
<1>4. CASE keyboard_handler
  BY <1>0, <1>4 DEF keyboard_handler, Stolen, history, driver, Clean
<1>5. CASE keyboard_handler_times_out
  BY <1>5 DEF keyboard_handler_times_out, KERNEL_PANIC, history, irq, Clean
<1>6. CASE mouse_handler
  BY <1>0, <1>6 DEF mouse_handler, Stolen, history, driver, Clean
<1>7. CASE PS2_get_char
  BY <1>7 DEF PS2_get_char, ps2, history, driver, Clean
<1>8. CASE \E k \in Keys : Hit(k)
  BY <1>0, <1>8 DEF Hit, driver, irq, Clean
<1>9. CASE Move
  BY <1>9 DEF Move, driver, history, irq, Clean
<1>10. CASE Stop \/ UNCHANGED vars
  BY <1>10 DEF Stop, vars, ps2, driver, history, irq, Clean
<1> QED BY <1>1, <1>2, <1>3, <1>4, <1>5, <1>6, <1>7, <1>8, <1>9, <1>10 DEF Next, Handle

LEMMA OnlyTwo ==
  ASSUME [Next]_vars
  PROVE  UNCHANGED <<acts, event>> \/ PS2_get_char \/ \E k \in Keys : Hit(k)
BY DEF Next, InitStep, DeliverStep, Handle, Enter, keyboard_handler, keyboard_handler_times_out, mouse_handler,
       Move, Stop, vars, decoder, user

\* PS2_init ends with nothing on the wires and no key hit.
LEMMA NothingYet ==
  ASSUME DriverInv, DriverInv', InitStep, pc' = "up", Clean'
  PROVE  Followed'
<1>1. pc = "init" /\ early' = early /\ UNCHANGED <<irq, decoder, user>>
  BY InitOnly DEF InitStep
<1>2. acts' = << >> /\ moves' = 0 /\ queue' = << >> /\ eaten' = 0 /\ event'.at = 0 /\ key' = NoKey
  BY <1>1 DEF DriverInv, Untouched, Clean, irq, decoder, user
<1>3. Quiet'
  BY <1>2 DEF DriverInv, Booted, Undisturbed, Clean, Up
<1>4. ~out'.new /\ sent'["keyboard"] = << >>
  BY <1>3 DEF Quiet, Sources
<1>5. Passed' = 0 /\ Acted' = 0
  BY <1>2, <1>4 DEF Passed, Buffered, Acted
<1>6. Carried'
  BY <1>2, <1>4, <1>5 DEF Carried
<1>7. Ends' /\ Taken'
  BY <1>2 DEF Ends, Taken, NoKey
<1> QED BY <1>6, <1>7 DEF Followed

LEMMA KeyboardInvStep == KeyboardInv /\ [Next]_vars => KeyboardInv'
<1> SUFFICES ASSUME KeyboardInv, [Next]_vars
             PROVE  KeyboardInv'
  OBVIOUS
<1>1. DriverInv' /\ DriverInv
  BY DriverStep DEF KeyboardInv
<1>2. Typed /\ EventsFollowKeys
  BY DEF KeyboardInv, DriverInv
<1>3. Clean' => Clean
  BY <1>2, CleanOnly
<1>4. pc' = "up" => pc = "up" \/ (pc = "init" /\ InitStep)
  BY <1>2, CleanOnly
<1>5. pc = "up" /\ Clean => Followed /\ ~Bits(config, Translate)
  <2> SUFFICES ASSUME pc = "up", Clean
               PROVE  Followed /\ ~Bits(config, Translate)
    OBVIOUS
  <2>1. Followed
    BY DEF KeyboardInv, Decoding, Followed
  <2>2. config = Final(machine)
    BY <1>1 DEF DriverInv, Booted, Undisturbed, Clean, Up
  <2>3. config = 3 \/ config = 33
    BY <2>2 DEF Final
  <2> QED BY <2>1, <2>3 DEF Bits, Translate
<1>6. UNCHANGED <<acts, event>> => EventsFollowKeys'
  BY <1>2, <1>3, EventsStand
<1>7. ASSUME pc = "init", InitStep, pc' = "up", Clean'
      PROVE  Followed'
  BY <1>1, <1>7, NothingYet
<1>8. UNCHANGED <<acts, event>> \/ PS2_get_char \/ \E k \in Keys : Hit(k)
  BY OnlyTwo
<1>9. CASE Clean' /\ pc' = "up"
  <2>1. CASE pc = "init" /\ InitStep
    <3>1. Followed'
      BY <1>7, <1>9, <2>1
    <3>2. UNCHANGED <<acts, event>>
      BY <2>1 DEF InitStep, decoder, user
    <3> QED BY <1>1, <1>6, <3>1, <3>2 DEF KeyboardInv, Decoding, Followed
  <2>2. CASE pc = "up"
    <3> SUFFICES Followed' /\ EventsFollowKeys'
      BY <1>1 DEF KeyboardInv, Decoding, Followed
    <3>1. Clean /\ Followed /\ ~Bits(config, Translate)
      BY <1>3, <1>5, <1>9, <2>2
    <3>2. ~stolen' /\ ~full'
      BY <1>9 DEF Clean
    <3>3. CASE InitStep
      BY <2>2, <3>3, InitOnly DEF InitStep
    <3>4. CASE DeliverStep
      <4>1. UNCHANGED <<acts, event>>
        BY <3>4 DEF DeliverStep, decoder, user
      <4>2. Followed'
        BY <1>2, <3>1, <3>4, FollowedToBuffer DEF DeliverStep
      <4> QED BY <1>6, <4>1, <4>2
    <3>5. CASE \E src \in {"keyboard", "mouse"} : Enter(src)
      <4>1. UNCHANGED <<acts, eaten, queue, key, event, out, sent>>
        BY <3>5 DEF Enter, decoder, user
      <4>2. Followed'
        BY <3>1, <4>1, CarriesOn DEF Loaded
      <4> QED BY <1>6, <4>1, <4>2
    <3>6. CASE keyboard_handler
      <4>1. UNCHANGED <<acts, event>>
        BY <3>6 DEF keyboard_handler, decoder, user
      <4>2. Followed'
        BY <1>2, <3>1, <3>2, <3>6, FollowedToRing
      <4> QED BY <1>6, <4>1, <4>2
    <3>7. CASE keyboard_handler_times_out
      BY <1>9, <3>7 DEF keyboard_handler_times_out, KERNEL_PANIC
    <3>8. CASE mouse_handler
      <4>1. UNCHANGED <<acts, eaten, queue, key, event, sent>>
        BY <3>8 DEF mouse_handler, ReadData, decoder, user
      <4>2. ~Loaded /\ ~Loaded'
        BY <1>2, <3>2, <3>8 DEF mouse_handler, Stolen, ReadData, Loaded, Typed, WiresTyped
      <4>3. Followed'
        BY <3>1, <4>1, <4>2, CarriesOn
      <4> QED BY <1>6, <4>1, <4>3
    <3>9. CASE PS2_get_char
      BY <1>2, <1>3, <3>1, <3>9, FollowedByChar
    <3>10. CASE \E k \in Keys : Hit(k)
      BY <1>2, <1>3, <3>1, <3>10, FollowedByKey
    <3>11. CASE Move
      <4>1. UNCHANGED <<acts, eaten, queue, key, event, out>>
        BY <3>11 DEF Move, irq, decoder
      <4>2. sent'["keyboard"] = sent["keyboard"]
        BY <1>2, <3>11 DEF Move, Say, Typed, WiresTyped, Sources
      <4>3. Followed'
        BY <3>1, <4>1, <4>2, CarriesOn DEF Loaded
      <4> QED BY <1>6, <4>1, <4>3
    <3>12. CASE Stop \/ UNCHANGED vars
      <4>1. UNCHANGED <<acts, eaten, queue, key, event, out, sent>>
        BY <3>12 DEF Stop, vars, ps2, wires, irq, decoder, user
      <4>2. Followed'
        BY <3>1, <4>1, CarriesOn DEF Loaded
      <4> QED BY <1>6, <4>1, <4>2
    <3> QED
      BY <3>3, <3>4, <3>5, <3>6, <3>7, <3>8, <3>9, <3>10, <3>11, <3>12 DEF Next, Handle
  <2> QED BY <1>4, <1>9, <2>1, <2>2
<1>10. CASE ~Clean'
  BY <1>1, <1>10 DEF KeyboardInv, Decoding, EventsFollowKeys
<1>11. CASE Clean' /\ pc' # "up"
  <2>1. ~PS2_get_char
    BY <1>11 DEF PS2_get_char, ps2, driver
  <2>2. ASSUME NEW k \in Keys, Hit(k)
        PROVE  FALSE
    <3>1. pc' = pc /\ pc # "panic" /\ early' = (early \/ pc = "init")
      BY <2>2 DEF Hit, driver
    <3>2. pc \in {"init", "up", "panic"}
      BY <1>2 DEF Typed, DriverTyped
    <3> QED BY <1>11, <3>1, <3>2 DEF Clean
  <2>3. EventsFollowKeys'
    BY <1>6, <1>8, <2>1, <2>2
  <2> QED BY <1>1, <1>11, <2>3 DEF KeyboardInv, Decoding
<1> QED BY <1>9, <1>10, <1>11

(***************************************************************************)
(* A key event of PS2_get_char stands for the action its last byte ends,   *)
(* and none but modifiers' come between it and the last event.  It is one  *)
(* of a modifier only if that has no prefix and one that has was used      *)
(* before it; it says "released" if the key was, and only if the key or    *)
(* one of those modifiers was.  No byte was dropped, stolen or misled.     *)
(***************************************************************************)
THEOREM KeyboardEvents == Spec => []EventsFollowKeys
<1>1. Init => KeyboardInv
  <2>1. Init => EventsFollowKeys /\ Decoding
    BY DEF Init, DriverInit, EventsFollowKeys, Decoding
  <2> QED BY <2>1, DriverStarts DEF KeyboardInv
<1>2. KeyboardInv => EventsFollowKeys
  BY DEF KeyboardInv
<1> QED BY <1>1, <1>2, KeyboardInvStep, PTL DEF Spec

=============================================================================
