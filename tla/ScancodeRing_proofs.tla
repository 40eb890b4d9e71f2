------------------------ MODULE ScancodeRing_proofs ------------------------
(* Proofs about the keyboard ring of drivers/ps2.c for every ring size the  *)
(* _Static_assert allows and every set of scancodes.                        *)
EXTENDS ScancodeRing, SequenceTheorems, TLAPS

(* The index step of push and pop: the modulo only ever wraps Size to 0. *)
LEMMA FollowingCases ==
    ASSUME NEW i \in Slots
    PROVE  /\ Following(i) = IF i = Size - 1 THEN 0 ELSE i + 1
           /\ Following(i) \in Slots
BY SizeAssumption DEF Following, Slots

(* Two slots with the same successor are the same slot. *)
LEMMA FollowingInjective ==
    ASSUME NEW i \in Slots, NEW j \in Slots, Following(i) = Following(j)
    PROVE  i = j
BY FollowingCases, SizeAssumption DEF Slots

(* The strengthening: what the consumer holds between its steps agrees with *)
(* the ring.                                                                *)
IInv ==
    /\ TypeOK
    /\ TakeFindsCode
    /\ pc = "store" => loaded = buf[tail]
    /\ pc = "late" => tail = Following(slot)

LEMMA InitInv == Init => IInv
BY SizeAssumption DEF Init, IInv, TypeOK, TakeFindsCode, Slots, Bytes

(* One step of the handler or of the consumer preserves the strengthening. *)
LEMMA NextInv == IInv /\ [Next]_vars => IInv'
<1> SUFFICES ASSUME IInv, [Next]_vars PROVE IInv'
  OBVIOUS
<1> USE DEF IInv, TypeOK, TakeFindsCode
<1>1. ASSUME NEW c \in Codes, KeyByte(c) PROVE IInv'
  BY <1>1 DEF KeyByte, ring, consumer, Bytes
<1>2. CASE KeyboardIRQ
  <2>1. CASE Full
    BY <1>2, <2>1 DEF KeyboardIRQ, ring, consumer, Bytes
  <2>2. CASE ~Full
    <3>1. /\ port' = NoCode /\ buf' = [buf EXCEPT ![head] = port]
          /\ head' = Following(head) /\ tail' = tail
          /\ pc' = pc /\ loaded' = loaded /\ slot' = slot /\ ret' = ret
      BY <1>2, <2>2 DEF KeyboardIRQ, consumer
    <3>2. TypeOK'
      BY <3>1, FollowingCases DEF Bytes
    <3>3. TakeFindsCode'
      BY <3>1, <2>2 DEF Full
    <3>4. (pc = "store" => loaded = buf[tail])'
      BY <3>1
    <3> QED
      BY <3>1, <3>2, <3>3, <3>4 DEF Following
  <2> QED
    BY <2>1, <2>2
<1>3. CASE GetScancode
  BY <1>3 DEF GetScancode, ring
<1>4. CASE PopTest
  BY <1>4 DEF PopTest, ring, Empty
<1>5. CASE SpinEnds
  BY <1>5 DEF SpinEnds, ring
<1>6. CASE LoadSlot
  BY <1>6 DEF LoadSlot, ring
<1>7. CASE StoreTail
  BY <1>7, FollowingCases DEF StoreTail
<1>8. CASE StoreTailFirst
  BY <1>8, FollowingCases DEF StoreTailFirst, Following
<1>9. CASE LoadLate
  BY <1>9 DEF LoadLate, ring
<1>10. CASE UNCHANGED vars
  BY <1>10 DEF vars, ring, consumer, Following
<1> QED
  BY <1>1, <1>2, <1>3, <1>4, <1>5, <1>6, <1>7, <1>8, <1>9, <1>10
     DEF Next, Consumer

(* The ring, the consumer's registers and its position stay in their types, *)
(* and a pop past its empty test has a code to take.                        *)
THEOREM RingInvariant == Spec => [](TypeOK /\ TakeFindsCode)
<1>1. IInv => TypeOK /\ TakeFindsCode
  BY DEF IInv
<1> QED
  BY InitInv, NextInv, <1>1, PTL DEF Spec

(* The handler never writes the slot the consumer is reading, in the build  *)
(* that moves tail first too: there the slot is the one Full keeps unused.  *)
THEOREM SlotIsIntact == Spec => SlotIntact
<1> DEFINE A == /\ pc \in {"take", "store"} => buf'[tail] = buf[tail]
                /\ pc = "late" => buf'[slot] = buf[slot]
<1>1. IInv /\ [Next]_vars => [A]_vars
  <2> SUFFICES ASSUME IInv, Next PROVE A
    BY Zenon
  <2>1. CASE KeyboardIRQ /\ ~Full
    <3>1. buf' = [buf EXCEPT ![head] = port]
      BY <2>1 DEF KeyboardIRQ
    <3>2. pc \in {"take", "store"} => head # tail
      BY DEF IInv, TakeFindsCode
    <3>3. pc = "late" => head # slot
      BY <2>1 DEF IInv, Full
    <3> QED
      BY <3>1, <3>2, <3>3 DEF IInv, TypeOK
  <2>2. CASE ~(KeyboardIRQ /\ ~Full)
    BY <2>2 DEF Next, Consumer, KeyByte, KeyboardIRQ, GetScancode, PopTest,
       SpinEnds, LoadSlot, StoreTail, StoreTailFirst, LoadLate, ring
  <2> QED
    BY <2>1, <2>2
<1> QED
  BY InitInv, NextInv, <1>1, PTL DEF Spec, SlotIntact

----------------------------------------------------------------------------
(* The ring as a sequence. *)

SeqOfBytes ==
    /\ Count \in 0 .. Size - 1
    /\ \A i \in 0 .. Count : At(i) \in Slots
    /\ Contents \in Seq(Bytes)
    /\ Len(Contents) = Count
    /\ \A i \in 1 .. Count : Contents[i] = buf[At(i - 1)]

LEMMA ContentsIsSeq == TypeOK => SeqOfBytes
<1> SUFFICES ASSUME TypeOK PROVE SeqOfBytes
  OBVIOUS
<1>1. Count \in 0 .. Size - 1
  BY SizeAssumption DEF TypeOK, Count, Slots
<1>2. \A i \in 0 .. Count : At(i) \in Slots
  BY SizeAssumption DEF TypeOK, Count, At, Slots
<1>3. \A i \in 1 .. Count : buf[At(i - 1)] \in Bytes
  BY <1>1, <1>2 DEF TypeOK
<1>4. Contents \in [1 .. Count -> Bytes]
  BY <1>3 DEF Contents
<1>5. Count \in Nat
  BY <1>1, SizeAssumption
<1>6. Contents \in Seq(Bytes) /\ Len(Contents) = Count
  BY <1>4, <1>5
<1> QED
  BY <1>1, <1>2, <1>6 DEF Contents, SeqOfBytes

(* The full test is true exactly when Size - 1 codes are waiting. *)
LEMMA FullMeansCapacity ==
    ASSUME TypeOK
    PROVE  Full <=> Count = Size - 1
<1>1. Following(head) = IF head = Size - 1 THEN 0 ELSE head + 1
  BY FollowingCases DEF TypeOK
<1> QED
  BY <1>1, SizeAssumption DEF TypeOK, Full, Count, Slots

(* The push appends to the sequence. *)
LEMMA PushAppends ==
    ASSUME TypeOK, KeyboardIRQ, ~Full
    PROVE  Contents' = Append(Contents, port)
<1> USE SizeAssumption
<1>1. /\ buf' = [buf EXCEPT ![head] = port]
      /\ head' = Following(head) /\ tail' = tail
  BY DEF KeyboardIRQ
<1>2. TypeOK'
  BY <1>1, FollowingCases DEF TypeOK, KeyboardIRQ, consumer, Bytes
<1>3. Count' = Count + 1
  <2>1. Following(head) = IF head = Size - 1 THEN 0 ELSE head + 1
    BY FollowingCases DEF TypeOK
  <2> QED
    BY <1>1, <2>1 DEF TypeOK, Full, Count, Slots
<1>4. \A i \in 0 .. Count : At(i)' = At(i)
  BY <1>1 DEF At
<1>5. At(Count) = head /\ \A i \in 0 .. Count - 1 : At(i) # head
  BY DEF TypeOK, At, Count, Slots
<1>6. port \in Bytes
  BY DEF TypeOK
<1>7. /\ Contents' \in Seq(Bytes) /\ Len(Contents') = Count + 1
      /\ \A i \in 1 .. Count + 1 : Contents'[i] = buf'[At(i - 1)']
  <2>1. SeqOfBytes'
    BY <1>2, ContentsIsSeq, PTL
  <2> QED
    BY <2>1, <1>3 DEF SeqOfBytes
<1>8. /\ Append(Contents, port) \in Seq(Bytes)
      /\ Len(Append(Contents, port)) = Count + 1
      /\ \A i \in 1 .. Count : Append(Contents, port)[i] = Contents[i]
      /\ Append(Contents, port)[Count + 1] = port
  BY ContentsIsSeq, <1>6, AppendProperties DEF SeqOfBytes
<1>9. ASSUME NEW i \in 1 .. Count + 1
      PROVE  Contents'[i] = Append(Contents, port)[i]
  <2> Count \in Nat
    BY ContentsIsSeq DEF SeqOfBytes
  <2>1. CASE i = Count + 1
    BY <2>1, <1>1, <1>4, <1>5, <1>7, <1>8 DEF TypeOK
  <2>2. CASE i # Count + 1
    <3>1. i \in 1 .. Count /\ i - 1 \in 0 .. Count - 1
      BY <2>2
    <3>2. At(i - 1) # head /\ At(i - 1) \in Slots /\ At(i - 1)' = At(i - 1)
      BY <3>1, <1>4, <1>5, ContentsIsSeq DEF SeqOfBytes
    <3>3. Contents'[i] = buf[At(i - 1)]
      BY <3>2, <1>7, <1>1 DEF TypeOK
    <3> QED
      BY <3>1, <3>3, <1>8, ContentsIsSeq DEF SeqOfBytes
  <2> QED
    BY <2>1, <2>2
<1> QED
  BY <1>7, <1>8, <1>9, SeqEqual

(* Moving tail drops the oldest code of the sequence. *)
LEMMA TailMoves ==
    ASSUME TypeOK, TypeOK', head # tail,
           tail' = Following(tail), buf' = buf, head' = head
    PROVE  /\ Contents # << >>
           /\ Head(Contents) = buf[tail]
           /\ Contents' = Tail(Contents)
<1> USE SizeAssumption
<1>0. Following(tail) = IF tail = Size - 1 THEN 0 ELSE tail + 1
  BY FollowingCases DEF TypeOK
<1>1. Count \in 1 .. Size - 1 /\ Count' = Count - 1
  BY <1>0 DEF TypeOK, Count, Slots
<1>2. At(0) = tail
  BY DEF TypeOK, At, Slots
<1>3. Contents # << >> /\ Head(Contents) = buf[tail]
  BY <1>1, <1>2, ContentsIsSeq DEF SeqOfBytes
<1>4. /\ Contents' \in Seq(Bytes) /\ Len(Contents') = Count - 1
      /\ \A i \in 1 .. Count - 1 : Contents'[i] = buf[At(i - 1)']
  <2>1. SeqOfBytes'
    BY ContentsIsSeq, PTL
  <2> QED
    BY <2>1, <1>1 DEF SeqOfBytes
<1>5. /\ Tail(Contents) \in Seq(Bytes) /\ Len(Tail(Contents)) = Count - 1
      /\ \A i \in 1 .. Count - 1 : Tail(Contents)[i] = Contents[i + 1]
  BY <1>3, ContentsIsSeq, HeadTailProperties DEF SeqOfBytes
<1>6. \A i \in 0 .. Count - 2 : At(i)' = At(i + 1)
  BY <1>0, <1>1 DEF TypeOK, At, Slots, Count
<1>7. ASSUME NEW i \in 1 .. Count - 1
      PROVE  Contents'[i] = Tail(Contents)[i]
  <2>1. i - 1 \in 0 .. Count - 2 /\ i + 1 \in 1 .. Count /\ (i - 1) + 1 = i
    BY <1>1
  <2>2. At(i - 1)' = At(i) /\ Contents[i + 1] = buf[At(i)]
    BY <2>1, <1>6, ContentsIsSeq DEF SeqOfBytes
  <2> QED
    BY <2>2, <1>4, <1>5
<1> QED
  BY <1>3, <1>4, <1>5, <1>7, SeqEqual

----------------------------------------------------------------------------
(* Every step of the ring is a step of the queue or leaves it unchanged. *)
LEMMA StepRefines == IInv /\ IInv' /\ [Next]_vars => [Queue!Next]_(Queue!vars)
<1> SUFFICES ASSUME IInv, IInv', [Next]_vars
             PROVE  [Queue!Next]_(Queue!vars)
  OBVIOUS
<1> USE DEF Queue!Next, Queue!vars
<1>0. TypeOK /\ TypeOK' /\ Size \in Nat /\ Len(Contents) = Count
  <2>1. TypeOK /\ TypeOK' /\ Size \in Nat
    BY SizeAssumption DEF IInv
  <2> QED
    BY <2>1, ContentsIsSeq DEF SeqOfBytes
<1>a. ASSUME UNCHANGED ring PROVE Contents' = Contents
  BY <1>a DEF ring, Contents, Count, At
<1>1. ASSUME NEW c \in Codes, KeyByte(c) PROVE Queue!Arrive(c)
  BY <1>1, <1>a DEF KeyByte, consumer, ring, Delivered, Queue!Arrive
<1>2. CASE KeyboardIRQ
  <2>1. Delivered' = Delivered
    <3>1. pc = "late" => buf'[slot] = buf[slot]
      BY <1>2, <1>0 DEF KeyboardIRQ, ring, IInv, TypeOK, Full
    <3> QED
      BY <3>1, <1>2 DEF KeyboardIRQ, consumer, Delivered
  <2>2. CASE Full
    BY <1>0, <1>2, <2>1, <2>2, <1>a, FullMeansCapacity
       DEF KeyboardIRQ, Queue!Drop
  <2>3. CASE ~Full
    <3>1. Count < Size - 1
      BY <1>0, <2>3, FullMeansCapacity, ContentsIsSeq DEF SeqOfBytes
    <3>2. Contents' = Append(Contents, port)
      BY <1>0, <1>2, <2>3, PushAppends
    <3> QED
      BY <1>0, <1>2, <2>1, <3>1, <3>2 DEF KeyboardIRQ, Queue!Accept
  <2> QED
    BY <2>2, <2>3
<1>3. CASE GetScancode
  BY <1>3, <1>a DEF GetScancode, Delivered, ring
<1>4. CASE PopTest
  BY <1>4, <1>a DEF PopTest, Delivered, ring
<1>5. CASE SpinEnds
  BY <1>5, <1>a DEF SpinEnds, Delivered, ring
<1>6. CASE LoadSlot
  BY <1>6, <1>a DEF LoadSlot, Delivered, ring
<1>7. CASE StoreTail
  <2>1. /\ Contents # << >> /\ Head(Contents) = buf[tail]
        /\ Contents' = Tail(Contents)
    BY <1>0, <1>7, TailMoves DEF StoreTail, IInv, TakeFindsCode
  <2>2. Delivered' = buf[tail]
    BY <1>7 DEF StoreTail, Delivered, IInv
  <2> QED
    BY <1>7, <2>1, <2>2 DEF StoreTail, Queue!Deliver
<1>8. CASE StoreTailFirst
  <2>1. /\ Contents # << >> /\ Head(Contents) = buf[tail]
        /\ Contents' = Tail(Contents)
    BY <1>0, <1>8, TailMoves DEF StoreTailFirst, IInv, TakeFindsCode
  <2>2. Delivered' = buf[tail]
    BY <1>8 DEF StoreTailFirst, Delivered
  <2> QED
    BY <1>8, <2>1, <2>2 DEF StoreTailFirst, Queue!Deliver
<1>9. CASE LoadLate
  BY <1>9, <1>a DEF LoadLate, Delivered, ring
<1>10. CASE UNCHANGED vars
  BY <1>10, <1>a DEF vars, consumer, ring, Delivered
<1> QED
  BY <1>1, <1>2, <1>3, <1>4, <1>5, <1>6, <1>7, <1>8, <1>9, <1>10
     DEF Next, Consumer

(* The ring, its interrupt handler and its busy-waiting reader implement a  *)
(* bounded FIFO queue that drops only what arrives when Size - 1 codes are  *)
(* waiting: for every ring size, both builds and every interleaving.        *)
THEOREM RingImplementsQueue == Spec => ImplementsQueue
<1>1. Init => Queue!Init
  <2> SUFFICES ASSUME Init PROVE Queue!Init
    OBVIOUS
  <2>1. Count = 0
    BY SizeAssumption DEF Init, Count
  <2>2. Contents = << >>
    BY <2>1 DEF Contents
  <2> QED
    BY <2>2 DEF Init, Delivered, Queue!Init
<1> QED
  BY <1>1, InitInv, NextInv, StepRefines, PTL
     DEF Spec, ImplementsQueue, Queue!Spec
=============================================================================
