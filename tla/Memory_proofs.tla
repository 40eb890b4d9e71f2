---------------------------- MODULE Memory_proofs ----------------------------
(* Proofs about PMM.c, and VMM.c on top of it, for every machine, frame size *)
(* and number of clients that ask for at most one frame at a time, as        *)
(* VMM_init does: the frames are accounted for, the kernel, the frame bitmap *)
(* and the page tables are never overwritten, and no client is given a page  *)
(* that is not mapped.                                                       *)
EXTENDS VMM, FiniteSetTheorems, WellFoundedInduction, TLAPS

SingleFrameRequests == Requests \subseteq 0 .. FrameSize

----------------------------------------------------------------------------
(* Division, and what bitset_find of lib/bitset.c guarantees. *)

LEMMA DivBounds ==
    ASSUME NEW a \in Nat, NEW n \in Nat \ {0}
    PROVE  /\ a \div n \in Nat
           /\ n * (a \div n) <= a
           /\ a < n * (a \div n) + n
OBVIOUS

LEMMA MulMonotone ==
    ASSUME NEW p \in Nat, NEW q \in Nat, NEW n \in Nat, p <= q
    PROVE  n * p <= n * q
OBVIOUS

(* Division by a frame size keeps the order. *)
LEMMA DivMonotone ==
    ASSUME NEW a \in Nat, NEW b \in Nat, NEW n \in Nat \ {0}, a <= b
    PROVE  a \div n <= b \div n
<1> DEFINE p == a \div n
           q == b \div n
<1>1. /\ p \in Nat /\ n * p <= a
      /\ q \in Nat /\ b < n * q + n
  BY DivBounds
<1> HIDE DEF p, q
<1>2. ASSUME p > q PROVE FALSE
  <2>1. n * (q + 1) <= n * p
    BY <1>1, <1>2, MulMonotone
  <2>2. n * (q + 1) = n * q + n
    BY <1>1
  <2> QED
    BY <1>1, <2>1, <2>2
<1> QED
  BY <1>1, <1>2 DEF p, q

(* A nonempty set of naturals has a least element, and Min is it. *)
LEMMA MinOfNats ==
    ASSUME NEW S, S \subseteq Nat, S # {}
    PROVE  Min(S) \in S /\ \A m \in S : Min(S) <= m
<1>1. PICK n \in S : \A m \in S : n <= m
  <2> DEFINE R == {ss \in Nat \X Nat : ss[1] < ss[2]}
  <2>1. IsWellFoundedOn(R, Nat)
    BY NatLessThanWellFounded DEF OpToRel
  <2>2. PICK n \in S : \A m \in S : ~(<<m, n>> \in R)
    <3> HIDE DEF R
    <3> QED
      BY <2>1, WFMin
  <2>3. ASSUME NEW m \in S PROVE n <= m
    <3>1. m \in Nat /\ n \in Nat
      OBVIOUS
    <3>2. CASE m < n
      <4>1. <<m, n>> \in Nat \X Nat /\ <<m, n>>[1] < <<m, n>>[2]
        BY <3>1, <3>2
      <4>2. <<m, n>> \in R
        BY <4>1
      <4> QED
        BY <2>2, <4>2
    <3> QED
      BY <3>1, <3>2
  <2> QED
    BY <2>3
<1> QED
  BY <1>1 DEF Min

(* The bits searched are bits of the bitset. *)
LEMMA SearchedInside ==
    ASSUME NEW n \in Nat
    PROVE  Searched(n) \subseteq 0 .. n - 1
<1>1. n \div WordBits \in Nat /\ WordBits * (n \div WordBits) <= n
  BY WordBitsAssumption, DivBounds
<1>2. (n \div WordBits) * WordBits <= n
  BY <1>1, WordBitsAssumption
<1> QED
  BY <1>1, <1>2, WordBitsAssumption DEF Searched

(* bitset_find never returns a bit that is set or outside of the bitset:    *)
(* for any number of bits, the first bit of what it returns is clear.       *)
THEOREM FindReturnsClearBit ==
    ASSUME NEW bits, NEW bitset_size \in Nat, NEW size \in Nat,
           NEW stray \in BOOLEAN,
           bitset_find(bits, bitset_size, size, stray) # NotFound
    PROVE  bitset_find(bits, bitset_size, size, stray)
             \in (0 .. bitset_size - 1) \ bits
<1> DEFINE ends == {p \in Clear(bits, bitset_size) :
                       \/ NoRoom(bitset_size, size, p)
                       \/ Hit(bits, bitset_size, size, p, stray)}
<1>1. bitset_find(bits, bitset_size, size, stray) = Min(ends) /\ ends # {}
  BY DEF bitset_find
<1>2. Clear(bits, bitset_size) \subseteq (0 .. bitset_size - 1) \ bits
  BY SearchedInside DEF Clear, bitset_test
<1>3. ends \subseteq (0 .. bitset_size - 1) \ bits
  BY <1>2
<1>4. ends \subseteq Nat
  BY <1>3
<1> HIDE DEF ends
<1> QED
  BY <1>1, <1>3, <1>4, MinOfNats

(* The search gives up at the first clear bit that has no room: what it     *)
(* returns lies below every such bit.                                       *)
THEOREM FindStopsAtNoRoom ==
    ASSUME NEW bits, NEW bitset_size \in Nat, NEW size \in Nat,
           NEW stray \in BOOLEAN,
           bitset_find(bits, bitset_size, size, stray) # NotFound,
           NEW q \in Clear(bits, bitset_size), NoRoom(bitset_size, size, q)
    PROVE  bitset_find(bits, bitset_size, size, stray) < q
<1> DEFINE ends == {p \in Clear(bits, bitset_size) :
                       \/ NoRoom(bitset_size, size, p)
                       \/ Hit(bits, bitset_size, size, p, stray)}
<1>1. /\ bitset_find(bits, bitset_size, size, stray) = Min(ends)
      /\ ~NoRoom(bitset_size, size, Min(ends))
  BY DEF bitset_find
<1>2. Clear(bits, bitset_size) \subseteq Nat
  BY SearchedInside DEF Clear
<1>3. ends \subseteq Nat /\ q \in ends
  BY <1>2
<1> HIDE DEF ends
<1>4. Min(ends) \in Nat /\ q \in Nat /\ Min(ends) <= q
  BY <1>3, MinOfNats
<1>5. Min(ends) # q
  BY <1>1
<1> QED
  BY <1>1, <1>4, <1>5

----------------------------------------------------------------------------
(* Frame arithmetic. *)

(* Such a request is for no frame or for one. *)
LEMMA OneFrame ==
    ASSUME SingleFrameRequests, NEW size \in Requests
    PROVE  _size2frame(size) \in {0, 1}
<1>1. size \in Nat /\ size <= FrameSize /\ FrameSize \in Nat \ {0}
  BY FrameSizeAssumption DEF SingleFrameRequests
<1>2. CASE size = FrameSize
  BY <1>1, <1>2 DEF _size2frame
<1>3. CASE size < FrameSize
  BY <1>1, <1>3 DEF _size2frame
<1> QED
  BY <1>1, <1>2, <1>3

LEMMA CeilDivMonotone ==
    ASSUME NEW a \in Nat, NEW b \in Nat, a <= b
    PROVE  /\ CeilDiv(a, FrameSize) \in Nat
           /\ CeilDiv(a, FrameSize) <= CeilDiv(b, FrameSize)
<1>1. a + FrameSize - 1 \in Nat /\ b + FrameSize - 1 \in Nat
  BY FrameSizeAssumption
<1> QED
  BY <1>1, FrameSizeAssumption, DivMonotone, DivBounds DEF CeilDiv

(* A byte of first .. first + bytes - 1 is in one of the region's frames. *)
LEMMA ByteInFrames ==
    ASSUME NEW first \in Nat, NEW bytes \in Nat,
           NEW a \in first .. first + bytes - 1
    PROVE  a \div FrameSize \in Frames(first, bytes)
<1> DEFINE last == first + bytes - 1
<1>1. a \in Nat /\ last \in Nat /\ first <= a /\ a <= last
  OBVIOUS
<1>2. first \div FrameSize <= a \div FrameSize
  BY <1>1, DivMonotone, FrameSizeAssumption
<1>3. a \div FrameSize <= last \div FrameSize
  BY <1>1, DivMonotone, FrameSizeAssumption
<1>4. (last + FrameSize) \div FrameSize = (last \div FrameSize) + 1
  <2> HIDE DEF last
  <2> QED
    BY <1>1, FrameSizeAssumption
<1>5. CeilDiv(first + bytes, FrameSize) = (last + FrameSize) \div FrameSize
  BY FrameSizeAssumption DEF CeilDiv
<1>6. /\ first \div FrameSize \in Nat /\ a \div FrameSize \in Nat
      /\ last \div FrameSize \in Nat
  BY <1>1, DivBounds, FrameSizeAssumption
<1> HIDE DEF last
<1> QED
  BY <1>2, <1>3, <1>4, <1>5, <1>6 DEF Frames

----------------------------------------------------------------------------
(* What PMM_init computes. *)

(* All it marks is inside the bitset. *)
LEMMA MarkedInside ==
    ASSUME NEW m \in Machines
    PROVE  /\ total_frames(m) \in Nat
           /\ MarkedAtInit(m) \subseteq 0 .. total_frames(m) - 1
<1> DEFINE ends == {End(e) : e \in m.regions}
           high_end == CHOOSE h \in ends : \A x \in ends : x <= h
<1>1. high_end \in ends /\ \A x \in ends : x <= high_end
  BY MachinesAssumption
<1>2. high_end \in Nat
  BY <1>1, MachinesAssumption DEF End
<1>3. total_frames(m) = CeilDiv(high_end, FrameSize)
  BY DEF total_frames
<1>4. ASSUME NEW e \in m.regions
      PROVE  Frames(e.base, e.length) \subseteq 0 .. total_frames(m) - 1
  <2>1. e.base \in Nat /\ e.length \in Nat /\ End(e) <= high_end
    BY <1>1, MachinesAssumption
  <2>2. e.base \div FrameSize \in Nat
    BY <2>1, FrameSizeAssumption, DivBounds
  <2>3. /\ CeilDiv(End(e), FrameSize) \in Nat
        /\ CeilDiv(End(e), FrameSize) <= total_frames(m)
        /\ total_frames(m) \in Nat
    <3> HIDE DEF high_end
    <3>1. End(e) \in Nat
      BY <2>1 DEF End
    <3> QED
      BY <3>1, <2>1, <1>2, <1>3, CeilDivMonotone
  <2> QED
    BY <2>2, <2>3 DEF Frames, End
<1>5. FirmwareFrames(m) \subseteq 0 .. total_frames(m) - 1
  <2>1. ASSUME NEW r \in sanitized(m)
        PROVE  Frames(r.base, r.length) \subseteq 0 .. total_frames(m) - 1
    <3>1. PICK e \in m.regions : r = [e EXCEPT !.type = SanitizedType(e)]
      BY DEF sanitized
    <3>2. r.base = e.base /\ r.length = e.length
      BY <3>1
    <3> QED
      BY <3>2, <1>4
  <2> QED
    BY <2>1 DEF FirmwareFrames
<1>6. total_frames(m) \in Nat
  <2> HIDE DEF high_end
  <2> QED
    BY <1>2, <1>3, CeilDivMonotone
<1> QED
  BY <1>5, <1>6, MachinesAssumption DEF MarkedAtInit

(* The bitset covers no more than the address space. *)
LEMMA TotalBelowLimit ==
    ASSUME NEW m \in Machines
    PROVE  total_frames(m) <= CeilDiv(AddressLimit, FrameSize)
<1> DEFINE ends == {End(e) : e \in m.regions}
           high_end == CHOOSE h \in ends : \A x \in ends : x <= h
<1>1. high_end \in ends
  BY MachinesAssumption
<1>2. high_end \in Nat /\ high_end <= AddressLimit
  BY <1>1, MachinesAssumption DEF End
<1>3. total_frames(m) = CeilDiv(high_end, FrameSize)
  BY DEF total_frames
<1> HIDE DEF high_end
<1> QED
  BY <1>2, <1>3, LayoutAssumption, CeilDivMonotone

LEMMA MarkedFinite ==
    ASSUME NEW n \in Nat, NEW S \in SUBSET (0 .. n - 1)
    PROVE  IsFiniteSet(S) /\ Cardinality(S) \in 0 .. n
<1>1. IsFiniteSet(0 .. n - 1) /\ Cardinality(0 .. n - 1) = n
  BY FS_Interval
<1>2. IsFiniteSet(S) /\ Cardinality(S) <= n
  BY <1>1, FS_Subset
<1>3. Cardinality(S) \in Nat
  BY <1>2, FS_CardinalityType
<1> QED
  BY <1>2, <1>3

----------------------------------------------------------------------------
(* The inductive invariant.  MapAccounted alone is not inductive: freeing a *)
(* block unmarks only the frames of that block because no two clients hold  *)
(* the same frame and none holds a frame marked by PMM_init.                *)
Holder(c) == holds[c] # NoBlock

HoldsOne ==
    \A c \in Clients : Holder(c) =>
        /\ holds[c].num = 1
        /\ holds[c].pos \in map \ (MarkedAtInit(machine) \cup {0})

HeldOnce ==
    \A c, d \in Clients :
        Holder(c) /\ Holder(d) /\ c # d => holds[c].pos # holds[d].pos

Started ==
    IF status = "up"
    THEN /\ total = total_frames(machine)
         /\ MarkedAtInit(machine) \subseteq map
         /\ \A f \in map : \/ f \in MarkedAtInit(machine) \cup {0}
                           \/ \E c \in Clients : Holder(c) /\ holds[c].pos = f
    ELSE total = 0 /\ map = {} /\ \A c \in Clients : ~Holder(c)

IInv == TypeOK /\ UsedCountsMap /\ HoldsOne /\ HeldOnce /\ Started

LEMMA InitInv == Init => IInv
<1> SUFFICES ASSUME Init PROVE IInv
  OBVIOUS
<1>1. TypeOK
  BY DEF Init, TypeOK, Blocks
<1>2. UsedCountsMap
  BY FS_EmptySet DEF Init, UsedCountsMap
<1>3. HoldsOne /\ HeldOnce /\ Started
  BY DEF Init, HoldsOne, HeldOnce, Started, Holder
<1> QED
  BY <1>1, <1>2, <1>3 DEF IInv

LEMMA MapOfNats == IInv => map \subseteq Nat
<1> SUFFICES ASSUME IInv, NEW f \in map PROVE f \in Nat
  OBVIOUS
<1>1. total \in Nat /\ f \in 0 .. total - 1
  BY DEF IInv, TypeOK
<1> QED
  BY <1>1

LEMMA SpanOfOne ==
    ASSUME NEW b, b.num = 1, b.pos \in Nat
    PROVE  Span(b) = {b.pos}
BY DEF Span

(* PMM_init establishes the invariant on the machine it finds. *)
LEMMA PMM_initInv == IInv /\ PMM_init => IInv'
<1> SUFFICES ASSUME IInv, PMM_init PROVE IInv'
  OBVIOUS
<1> USE DEF IInv
<1>1. /\ status = "boot" /\ machine' = machine /\ holds' = holds
      /\ machine \in Machines /\ \A c \in Clients : ~Holder(c)
  BY DEF PMM_init, TypeOK, Started
<1>2. CASE Above4GB(machine)
  <2>1. status' = "panic" /\ total' = total /\ used' = used /\ map' = map
    BY <1>2 DEF PMM_init
  <2> QED
    BY <1>1, <2>1 DEF TypeOK, UsedCountsMap, HoldsOne, HeldOnce, Started, Holder
<1>3. CASE ~Above4GB(machine)
  <2>1. /\ status' = "up" /\ total' = total_frames(machine)
        /\ map' = MarkedAtInit(machine)
        /\ used' = Cardinality(MarkedAtInit(machine))
    BY <1>3 DEF PMM_init
  <2>2. /\ total' \in Nat /\ map' \subseteq 0 .. total' - 1
        /\ used' \in 0 .. total'
    BY <1>1, <2>1, MarkedInside, MarkedFinite
  <2>3. TypeOK'
    BY <1>1, <2>1, <2>2 DEF TypeOK
  <2> QED
    BY <1>1, <2>1, <2>3 DEF UsedCountsMap, HoldsOne, HeldOnce, Started, Holder
<1> QED
  BY <1>2, <1>3

(* What a call of PMM_malloc for at most one frame does: nothing, or it     *)
(* marks one free frame, which the client holds unless it is frame 0.       *)
LEMMA MallocMarksOne ==
    ASSUME IInv, SingleFrameRequests, NEW c \in Clients, NEW size \in Requests,
           PMM_malloc(c, size)
    PROVE  /\ status = "up" /\ ~Holder(c)
           /\ UNCHANGED <<machine, status, total>>
           /\ \/ UNCHANGED <<used, map, holds>>
              \/ \E f \in (0 .. total - 1) \ map :
                    /\ map' = map \cup {f}
                    /\ used' = used + 1
                    /\ holds' = IF f = 0 THEN holds
                                 ELSE [holds EXCEPT ![c] = [pos |-> f, num |-> 1]]
<1> DEFINE n == _size2frame(size)
<1>1. PICK stray \in BOOLEAN :
         LET pos == Placed(n, stray)
             block == [pos |-> pos, num |-> n]
         IN  IF pos = NotFound
             THEN UNCHANGED <<used, map, holds>>
             ELSE /\ map' = bitset_set(map, Span(block))
                  /\ used' = Counted(n)
                  /\ holds' = IF pos * FrameSize = NULL THEN holds
                                     ELSE [holds EXCEPT ![c] = block]
  BY DEF PMM_malloc
<1>2. n \in {0, 1}
  BY OneFrame
<1>3. status = "up" /\ ~Holder(c) /\ UNCHANGED <<machine, status, total>>
  BY DEF PMM_malloc, Holder
<1>4. CASE Placed(n, stray) = NotFound
  BY <1>1, <1>3, <1>4
<1>5. CASE Placed(n, stray) # NotFound
  <2> DEFINE f == Placed(n, stray)
             b == [pos |-> f, num |-> n]
  <2>1. f = bitset_find(map, total, n, stray)
    BY <1>5 DEF Placed
  <2>2. n = 1
    BY <1>2, <1>5, <2>1 DEF bitset_find
  <2>3. f \in (0 .. total - 1) \ map
    BY <1>5, <2>1, <2>2, FindReturnsClearBit DEF IInv, TypeOK
  <2>4. Span(b) = {f}
    BY <2>2, <2>3 DEF Span
  <2>5. f * FrameSize = NULL <=> f = 0
    <3> HIDE DEF f
    <3> QED
      BY <2>3, FrameSizeAssumption DEF NULL
  <2> QED
    BY <1>1, <1>3, <1>5, <2>2, <2>3, <2>4, <2>5 DEF bitset_set, Counted
<1> QED
  BY <1>4, <1>5

LEMMA MallocInv ==
    ASSUME IInv, SingleFrameRequests, NEW c \in Clients, NEW size \in Requests,
           PMM_malloc(c, size)
    PROVE  IInv'
<1>1. /\ status = "up" /\ ~Holder(c)
      /\ UNCHANGED <<machine, status, total>>
  BY MallocMarksOne
<1>2. CASE UNCHANGED <<used, map, holds>>
  BY <1>1, <1>2 DEF IInv, TypeOK, UsedCountsMap, HoldsOne, HeldOnce, Started,
                    Holder
<1>3. ASSUME NEW f \in (0 .. total - 1) \ map,
             map' = map \cup {f}, used' = used + 1,
             holds' = IF f = 0 THEN holds
                      ELSE [holds EXCEPT ![c] = [pos |-> f, num |-> 1]]
      PROVE  IInv'
  <2>1. /\ total \in Nat /\ map \subseteq 0 .. total - 1 /\ machine \in Machines
        /\ holds \in [Clients -> Blocks] /\ used = Cardinality(map)
    BY DEF IInv, TypeOK, UsedCountsMap
  <2>2. map' \subseteq 0 .. total - 1
    BY <1>3, <2>1
  <2>3. UsedCountsMap' /\ used' \in 0 .. total
    BY <1>3, <2>1, <2>2, MarkedFinite, FS_AddElement DEF UsedCountsMap
  <2>4. TypeOK'
    BY <1>1, <1>3, <2>1, <2>2, <2>3 DEF IInv, TypeOK, Blocks
  <2>5. MarkedAtInit(machine) \subseteq map
    BY <1>1 DEF IInv, Started
  <2>6. HoldsOne' /\ HeldOnce'
    BY <1>1, <1>3, <2>1, <2>5 DEF IInv, HoldsOne, HeldOnce, Holder
  <2>7. Started'
    <3>1. c \in DOMAIN holds
      BY <2>1
    <3>2. ASSUME NEW g \in map'
          PROVE  \/ g \in MarkedAtInit(machine) \cup {0}
                 \/ \E d \in Clients : Holder(d)' /\ holds'[d].pos = g
      <4>1. CASE g = f /\ f # 0
        BY <1>3, <2>1, <3>1, <4>1 DEF Holder, NoBlock
      <4>2. CASE g \in map
        BY <1>1, <1>3, <2>1, <4>2 DEF IInv, Started, Holder
      <4> QED
        BY <1>3, <4>1, <4>2
    <3> QED
      BY <1>1, <1>3, <2>5, <3>2 DEF IInv, Started
  <2> QED
    BY <2>3, <2>4, <2>6, <2>7 DEF IInv
<1> QED
  BY <1>2, <1>3, MallocMarksOne

(* A client's own PMM_free unmarks the one frame it holds; the panic of     *)
(* PMM_free is out of reach.                                                *)
LEMMA FreeUnmarksOne ==
    ASSUME IInv, NEW c \in Clients, NEW size \in Requests, PMM_free(c, size)
    PROVE  /\ status = "up" /\ Holder(c)
           /\ UNCHANGED <<machine, status, total>>
           /\ map' = map \ {holds[c].pos}
           /\ used' = used - 1
           /\ holds' = [holds EXCEPT ![c] = NoBlock]
           /\ holds[c].num = 1 /\ holds[c].pos \in map /\ used >= 1
<1>1. status = "up" /\ Holder(c) /\ UNCHANGED <<machine, total>>
  BY DEF PMM_free, Holder
<1>2. holds[c].num = 1 /\ holds[c].pos \in map
  BY <1>1 DEF IInv, HoldsOne
<1>3. total \in Nat /\ map \subseteq 0 .. total - 1 /\ used = Cardinality(map)
  BY DEF IInv, TypeOK, UsedCountsMap
<1>4. used >= 1
  <2>1. IsFiniteSet(map) /\ used \in Nat
    BY <1>3, MarkedFinite
  <2>2. used # 0
    BY <1>2, <1>3, <2>1, FS_EmptySet
  <2> QED
    BY <2>1, <2>2
<1>5. Span(holds[c]) = {holds[c].pos}
  <2>1. holds[c].pos \in Nat
    BY <1>2, MapOfNats
  <2> QED
    BY <1>2, <2>1, SpanOfOne
<1>6. used \in Nat
  BY DEF IInv, TypeOK
<1>7. ~(used < holds[c].num)
  BY <1>2, <1>4, <1>6
<1> QED
  BY <1>1, <1>2, <1>4, <1>5, <1>7 DEF PMM_free, bitset_clear, Uncounted

LEMMA FreeInv ==
    ASSUME IInv, NEW c \in Clients, NEW size \in Requests, PMM_free(c, size)
    PROVE  IInv'
<1>1. /\ status = "up" /\ Holder(c)
      /\ UNCHANGED <<machine, status, total>>
      /\ map' = map \ {holds[c].pos}
      /\ used' = used - 1
      /\ holds' = [holds EXCEPT ![c] = NoBlock]
      /\ holds[c].num = 1 /\ holds[c].pos \in map /\ used >= 1
  BY FreeUnmarksOne
<1>2. /\ total \in Nat /\ map \subseteq 0 .. total - 1 /\ machine \in Machines
      /\ holds \in [Clients -> Blocks] /\ used = Cardinality(map)
      /\ used \in 0 .. total
  BY DEF IInv, TypeOK, UsedCountsMap
<1>3. TypeOK'
  <2>1. NoBlock \in Blocks
    BY DEF Blocks
  <2>2. holds' \in [Clients -> Blocks]
    BY <1>1, <1>2, <2>1
  <2>3. map' \subseteq 0 .. total' - 1 /\ total' \in Nat /\ machine' \in Machines
    BY <1>1, <1>2
  <2>4. used' \in 0 .. total'
    BY <1>1, <1>2
  <2>5. status' \in {"boot", "up", "panic"}
    BY <1>1
  <2> QED
    BY <2>2, <2>3, <2>4, <2>5 DEF TypeOK
<1>4. UsedCountsMap'
  BY <1>1, <1>2, MarkedFinite, FS_RemoveElement DEF UsedCountsMap
<1>5. HoldsOne' /\ HeldOnce'
  BY <1>1, <1>2 DEF IInv, HoldsOne, HeldOnce, Holder
<1>6. Started'
  BY <1>1, <1>2 DEF IInv, Started, HoldsOne, Holder
<1> QED
  BY <1>3, <1>4, <1>5, <1>6 DEF IInv

LEMMA NextInv ==
    ASSUME SingleFrameRequests
    PROVE  IInv /\ [Next]_vars => IInv'
<1> SUFFICES ASSUME IInv, [Next]_vars PROVE IInv'
  OBVIOUS
<1>1. CASE UNCHANGED vars
  BY <1>1 DEF vars, IInv, TypeOK, UsedCountsMap, HoldsOne, HeldOnce, Started,
              Holder
<1>2. CASE PMM_init
  BY <1>2, PMM_initInv
<1>3. ASSUME NEW c \in Clients, NEW size \in Requests, PMM_malloc(c, size)
      PROVE  IInv'
  BY <1>3, MallocInv
<1>4. ASSUME NEW c \in Clients, NEW size \in Requests, PMM_free(c, size)
      PROVE  IInv'
  BY <1>4, FreeInv
<1> QED
  BY <1>1, <1>2, <1>3, <1>4 DEF Next

----------------------------------------------------------------------------
(* The invariant implies each of the properties that TLC checks. *)

LEMMA HeldFramesAre ==
    ASSUME IInv
    PROVE  HeldFrames = {holds[c].pos : c \in {d \in Clients : Holder(d)}}
<1>1. ASSUME NEW c \in Clients, Holder(c)
      PROVE  Span(holds[c]) = {holds[c].pos}
  <2>1. holds[c].num = 1 /\ holds[c].pos \in map
    BY <1>1 DEF IInv, HoldsOne
  <2>2. holds[c].pos \in Nat
    BY <2>1, MapOfNats
  <2> QED
    BY <2>1, <2>2, SpanOfOne
<1>2. ASSUME NEW c \in Clients, ~Holder(c)
      PROVE  Span(holds[c]) = {}
  BY <1>2 DEF Holder, NoBlock, Span
<1> QED
  BY <1>1, <1>2 DEF HeldFrames

LEMMA AccountedFollows == IInv => MapAccounted
<1> SUFFICES ASSUME IInv, status = "up"
             PROVE  /\ map \ {0} = (MarkedAtInit(machine) \cup HeldFrames) \ {0}
                    /\ MarkedAtInit(machine) \cap HeldFrames = {}
  BY DEF MapAccounted
<1>1. HeldFrames = {holds[c].pos : c \in {d \in Clients : Holder(d)}}
  BY HeldFramesAre
<1> QED
  BY <1>1 DEF IInv, HoldsOne, Started

LEMMA BootMemoryFollows == IInv => BootMemoryMarked
<1> SUFFICES ASSUME IInv, status = "up",
                    NEW a \in bitmap_paddr(machine)
                           .. bitmap_paddr(machine) + mem_map_size(machine) - 1
                        \cup UNION {e.base .. End(e) - 1 :
                               e \in {r \in machine.regions : r.type # AVAILABLE}}
             PROVE  a \div FrameSize \in map \ HeldFrames
  BY DEF BootMemoryMarked
<1>1. machine \in Machines
  BY DEF IInv, TypeOK
<1>2. a \div FrameSize \in MarkedAtInit(machine)
  <2>1. CASE a \in bitmap_paddr(machine)
                   .. bitmap_paddr(machine) + mem_map_size(machine) - 1
    <3>1. bitmap_paddr(machine) \in Nat
      <4>1. KernelHimem + machine.kernel_size + FramesPerByte - 1 \in Nat
        BY <1>1, LayoutAssumption, MachinesAssumption
      <4>2. CeilDiv(KernelHimem + machine.kernel_size, FramesPerByte) \in Nat
        BY <4>1, LayoutAssumption, DivBounds DEF CeilDiv
      <4> QED
        BY <4>2, LayoutAssumption DEF bitmap_paddr, align_up
    <3>2. mem_map_size(machine) \in Nat
      <4>1. total_frames(machine) + FramesPerByte - 1 \in Nat
        BY <1>1, MarkedInside, LayoutAssumption
      <4> QED
        BY <4>1, LayoutAssumption, DivBounds DEF mem_map_size, CeilDiv
    <3> QED
      BY <2>1, <3>1, <3>2, ByteInFrames DEF MarkedAtInit, BitmapFrames
  <2>2. ASSUME NEW e \in machine.regions, e.type # AVAILABLE,
               a \in e.base .. End(e) - 1
        PROVE  a \div FrameSize \in MarkedAtInit(machine)
    <3>1. e.base \in Nat /\ e.length \in Nat
      BY <1>1, MachinesAssumption
    <3>2. a \div FrameSize \in Frames(e.base, e.length)
      BY <2>2, <3>1, ByteInFrames DEF End
    <3>3. PICK r \in sanitized(machine) :
             r = [e EXCEPT !.type = SanitizedType(e)]
      BY DEF sanitized
    <3>4. r.base = e.base /\ r.length = e.length
      BY <3>3
    <3>5. SanitizedType(e) # AVAILABLE
      BY <2>2 DEF SanitizedType, AVAILABLE, RESERVED
    <3>6. r.type # AVAILABLE
      BY <3>3, <3>5
    <3> QED
      BY <3>2, <3>4, <3>6 DEF MarkedAtInit, FirmwareFrames
  <2> QED
    BY <2>1, <2>2
<1>3. /\ MarkedAtInit(machine) \subseteq map
      /\ MarkedAtInit(machine) \cap HeldFrames = {}
  BY AccountedFollows DEF MapAccounted, IInv, Started
<1> QED
  BY <1>2, <1>3

(* For single-frame clients, on every machine and after any sequence of     *)
(* calls: the counter agrees with the bitset, every frame is accounted for, *)
(* what PMM_init reserved stays reserved, and no client's own PMM_free can  *)
(* panic.                                                                   *)
THEOREM PMMInvariant ==
    ASSUME SingleFrameRequests
    PROVE  Spec => []( /\ TypeOK
                       /\ UsedCountsMap
                       /\ MapAccounted
                       /\ BootMemoryMarked
                       /\ OwnFreeIsSafe )
<1>1. IInv => OwnFreeIsSafe
  <2> SUFFICES ASSUME IInv, NEW c \in Clients, status = "up", Holder(c)
               PROVE  holds[c].num <= used
    BY DEF OwnFreeIsSafe, Holder
  <2>1. holds[c].num = 1 /\ holds[c].pos \in map
    BY DEF IInv, HoldsOne
  <2>2. IsFiniteSet(map) /\ used \in Nat /\ used = Cardinality(map)
    BY MarkedFinite DEF IInv, TypeOK, UsedCountsMap
  <2>3. used # 0
    BY <2>1, <2>2, FS_EmptySet
  <2> QED
    BY <2>1, <2>2, <2>3
<1>2. IInv => TypeOK /\ UsedCountsMap
  BY DEF IInv
<1> QED
  BY InitInv, NextInv, AccountedFollows, BootMemoryFollows, <1>1, <1>2, PTL
     DEF Spec

----------------------------------------------------------------------------
(* The refinement. *)

Held == [c \in Clients |-> Span(holds[c])]

(* Every step of the memory manager is a step of the allocator, or leaves   *)
(* it unchanged: the grant of frame 0, which the caller takes for NULL.     *)
LEMMA StepRefines ==
    ASSUME SingleFrameRequests
    PROVE  IInv /\ IInv' /\ [Next]_vars => [Allocator!Next]_(Allocator!vars)
<1> SUFFICES ASSUME IInv, IInv', [Next]_vars
             PROVE  [Allocator!Next]_(Allocator!vars)
  OBVIOUS
<1> USE DEF Allocator!Next, Allocator!vars
<1>1. CASE UNCHANGED vars
  BY <1>1 DEF vars, Span
<1>2. CASE PMM_init
  <2>1. holds' = holds /\ status = "boot" /\ status' # "boot"
    BY <1>2 DEF PMM_init
  <2>2. (0 .. total' - 1) \ (map' \cup {0})
            \subseteq 0 .. CeilDiv(AddressLimit, FrameSize)
    <3>1. total' <= CeilDiv(AddressLimit, FrameSize)
      <4>1. CASE Above4GB(machine)
        <5>1. total' = 0
          BY <1>2, <2>1, <4>1 DEF PMM_init, IInv, Started
        <5> QED
          BY <5>1, CeilDivMonotone, LayoutAssumption
      <4>2. CASE ~Above4GB(machine)
        <5>1. total' = total_frames(machine) /\ machine \in Machines
          BY <1>2, <4>2 DEF PMM_init, IInv, TypeOK
        <5> QED
          BY <5>1, TotalBelowLimit
      <4> QED
        BY <4>1, <4>2
    <3>2. total' \in Nat /\ CeilDiv(AddressLimit, FrameSize) \in Nat
      BY CeilDivMonotone, LayoutAssumption DEF IInv, TypeOK
    <3> QED
      BY <3>1, <3>2
  <2>3. Allocator!Start
    BY <2>1, <2>2 DEF Allocator!Start
  <2> QED
    BY <2>3
<1>3. ASSUME NEW c \in Clients, NEW size \in Requests, PMM_malloc(c, size)
      PROVE  [Allocator!Next]_(Allocator!vars)
  <2>1. status = "up" /\ ~Holder(c) /\ UNCHANGED <<machine, status, total>>
    BY <1>3, MallocMarksOne
  <2>2. CASE UNCHANGED <<used, map, holds>>
    BY <2>1, <2>2 DEF Span
  <2>3. ASSUME NEW f \in (0 .. total - 1) \ map,
               map' = map \cup {f},
               holds' = IF f = 0 THEN holds
                        ELSE [holds EXCEPT ![c] = [pos |-> f, num |-> 1]]
        PROVE  [Allocator!Next]_(Allocator!vars)
    <3>1. CASE f = 0
      BY <2>1, <2>3, <3>1 DEF Span
    <3>2. CASE f # 0
      <4>1. f .. f = {f} /\ f \in 0 .. CeilDiv(AddressLimit, FrameSize)
        <5>1. total <= CeilDiv(AddressLimit, FrameSize) /\ total \in Nat
          BY <2>1, TotalBelowLimit DEF IInv, TypeOK, Started
        <5>2. CeilDiv(AddressLimit, FrameSize) \in Nat
          BY CeilDivMonotone, LayoutAssumption
        <5> QED
          BY <2>3, <5>1, <5>2
      <4>2. Held' = [Held EXCEPT ![c] = f .. f]
        <5>1. holds' = [holds EXCEPT ![c] = [pos |-> f, num |-> 1]]
          BY <2>3, <3>2
        <5>2. holds \in [Clients -> Blocks]
          BY DEF IInv, TypeOK
        <5>3. Span([pos |-> f, num |-> 1]) = f .. f
          BY DEF Span
        <5> QED
          BY <5>1, <5>2, <5>3 DEF Held
      <4>3. Held[c] = {}
        BY <2>1 DEF Held, Holder, NoBlock, Span
      <4>4. Allocator!Grant(c, f .. f)
        <5>1. f \in (0 .. total - 1) \ (map \cup {0})
          BY <2>3, <3>2
        <5> QED
          BY <2>1, <2>3, <4>1, <4>2, <4>3, <5>1 DEF Allocator!Grant, Held
      <4> QED
        BY <4>1, <4>4
    <3> QED
      BY <3>1, <3>2
  <2> QED
    BY <1>3, <2>2, <2>3, MallocMarksOne
<1>4. ASSUME NEW c \in Clients, NEW size \in Requests, PMM_free(c, size)
      PROVE  [Allocator!Next]_(Allocator!vars)
  <2>1. /\ status = "up" /\ UNCHANGED <<machine, status, total>>
        /\ map' = map \ {holds[c].pos}
        /\ holds' = [holds EXCEPT ![c] = NoBlock]
        /\ holds[c].num = 1 /\ holds[c].pos \in map /\ Holder(c)
    BY <1>4, FreeUnmarksOne
  <2>2. holds[c].pos # 0 /\ holds[c].pos \in 0 .. total - 1
    BY <2>1 DEF IInv, HoldsOne, TypeOK
  <2>3. Held[c] = {holds[c].pos}
    BY <2>1, MapOfNats, SpanOfOne DEF Held
  <2>4. Held' = [Held EXCEPT ![c] = {}]
    <3>1. holds \in [Clients -> Blocks]
      BY DEF IInv, TypeOK
    <3>2. Span(NoBlock) = {}
      BY DEF Span, NoBlock
    <3> QED
      BY <2>1, <3>1, <3>2 DEF Held
  <2>5. Allocator!Release(c)
    BY <2>1, <2>2, <2>3, <2>4 DEF Allocator!Release, Held
  <2> QED
    BY <2>5
<1> QED
  BY <1>1, <1>2, <1>3, <1>4 DEF Next

(* PMM.c implements the frame allocator for single-frame clients: two never *)
(* hold the same frame, none is granted that is not free, and what is freed *)
(* can be granted again.                                                    *)
THEOREM PMMImplementsAllocator ==
    ASSUME SingleFrameRequests
    PROVE  Spec => ImplementsAllocator
<1>1. Init => Allocator!Init
  <2> SUFFICES ASSUME Init PROVE Allocator!Init
    OBVIOUS
  <2>1. (0 .. total - 1) \ (map \cup {0}) = {}
    BY DEF Init
  <2>2. \A c \in Clients : Span(holds[c]) = {}
    BY DEF Init, Span, NoBlock
  <2> QED
    BY <2>1, <2>2 DEF Init, Allocator!Init
<1> QED
  BY <1>1, InitInv, NextInv, StepRefines, PTL
     DEF Spec, ImplementsAllocator, Allocator!Spec


----------------------------------------------------------------------------
(* Virtual memory is a client of PMM. *)

(* Every step of VMM.c and of the other clients is a call of PMM, or leaves *)
(* PMM alone.                                                               *)
LEMMA StepOfPMM == [VMMNext]_allVars => [Next]_vars
<1> SUFFICES ASSUME [VMMNext]_allVars PROVE [Next]_vars
  OBVIOUS
<1>1. CASE UNCHANGED allVars
  BY <1>1 DEF allVars
<1>2. CASE StartPMM
  BY <1>2 DEF StartPMM, Next
<1>3. CASE MallocDirectory \/ MallocTable
  BY <1>3, VMMAssumption DEF MallocDirectory, MallocTable, Next
<1>4. CASE VMM_init_fails \/ VMM_init_succeeds
  BY <1>4 DEF VMM_init_fails, VMM_init_succeeds
<1>5. CASE \E c \in Others, size \in Requests :
             ClientMalloc(c, size) \/ ClientFree(c, size)
  BY <1>5 DEF ClientMalloc, ClientFree, Others, Next
<1>6. CASE \E c \in Others : ClientWrite(c)
  BY <1>6 DEF ClientWrite
<1>7. CASE page_fault_handler \/ Retry
  BY <1>7 DEF page_fault_handler, Retry
<1> QED
  BY <1>1, <1>2, <1>3, <1>4, <1>5, <1>6, <1>7 DEF VMMNext

(* So what was proved of PMM with any clients holds when VMM_init and the   *)
(* users of mapped memory are the clients.                                  *)
THEOREM VMMImplementsPMM == VMMSpec => Spec
<1>1. VMMInit => Init
  BY DEF VMMInit
<1> QED
  BY <1>1, StepOfPMM, PTL DEF VMMSpec, Spec

(* Every marked frame is held by a client or was marked by PMM_init, also   *)
(* when VMM_init fails half way and keeps the one frame it got.             *)
THEOREM MemoryAccounted ==
    ASSUME SingleFrameRequests
    PROVE  VMMSpec => []MapAccounted
BY VMMImplementsPMM, PMMInvariant, PTL

(* No byte of the firmware's regions or of the frame bitmap is ever free or *)
(* held by a client of VMM's machine.                                       *)
THEOREM BootMemoryStaysMarked ==
    ASSUME SingleFrameRequests
    PROVE  VMMSpec => []BootMemoryMarked
BY VMMImplementsPMM, PMMInvariant, PTL

----------------------------------------------------------------------------
(* The inductive invariant.                                                 *)

(* A shelter is never marked, and every grant is below it. *)
BelowShelters(f) == \A q \in Shelters(machine) : f < q

GrantsBelow ==
    /\ \A q \in Shelters(machine) : q \notin map
    /\ \A c \in Clients : Holder(c) => BelowShelters(holds[c].pos)

(* What was ever written is no frame PMM_init marked, not frame 0, and      *)
(* below every shelter.                                                     *)
WrittenBelow ==
    \A f \in AllFrames : content[f] # Boot =>
        /\ f \notin MarkedAtInit(machine) \cup {0}
        /\ BelowShelters(f)

(* Paging is on: VMM_init holds the two frames, the tables are in them, and *)
(* the table maps every page to itself.                                     *)
TablesStand ==
    stage = "on" =>
        /\ Holder(dir) /\ Holder(table)
        /\ cr3 = holds[dir].pos
        /\ content[cr3] = "directory"
        /\ content[holds[table].pos] = "table"
        /\ entries = Filled

VMMInv ==
    /\ IInv
    /\ content \in [AllFrames -> {Boot, "directory", "table", "client"}]
    /\ GrantsBelow /\ WrittenBelow /\ TablesStand
    /\ GrantsAreMapped

LEMMA VMMInitInv == VMMInit => VMMInv
<1> SUFFICES ASSUME VMMInit PROVE VMMInv
  OBVIOUS
<1>1. IInv
  BY InitInv DEF VMMInit
<1>2. GrantsBelow /\ WrittenBelow /\ TablesStand /\ GrantsAreMapped
  BY DEF VMMInit, Init, GrantsBelow, WrittenBelow, TablesStand, GrantsAreMapped,
         Holder
<1> QED
  BY <1>1, <1>2 DEF VMMInv, VMMInit

(* The frames of a machine are frames of the address space. *)
LEMMA HeldInMemory ==
    ASSUME IInv, NEW c \in Clients, Holder(c)
    PROVE  /\ holds[c].pos \in AllFrames \ {0}
           /\ holds[c].pos \notin MarkedAtInit(machine)
           /\ holds[c].pos \in Nat
           /\ Span(holds[c]) = {holds[c].pos}
<1>1. status = "up" /\ machine \in Machines /\ total = total_frames(machine)
  BY DEF IInv, Started, TypeOK
<1>2. /\ holds[c].num = 1
      /\ holds[c].pos \in map \ (MarkedAtInit(machine) \cup {0})
  BY DEF IInv, HoldsOne
<1>3. total \in Nat /\ map \subseteq 0 .. total - 1
  BY DEF IInv, TypeOK
<1>4. total <= CeilDiv(AddressLimit, FrameSize)
  BY <1>1, TotalBelowLimit
<1>5. CeilDiv(AddressLimit, FrameSize) \in Nat
  BY CeilDivMonotone, LayoutAssumption
<1>6. holds[c].pos \in Nat
  BY <1>2, MapOfNats
<1>7. Span(holds[c]) = {holds[c].pos}
  BY <1>2, <1>6, SpanOfOne
<1> QED
  BY <1>2, <1>3, <1>4, <1>5, <1>6, <1>7 DEF AllFrames

(* A grant of PMM_malloc lies below every shelter: the search would have    *)
(* ended there.                                                             *)
LEMMA MallocBelow ==
    ASSUME IInv, GrantsBelow, SingleFrameRequests,
           NEW c \in Clients, NEW size \in Requests, PMM_malloc(c, size)
    PROVE  GrantsBelow'
<1>1. /\ status = "up" /\ ~Holder(c)
      /\ UNCHANGED <<machine, status, total>>
      /\ total = total_frames(machine) /\ total \in Nat
      /\ map \subseteq 0 .. total - 1
      /\ holds \in [Clients -> Blocks]
  BY MallocMarksOne DEF IInv, Started, TypeOK
<1> DEFINE n == _size2frame(size)
<1>2. PICK stray \in BOOLEAN :
         LET pos == Placed(n, stray)
             block == [pos |-> pos, num |-> n]
         IN  IF pos = NotFound
             THEN UNCHANGED <<used, map, holds>>
             ELSE /\ map' = bitset_set(map, Span(block))
                  /\ used' = Counted(n)
                  /\ holds' = IF pos * FrameSize = NULL THEN holds
                                     ELSE [holds EXCEPT ![c] = block]
  BY DEF PMM_malloc
<1>3. n \in {0, 1}
  BY OneFrame
<1> HIDE DEF n
<1> DEFINE f == Placed(n, stray)
<1>4. CASE f = NotFound
  BY <1>1, <1>2, <1>4 DEF GrantsBelow, BelowShelters, Holder
<1>5. CASE f # NotFound
  <2>1. f = bitset_find(map, total, n, stray)
    BY <1>5 DEF Placed
  <2>2. n = 1
    BY <1>3, <1>5, <2>1 DEF bitset_find
  <2>3. f \in (0 .. total - 1) \ map
    BY <1>1, <1>5, <2>1, <2>2, FindReturnsClearBit
  <2>4. ASSUME NEW q \in Shelters(machine) PROVE f < q
    <3>1. q \in Searched(total) /\ NoRoom(total, 1, q) /\ q \notin map
      BY <1>1 DEF Shelters, GrantsBelow
    <3>2. q \in Clear(map, total)
      BY <3>1 DEF Clear, bitset_test
    <3> QED
      BY <1>1, <1>5, <2>1, <2>2, <3>1, <3>2, FindStopsAtNoRoom
  <2> HIDE DEF f
  <2>5. map' = map \cup {f}
    <3>1. Span([pos |-> f, num |-> n]) = {f}
      BY <2>2, <2>3 DEF Span
    <3> QED
      BY <1>2, <1>5, <3>1 DEF bitset_set, f
  <2>6. holds' = holds \/ holds' = [holds EXCEPT ![c] = [pos |-> f, num |-> n]]
    BY <1>2, <1>5 DEF f
  <2>7. \A q \in Shelters(machine') : q \notin map'
    BY <1>1, <2>3, <2>4, <2>5 DEF GrantsBelow
  <2>8. ASSUME NEW d \in Clients, Holder(d)'
        PROVE  \A q \in Shelters(machine') : holds'[d].pos < q
    <3>1. CASE holds'[d] = holds[d]
      BY <1>1, <2>8, <3>1 DEF GrantsBelow, BelowShelters, Holder
    <3>2. CASE holds'[d].pos = f
      BY <1>1, <2>4, <3>2
    <3> QED
      BY <1>1, <2>6, <3>1, <3>2
  <2> QED
    BY <2>7, <2>8 DEF GrantsBelow, BelowShelters
<1> QED
  BY <1>4, <1>5

(* A shelter is not marked by PMM_init, and a free marks nothing. *)
LEMMA StartBelow == IInv /\ GrantsBelow /\ PMM_init => GrantsBelow'
<1> SUFFICES ASSUME IInv, GrantsBelow, PMM_init PROVE GrantsBelow'
  OBVIOUS
<1>1. machine' = machine /\ holds' = holds
      /\ (map' = map \/ map' = MarkedAtInit(machine))
  BY DEF PMM_init
<1> QED
  BY <1>1 DEF GrantsBelow, BelowShelters, Holder, Shelters

LEMMA FreeBelow ==
    ASSUME IInv, GrantsBelow, NEW c \in Clients, NEW size \in Requests,
           PMM_free(c, size)
    PROVE  GrantsBelow'
<1>1. /\ machine' = machine /\ map' \subseteq map
      /\ holds' = [holds EXCEPT ![c] = NoBlock]
      /\ holds \in [Clients -> Blocks]
  BY FreeUnmarksOne DEF IInv, TypeOK
<1> QED
  BY <1>1 DEF GrantsBelow, BelowShelters, Holder

(* Steps that leave PMM alone leave its part of the invariant alone. *)
LEMMA PMMUnchanged ==
    ASSUME IInv, GrantsBelow, UNCHANGED vars
    PROVE  IInv' /\ GrantsBelow'
BY DEF vars, IInv, TypeOK, UsedCountsMap, HoldsOne, HeldOnce, Started, Holder,
       GrantsBelow, BelowShelters

(* A step of a client of PMM that does not touch VMM's own state keeps the  *)
(* tables where they are, as long as VMM_init's frames stay with it.        *)
LEMMA VMMUnchanged ==
    ASSUME VMMInv, machine' = machine, UNCHANGED vmmVars,
           stage = "on" => holds'[dir] = holds[dir] /\ holds'[table] = holds[table]
    PROVE  /\ content' \in [AllFrames -> {Boot, "directory", "table", "client"}]
           /\ WrittenBelow' /\ TablesStand' /\ GrantsAreMapped'
<1>1. WrittenBelow' /\ GrantsAreMapped'
  BY DEF VMMInv, WrittenBelow, BelowShelters, GrantsAreMapped, vmmVars
<1>2. TablesStand'
  BY DEF VMMInv, TablesStand, Holder, vmmVars
<1> QED
  BY <1>1, <1>2 DEF VMMInv, vmmVars

(* VMM_init writes its tables to the two frames it holds. *)
LEMMA SucceedsInv ==
    ASSUME VMMInv, VMM_init_succeeds
    PROVE  VMMInv'
<1> USE DEF VMMInv
<1>1. UNCHANGED vars /\ cpu' = cpu /\ stage' = "on"
  BY DEF VMM_init_succeeds
<1>2. machine' = machine /\ holds' = holds
  BY <1>1 DEF vars
<1>3. Holder(dir) /\ Holder(table) /\ dir \in Clients /\ table \in Clients
  BY VMMAssumption DEF VMM_init_succeeds, Holder
<1>4. holds[dir].pos # holds[table].pos
  BY <1>3, VMMAssumption DEF IInv, HeldOnce
<1>5. ASSUME NEW c \in {dir, table}
      PROVE  /\ holds[c].pos \in AllFrames
             /\ holds[c].pos \notin MarkedAtInit(machine) \cup {0}
             /\ BelowShelters(holds[c].pos)
  BY <1>3, HeldInMemory DEF GrantsBelow
<1>6. /\ content' \in [AllFrames -> {Boot, "directory", "table", "client"}]
      /\ content'[holds[table].pos] = "table"
      /\ content'[holds[dir].pos] = "directory"
      /\ \A f \in AllFrames \ {holds[dir].pos, holds[table].pos} :
            content'[f] = content[f]
  BY <1>4, <1>5 DEF VMM_init_succeeds, Tables
<1>7. WrittenBelow'
  BY <1>2, <1>5, <1>6 DEF WrittenBelow, BelowShelters
<1>8. TablesStand'
  BY <1>2, <1>3, <1>6 DEF TablesStand, VMM_init_succeeds, Holder
<1>9. GrantsAreMapped'
  BY <1>1, <1>2 DEF GrantsAreMapped
<1> QED
  BY <1>1, <1>6, <1>7, <1>8, <1>9, PMMUnchanged

(* A client's write goes to a frame it holds: it is mapped on a sheltered   *)
(* machine, and holds neither table.                                        *)
LEMMA WriteInv ==
    ASSUME VMMInv, NEW c \in Others, ClientWrite(c)
    PROVE  VMMInv'
<1> USE DEF VMMInv
<1>1. /\ UNCHANGED <<vars, stage, entries, cr3>> /\ stage = "on" /\ cpu = "run"
      /\ Holder(c) /\ c \in Clients /\ c # dir /\ c # table
  BY DEF ClientWrite, Runs, Holder, Others
<1>2. machine' = machine /\ holds' = holds
  BY <1>1 DEF vars
<1> DEFINE f == holds[c].pos
<1>3. /\ f \in AllFrames \ {0} /\ f \notin MarkedAtInit(machine) /\ f \in Nat
      /\ Span(holds[c]) = {f} /\ BelowShelters(f)
  BY <1>1, HeldInMemory DEF GrantsBelow
<1>4. /\ Holder(dir) /\ Holder(table) /\ cr3 = holds[dir].pos
      /\ content[cr3] = "directory" /\ content[holds[table].pos] = "table"
      /\ entries = Filled
  BY <1>1 DEF TablesStand
<1>5. f # cr3 /\ f # holds[table].pos
  BY <1>1, <1>4, VMMAssumption DEF IInv, HeldOnce
<1> HIDE DEF f
<1>6. /\ DOMAIN entries = 0 .. PAGE_TABLE_ENTRIES - 1
      /\ \A i \in DOMAIN entries : entries[i] = i
  BY <1>4, VMMAssumption DEF Filled
<1>7. IF f \in 0 .. PAGE_TABLE_ENTRIES - 1
      THEN content' = [content EXCEPT ![f] = "client"] /\ cpu' = cpu
      ELSE cpu' = "fault" /\ content' = content
  BY <1>3, <1>4, <1>6 DEF ClientWrite, Mapped
<1>8. content' \in [AllFrames -> {Boot, "directory", "table", "client"}]
  BY <1>3, <1>7
<1>9. WrittenBelow'
  BY <1>2, <1>3, <1>7, <1>8 DEF WrittenBelow, BelowShelters
<1>10. TablesStand'
  <2>1. content'[cr3] = content[cr3]
        /\ content'[holds[table].pos] = content[holds[table].pos]
    <3>1. cr3 \in AllFrames /\ holds[table].pos \in AllFrames
      BY <1>4, HeldInMemory, VMMAssumption
    <3> QED
      BY <1>5, <1>7, <3>1
  <2> QED
    BY <1>1, <1>2, <1>4, <2>1 DEF TablesStand, Holder
<1>11. GrantsAreMapped'
  <2> SUFFICES ASSUME Sheltered(machine) PROVE cpu' = "run"
    BY <1>2 DEF GrantsAreMapped
  <2>1. PICK q \in Shelters(machine) : q <= PAGE_TABLE_ENTRIES
    BY DEF Sheltered
  <2>2. q \in Int
    BY WordBitsAssumption DEF Shelters, Searched
  <2>3. f < q
    BY <1>3 DEF BelowShelters
  <2>4. f \in 0 .. PAGE_TABLE_ENTRIES - 1
    BY <1>3, <2>1, <2>2, <2>3, VMMAssumption
  <2> QED
    BY <1>1, <1>7, <2>4
<1> QED
  BY <1>1, <1>8, <1>9, <1>10, <1>11, PMMUnchanged

LEMMA VMMNextInv ==
    ASSUME SingleFrameRequests
    PROVE  VMMInv /\ [VMMNext]_allVars => VMMInv'
<1> SUFFICES ASSUME VMMInv, [VMMNext]_allVars PROVE VMMInv'
  OBVIOUS
<1>1. IInv'
  BY StepOfPMM, NextInv DEF VMMInv
<1>2. CASE UNCHANGED <<vars, vmmVars>>
  BY <1>2, PMMUnchanged, VMMUnchanged DEF VMMInv, vars
<1>3. CASE StartPMM
  BY <1>1, <1>3, StartBelow, VMMUnchanged DEF StartPMM, PMM_init, VMMInv
<1>4. CASE MallocDirectory \/ MallocTable
  <2>1. PICK c \in Clients : /\ PMM_malloc(c, FrameSize) /\ FrameSize \in Requests
                             /\ UNCHANGED <<content, entries, cr3, cpu>>
                             /\ stage' # "on"
    BY <1>4, VMMAssumption DEF MallocDirectory, MallocTable
  <2>2. GrantsBelow' /\ machine' = machine
    BY <2>1, MallocBelow DEF VMMInv, PMM_malloc
  <2>3. WrittenBelow' /\ TablesStand' /\ GrantsAreMapped'
    BY <2>1, <2>2 DEF VMMInv, WrittenBelow, BelowShelters, TablesStand, GrantsAreMapped
  <2> QED
    BY <1>1, <2>1, <2>2, <2>3 DEF VMMInv
<1>5. CASE VMM_init_fails
  <2>1. UNCHANGED <<vars, content, entries, cr3, cpu>> /\ stage' # "on"
    BY <1>5 DEF VMM_init_fails
  <2>2. machine' = machine
    BY <2>1 DEF vars
  <2>3. WrittenBelow' /\ TablesStand' /\ GrantsAreMapped'
    BY <2>1, <2>2 DEF VMMInv, WrittenBelow, BelowShelters, TablesStand, GrantsAreMapped
  <2> QED
    BY <1>1, <2>1, <2>3, PMMUnchanged DEF VMMInv
<1>6. CASE VMM_init_succeeds
  BY <1>6, SucceedsInv
<1>7. ASSUME NEW c \in Others, NEW size \in Requests, ClientMalloc(c, size)
      PROVE  VMMInv'
  <2>1. /\ PMM_malloc(c, size) /\ UNCHANGED vmmVars
        /\ c \in Clients /\ c # dir /\ c # table
    BY <1>7 DEF ClientMalloc, Others
  <2>2. GrantsBelow' /\ machine' = machine
    BY <2>1, MallocBelow DEF VMMInv, PMM_malloc
  <2>3. holds'[dir] = holds[dir] /\ holds'[table] = holds[table]
    BY <2>1, MallocMarksOne, VMMAssumption DEF VMMInv, IInv, TypeOK
  <2> QED
    BY <1>1, <2>1, <2>2, <2>3, VMMUnchanged DEF VMMInv
<1>8. ASSUME NEW c \in Others, NEW size \in Requests, ClientFree(c, size)
      PROVE  VMMInv'
  <2>1. /\ PMM_free(c, size) /\ UNCHANGED vmmVars
        /\ c \in Clients /\ c # dir /\ c # table
    BY <1>8 DEF ClientFree, Others
  <2>2. GrantsBelow' /\ machine' = machine
    BY <2>1, FreeBelow DEF VMMInv, PMM_free
  <2>3. holds'[dir] = holds[dir] /\ holds'[table] = holds[table]
    BY <2>1, FreeUnmarksOne, VMMAssumption DEF VMMInv, IInv, TypeOK
  <2> QED
    BY <1>1, <2>1, <2>2, <2>3, VMMUnchanged DEF VMMInv
<1>9. ASSUME NEW c \in Others, ClientWrite(c) PROVE VMMInv'
  BY <1>9, WriteInv
<1>10. CASE page_fault_handler \/ Retry
  <2>1. UNCHANGED <<vars, stage, content, entries, cr3>> /\ cpu # "run"
    BY <1>10 DEF page_fault_handler, Retry
  <2>2. machine' = machine /\ holds' = holds
    BY <2>1 DEF vars
  <2>3. WrittenBelow' /\ TablesStand' /\ GrantsAreMapped'
    BY <2>1, <2>2 DEF VMMInv, WrittenBelow, BelowShelters, TablesStand,
                      GrantsAreMapped, Holder
  <2> QED
    BY <1>1, <2>1, <2>3, PMMUnchanged DEF VMMInv
<1> QED
  BY <1>2, <1>3, <1>4, <1>5, <1>6, <1>7, <1>8, <1>9, <1>10 DEF VMMNext, allVars

----------------------------------------------------------------------------
(* On a sheltered machine nobody overwrites the kernel, its bitmap or its   *)
(* stack, and on any machine nobody overwrites the active page tables,      *)
(* whatever clients there are and however often they allocate, write and    *)
(* free (VMM.c:96, PMM.c:73).                                               *)
THEOREM NobodyOverwrites ==
    ASSUME SingleFrameRequests
    PROVE  VMMSpec => []NothingOverwritten
<1>1. VMMInv => NothingOverwritten
  <2> SUFFICES ASSUME VMMInv PROVE NothingOverwritten
    OBVIOUS
  <2> USE DEF VMMInv
  <2>1. machine \in Machines
    BY DEF IInv, TypeOK
  <2>2. ASSUME Sheltered(machine),
               NEW f \in KernelImage(machine) \cup BitmapFrames(machine) \cup {0}
        PROVE  content[f] = Boot
    <3>1. f \in AllFrames
      <4>1. f = 0 \/ f \in 0 .. total_frames(machine) - 1
        BY <2>1, MachinesAssumption
      <4>2. /\ total_frames(machine) \in Nat
            /\ total_frames(machine) <= CeilDiv(AddressLimit, FrameSize)
            /\ CeilDiv(AddressLimit, FrameSize) \in Nat
        BY <2>1, MarkedInside, TotalBelowLimit, CeilDivMonotone, LayoutAssumption
      <4> QED
        BY <4>1, <4>2 DEF AllFrames
    <3>2. CASE f \in BitmapFrames(machine) \cup {0}
      BY <3>1, <3>2 DEF WrittenBelow, MarkedAtInit
    <3>3. CASE f \in KernelImage(machine)
      <4>1. PICK q \in Shelters(machine) : q <= KernelHimem \div FrameSize
        BY <2>2 DEF Sheltered
      <4>2. q \in Int
        BY WordBitsAssumption DEF Shelters, Searched
      <4>3. KernelHimem \div FrameSize \in Nat
        BY LayoutAssumption, FrameSizeAssumption, DivBounds
      <4>4. f \in Int /\ KernelHimem \div FrameSize <= f
        BY <3>3, <4>3 DEF KernelImage, Frames
      <4>5. ~(f < q)
        BY <4>1, <4>2, <4>3, <4>4
      <4> QED
        BY <3>1, <4>5 DEF WrittenBelow, BelowShelters
    <3> QED
      BY <3>2, <3>3
  <2> QED
    BY <2>2 DEF NothingOverwritten, TablesStand
<1> QED
  BY <1>1, VMMInitInv, VMMNextInv, PTL DEF VMMSpec

(* On a sheltered machine no client of PMM ends in the page fault handler's *)
(* loop by writing to memory it was given (VMM.c:67, VMM.c:96).             *)
THEOREM GrantsStayMapped ==
    ASSUME SingleFrameRequests
    PROVE  VMMSpec => []GrantsAreMapped
<1>1. VMMInv => GrantsAreMapped
  BY DEF VMMInv
<1> QED
  BY <1>1, VMMInitInv, VMMNextInv, PTL DEF VMMSpec

(* The numbers of the build, and a firmware that reports as available the   *)
(* frame at 14000h and at least 128 KB: the machine is sheltered.  Bit 20   *)
(* is where the search for room looks beyond 4 GB of frames.                *)
THEOREM PCIsSheltered ==
    ASSUME WordBits = 32, FrameSize = 2^12, AddressLimit = 2^32,
           KernelSeg = 2^12, KernelHimem = 2^20, PAGE_TABLE_ENTRIES = 1024,
           NEW m \in Machines, m.kernel_size <= 2^16, total_frames(m) >= 32,
           \A e \in m.regions :
               SanitizedType(e) # AVAILABLE => 20 \notin Frames(e.base, e.length)
    PROVE  Sheltered(m)
<1> DEFINE n == total_frames(m)
<1>1. n \in Nat /\ n <= 2^20
  BY MarkedInside, TotalBelowLimit DEF CeilDiv
<1>2. m.kernel_size \in Nat
  BY MachinesAssumption
<1>3. 20 \in Searched(n)
  <2> HIDE DEF n
  <2> QED
    BY <1>1 DEF Searched, n
<1>4. NoRoom(n, 1, 20)
  <2>1. StartPos(20) = 2^20
    BY DEF StartPos
  <2> QED
    BY <1>1, <2>1 DEF NoRoom
<1>5. 20 \notin FirmwareFrames(m)
  <2> SUFFICES ASSUME NEW r \in sanitized(m), r.type # AVAILABLE,
                      20 \in Frames(r.base, r.length)
               PROVE  FALSE
    BY DEF FirmwareFrames
  <2>1. PICK e \in m.regions : r = [e EXCEPT !.type = SanitizedType(e)]
    BY DEF sanitized
  <2>2. r.base = e.base /\ r.length = e.length
    BY <2>1
  <2>3. SanitizedType(e) # AVAILABLE
    <3>1. r.type = SanitizedType(e) \/ r.type = e.type
      BY <2>1
    <3> QED
      BY <3>1 DEF SanitizedType, RESERVED, AVAILABLE
  <2> QED
    BY <2>2, <2>3
<1>6. 20 \notin KernelPart(m)
  BY <1>2 DEF KernelPart, Frames, CeilDiv
<1>7. 20 \notin BitmapFrames(m)
  <2> DEFINE k == KernelHimem + m.kernel_size
             a == bitmap_paddr(m)
  <2>1. k \in Nat /\ k >= 2^20
    BY <1>2
  <2>2. a \in Nat /\ a >= k
    <3> HIDE DEF k
    <3>1. k + FramesPerByte - 1 \in Nat /\ FramesPerByte \in Nat \ {0}
      BY <2>1, LayoutAssumption
    <3> DEFINE d == (k + FramesPerByte - 1) \div FramesPerByte
    <3>2. d \in Nat /\ k + FramesPerByte - 1 < FramesPerByte * d + FramesPerByte
      BY <3>1, DivBounds
    <3>3. a = d * FramesPerByte
      BY DEF bitmap_paddr, align_up, CeilDiv, k
    <3> HIDE DEF d, a
    <3>4. d * FramesPerByte \in Nat /\ d * FramesPerByte = FramesPerByte * d
      BY <3>1, <3>2
    <3> QED
      BY <2>1, <3>1, <3>2, <3>3, <3>4
  <2> HIDE DEF a, k
  <2>3. a \div 2^12 >= 256
    BY <2>1, <2>2
  <2>4. CeilDiv(a + mem_map_size(m), FrameSize) \in Nat
    <3>1. mem_map_size(m) \in Nat
      <4>1. n + FramesPerByte - 1 \in Nat
        BY <1>1, LayoutAssumption
      <4> QED
        BY <4>1, LayoutAssumption, DivBounds DEF mem_map_size, CeilDiv
    <3> QED
      BY <2>2, <3>1, CeilDivMonotone
  <2> QED
    BY <2>2, <2>3, <2>4 DEF BitmapFrames, Frames, a
<1>8. 20 \in Shelters(m)
  BY <1>3, <1>4, <1>5, <1>6, <1>7 DEF Shelters, MarkedAtInit
<1>9. 20 <= KernelHimem \div FrameSize
  OBVIOUS
<1> QED
  BY <1>8, <1>9 DEF Sheltered
=============================================================================
