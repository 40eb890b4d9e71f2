------------------------------- MODULE Bitset -------------------------------
(* lib/bitset.c.  A bitset is the set of its bits that are 1; bit b is bit  *)
(* b % WordBits of word b \div WordBits, so setting and clearing a bit are  *)
(* union and difference.  bitset_find is the search the frame allocator     *)
(* uses.                                                                    *)
EXTENDS Integers, FiniteSetsExt

CONSTANT WordBits     \* BITSET_SIZE: 32

ASSUME WordBitsAssumption == WordBits \in Nat \ {0}

NotFound == -1

(* Setting or clearing every bit of the set bs, in whatever order. *)
bitset_set(bits, bs) == bits \cup bs
bitset_clear(bits, bs) == bits \ bs
bitset_test(bits, b) == b \in bits

(* Only whole words are searched. *)
Searched(bitset_size) == 0 .. (bitset_size \div WordBits) * WordBits - 1

(* The seeded fault of a search that forgets to look at the bit itself. *)
Clear_Unchecked(bits, bitset_size) == Searched(bitset_size)

Clear(bits, bitset_size) == {p \in Searched(bitset_size) : ~bitset_test(bits, p)}

(* Where the code probes for room after it found bit p clear: it adds the   *)
(* mask of the bit, 2^j, to the word's first bit, where p is that plus j.   *)
StartPos(p) == (p \div WordBits) * WordBits + 2 ^ (p % WordBits)

(* Bits StartPos(p) .. StartPos(p) + size are counted, one more than size,  *)
(* and adjacent or not; the last may be the bit after the bitset, which     *)
(* then reads as stray.                                                     *)
Probe(bits, bitset_size, size, p, stray) ==
    {b \in StartPos(p) .. StartPos(p) + size :
        IF b < bitset_size THEN ~bitset_test(bits, b) ELSE ~stray}

NoRoom(bitset_size, size, p) == StartPos(p) + size > bitset_size

Hit(bits, bitset_size, size, p, stray) ==
    Cardinality(Probe(bits, bitset_size, size, p, stray)) >= size

(* The seeded fault of an index that is one too high. *)
bitset_find_NextBit(bits, bitset_size, size, stray) ==
    LET ends == {p \in Clear(bits, bitset_size) :
                    \/ NoRoom(bitset_size, size, p)
                    \/ Hit(bits, bitset_size, size, p, stray)}
    IN  IF size = 0 \/ ends = {} \/ NoRoom(bitset_size, size, Min(ends))
        THEN NotFound
        ELSE Min(ends) + 1

(* The seeded fault of going on after a bit that has no room. *)
bitset_find_GoesOn(bits, bitset_size, size, stray) ==
    LET hits == {p \in Clear(bits, bitset_size) :
                    /\ ~NoRoom(bitset_size, size, p)
                    /\ Hit(bits, bitset_size, size, p, stray)}
    IN  IF size = 0 \/ hits = {} THEN NotFound ELSE Min(hits)

(* The search ends at the first clear bit that either has no room after its *)
(* start position (nothing is found) or passes the probe (it is returned).  *)
bitset_find(bits, bitset_size, size, stray) ==
    LET ends == {p \in Clear(bits, bitset_size) :
                    \/ NoRoom(bitset_size, size, p)
                    \/ Hit(bits, bitset_size, size, p, stray)}
    IN  IF size = 0 \/ ends = {} \/ NoRoom(bitset_size, size, Min(ends))
        THEN NotFound
        ELSE Min(ends)
=============================================================================
