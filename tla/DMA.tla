--------------------------------- MODULE DMA ---------------------------------
(***************************************************************************)
(* dma.c: one channel of the 8237, as the records its registers are.  An   *)
(* operator takes the channel as it is and returns it as the function of   *)
(* that name leaves it.                                                    *)
(***************************************************************************)
EXTENDS Integers

CONSTANT DmaByte   \* a register is written in digits of this size: 256

ASSUME DmaByteAssumption == DmaByte \in Nat \ {0}

\* The address counts within a page, which a register of its own selects.
DmaPage == DmaByte * DmaByte

(***************************************************************************)
(* addr and count hold their low and high bytes; flipflop says that the    *)
(* next byte written to either is a high one.  It is one for all channels  *)
(* and nobody knows what it is when a driver starts.                       *)
(***************************************************************************)
Bytes == 0..(DmaByte - 1)
Channels == [addr : [low : Bytes, high : Bytes], count : [low : Bytes, high : Bytes],
             page : Bytes, flipflop : BOOLEAN, masked : BOOLEAN,
             mode : {"none", "to_memory", "from_memory"}]

TwoWrites(flipflop, first, second) ==
  IF flipflop THEN [low |-> second, high |-> first]
              ELSE [low |-> first, high |-> second]

dma_mask_channel(c) == [c EXCEPT !.masked = TRUE]
dma_unmask_channel(c) == [c EXCEPT !.masked = FALSE]
dma_reset_flipflop(c) == [c EXCEPT !.flipflop = FALSE]

dma_set_address(c, low, high) ==
  [c EXCEPT !.addr = TwoWrites(c.flipflop, low, high)]
dma_set_count(c, low, high) ==
  [c EXCEPT !.count = TwoWrites(c.flipflop, low, high)]
dma_set_external_page_register(c, val) == [c EXCEPT !.page = val]

dma_set_mode(c, mode) ==
  dma_unmask_channel([dma_mask_channel(c) EXCEPT !.mode = mode])

\* What dma.c calls a read transfer the chip calls a write: into memory.
dma_set_read(c) == dma_set_mode(c, "to_memory")

(***************************************************************************)
(* What a transfer of the whole count does (the chip): it starts at the    *)
(* page and address, and the address wraps inside the page.                *)
(***************************************************************************)
Value(digits) == digits.low + DmaByte * digits.high
Start(c) == c.page * DmaPage + Value(c.addr)
Length(c) == Value(c.count) + 1
Straight(c) == Value(c.addr) + Value(c.count) < DmaPage
Enabled(c) == ~c.masked /\ c.mode = "to_memory"
=============================================================================
