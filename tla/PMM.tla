--------------------------------- MODULE PMM ---------------------------------
(* The physical memory manager, arch/x86/mmu/PMM.c: a bitset of frames and  *)
(* a count of the used ones.  Clients are the places in the kernel that     *)
(* keep what PMM_malloc returned until they pass it to PMM_free.            *)
EXTENDS MemoryMap, Bitset

CONSTANTS Machines,   \* the machines the kernel may find itself on
          Clients,    \* those who call PMM_malloc and PMM_free
          Requests    \* the sizes in bytes they ask for

NULL == 0             \* frame 0 has the address NULL

ASSUME RequestsAssumption == Requests \subseteq Nat

(* The map of a real machine: at least one region, addresses below the      *)
(* limit, and memory to hold the kernel and the frame bitmap.               *)
ASSUME MachinesAssumption ==
    \A m \in Machines :
        /\ m.kernel_size \in Nat
        /\ \A e \in m.regions : /\ e.base \in Nat /\ e.length \in Nat
                                /\ e.hi \in BOOLEAN /\ e.type \in Nat
                                /\ End(e) <= AddressLimit
        /\ \E e \in m.regions : \A r \in m.regions : End(r) <= End(e)
        /\ KernelPart(m) \cup KernelImage(m) \cup BitmapFrames(m)
             \subseteq 0 .. total_frames(m) - 1

NoBlock == [pos |-> -1, num |-> 0]

VARIABLES machine,    \* the machine, fixed when the kernel boots
          status,     \* "boot", "up" (PMM_init done) or "panic"
          total,      \* g_PMM_total_frames
          used,       \* g_PMM_used_frames
          map,        \* g_PMM_frames_map: the frames whose bit is set
          holds       \* holds[c]: the block c got from PMM_malloc, or NoBlock

vars == <<machine, status, total, used, map, holds>>

Span(b) == b.pos .. b.pos + b.num - 1
Blocks == [pos : Nat, num : Nat \ {0}] \cup {NoBlock}

TypeOK ==
    /\ machine \in Machines
    /\ status \in {"boot", "up", "panic"}
    /\ total \in Nat
    /\ used \in 0 .. total
    /\ map \subseteq 0 .. total - 1
    /\ holds \in [Clients -> Blocks]

Init ==
    /\ machine \in Machines
    /\ status = "boot"
    /\ total = 0
    /\ used = 0
    /\ map = {}
    /\ holds = [c \in Clients |-> NoBlock]

(* boot_info_sanitize and PMM_init: mark what must not be given away. *)
PMM_init ==
    /\ status = "boot"
    /\ IF Above4GB(machine)
       THEN status' = "panic" /\ UNCHANGED <<total, used, map>>
       ELSE /\ status' = "up"
            /\ total' = total_frames(machine)
            /\ map' = MarkedAtInit(machine)
            /\ used' = Cardinality(MarkedAtInit(machine))
    /\ UNCHANGED <<machine, holds>>

_size2frame(size) == size \div FrameSize + (IF size % FrameSize # 0 THEN 1 ELSE 0)

PMM_frames_free == total - used

(* Where the search puts a request of n frames, when it is made at all. *)
Placed(n, stray) ==
    IF PMM_frames_free < n THEN NotFound ELSE bitset_find(map, total, n, stray)

(* The counter after n frames are granted, and after n are given back; and  *)
(* the seeded fault of forgetting the latter.                               *)
Counted(n) == used + n
Uncounted_Forgotten(n) == used
Uncounted(n) == used - n

(* PMM_malloc: mark the frames and hand over the block.  A block at frame 0 *)
(* has the address NULL, which every caller takes for a failure.            *)
PMM_malloc(c, size) ==
    /\ status = "up"
    /\ holds[c] = NoBlock
    /\ \E stray \in BOOLEAN :
         LET n == _size2frame(size)
             pos == Placed(n, stray)
             block == [pos |-> pos, num |-> n]
         IN  IF pos = NotFound
             THEN UNCHANGED <<used, map, holds>>
             ELSE /\ map' = bitset_set(map, Span(block))
                  /\ used' = Counted(n)
                  /\ holds' = IF pos * FrameSize = NULL THEN holds
                                     ELSE [holds EXCEPT ![c] = block]
    /\ UNCHANGED <<machine, status, total>>

(* PMM_free, called as its callers may: with a block that PMM_malloc gave   *)
(* them and a size that makes as many frames.                               *)
PMM_free(c, size) ==
    /\ status = "up"
    /\ holds[c] # NoBlock
    /\ _size2frame(size) = holds[c].num
    /\ IF used < holds[c].num
       THEN status' = "panic" /\ UNCHANGED <<used, map>>
       ELSE /\ map' = bitset_clear(map, Span(holds[c]))
            /\ used' = Uncounted(holds[c].num)
            /\ UNCHANGED status
    /\ holds' = [holds EXCEPT ![c] = NoBlock]
    /\ UNCHANGED <<machine, total>>

Next ==
    \/ PMM_init
    \/ \E c \in Clients, size \in Requests :
         PMM_malloc(c, size) \/ PMM_free(c, size)

Spec == Init /\ [][Next]_vars

----------------------------------------------------------------------------
HeldFrames == UNION {Span(holds[c]) : c \in Clients}

(* The counter that guards PMM_malloc and PMM_free, and that the boot log   *)
(* shows, agrees with the bitset after any sequence of calls.               *)
UsedCountsMap == used = Cardinality(map)

(* Every marked frame is held by a client or was marked by PMM_init, apart  *)
(* from frame 0, which is lost when it is granted as NULL; and a frame that *)
(* PMM_init marked is never unmarked or given to a client.                  *)
MapAccounted ==
    status = "up" =>
        /\ map \ {0} = (MarkedAtInit(machine) \cup HeldFrames) \ {0}
        /\ MarkedAtInit(machine) \cap HeldFrames = {}

(* No byte of a region the firmware did not call available, and no byte of  *)
(* the frame bitmap itself, is ever in a frame that is free or held: the    *)
(* rounding of PMM_init covers partial frames at both ends.                 *)
BootMemoryMarked ==
    status = "up" =>
        LET bytes == bitmap_paddr(machine)
                        .. bitmap_paddr(machine) + mem_map_size(machine) - 1
                     \cup UNION {e.base .. End(e) - 1 :
                               e \in {r \in machine.regions : r.type # AVAILABLE}}
        IN  \A a \in bytes : a \div FrameSize \in map \ HeldFrames

(* PMM_free's panic is for callers that free what they were not given: a    *)
(* client that frees its own block never sees it.                           *)
OwnFreeIsSafe ==
    \A c \in Clients : status = "up" /\ holds[c] # NoBlock => holds[c].num <= used

(* The bitset and its counter implement the allocator the clients rely on:  *)
(* no frame is given to two clients, none is given that is not free, and    *)
(* what is freed can be given again.                                        *)
Allocator ==
    INSTANCE FrameAllocator
        WITH AllFrames <- 0 .. CeilDiv(AddressLimit, FrameSize),
             started <- status # "boot",
             avail <- (0 .. total - 1) \ (map \cup {0}),
             held <- [c \in Clients |-> Span(holds[c])]

ImplementsAllocator == Allocator!Spec

(* PMM.h:3 promises "continuos mem areas": the areas of two callers do not  *)
(* overlap.                                                                 *)
AreasDisjoint ==
    \A c, d \in Clients : c # d => Span(holds[c]) \cap Span(holds[d]) = {}
=============================================================================
