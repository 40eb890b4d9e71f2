------------------------------ MODULE MemoryMap ------------------------------
(* How the kernel reads the firmware's memory map at boot: the sanitizing   *)
(* of bios/boot_info.c and the frame arithmetic of PMM_init in              *)
(* arch/x86/mmu/PMM.c.  A machine is a record                               *)
(*   [regions |-> the E820 entries, kernel_size |-> bytes of the kernel],   *)
(* an entry [base, length, hi, type], where hi says that one of the upper   *)
(* halves of base and length is not zero.                                   *)
EXTENDS Integers

CONSTANTS FrameSize,      \* PMM_FRAME_SIZE: 4096
          FramesPerByte,  \* PMM_MEM_MAP_FRAMES_PER_BYTE: 8
          AddressLimit,   \* one past the last physical address: 2^32
          KernelSeg,      \* KERNEL_SEG: where the boot loader put the kernel
          KernelHimem     \* KERNEL_HIMEM: where it moved it and where it runs

ASSUME FrameSizeAssumption == FrameSize \in Nat \ {0}
ASSUME LayoutAssumption ==
    /\ FramesPerByte \in Nat \ {0}
    /\ AddressLimit \in Nat
    /\ KernelSeg \in Nat
    /\ KernelHimem \in Nat

(* MEM_MAP_TYPE_* of bios/boot_info.h. *)
ERROR == 0
AVAILABLE == 1
RESERVED == 2
BAD == 5

CeilDiv(a, b) == (a + b - 1) \div b
align_up(value, align) == CeilDiv(value, align) * align

(* boot_info_sanitize: what PMM_init finds in an entry's type. *)
SanitizedType(e) ==
    IF e.type >= BAD \/ e.type = ERROR THEN RESERVED ELSE e.type

sanitized(m) == {[e EXCEPT !.type = SanitizedType(e)] : e \in m.regions}

End(e) == e.base + e.length

(* PMM_init gives up on a map that does not fit 32 bits. *)
Above4GB(m) == \E e \in m.regions : e.hi

(* The frames up to the end of the highest region, holes included. *)
total_frames(m) ==
    LET ends == {End(e) : e \in m.regions}
        high_end == CHOOSE h \in ends : \A x \in ends : x <= h
    IN  CeilDiv(high_end, FrameSize)

(* The frames that hold any byte of first .. first + bytes - 1. *)
Frames(first, bytes) ==
    first \div FrameSize .. CeilDiv(first + bytes, FrameSize) - 1

mem_map_size(m) == CeilDiv(total_frames(m), FramesPerByte)
bitmap_paddr(m) == align_up(KernelHimem + m.kernel_size, FramesPerByte)

(* The seeded fault of marking one of the unavailable types only. *)
FirmwareFrames_ReservedOnly(m) ==
    UNION {Frames(e.base, e.length) :
              e \in {r \in sanitized(m) : r.type = RESERVED}}

FirmwareFrames(m) ==
    UNION {Frames(e.base, e.length) :
              e \in {r \in sanitized(m) : r.type # AVAILABLE}}

(* "mark the kernel part": _start.c passes KERNEL_SEG as kernel_start. *)
KernelPart(m) == Frames(KernelSeg, m.kernel_size)
BitmapFrames(m) == Frames(bitmap_paddr(m), mem_map_size(m))

MarkedAtInit(m) == FirmwareFrames(m) \cup KernelPart(m) \cup BitmapFrames(m)

(* Where the kernel is when PMM_init runs. *)
KernelImage(m) == Frames(KernelHimem, m.kernel_size)
=============================================================================
