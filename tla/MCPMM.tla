-------------------------------- MODULE MCPMM --------------------------------
(* Small machines for VMM: 15 to 24 frames of 8 bytes, words of 5 bits, the *)
(* kernel loaded at frame 1 and moved to frame 12, the first 16 frames      *)
(* mapped.                                                                  *)
EXTENDS VMM, TLC

Entry(base, length, type) ==
    [base |-> base, length |-> length, hi |-> FALSE, type |-> type]

(* Ordinary PC: a reserved area below the kernel and a firmware area at the *)
(* top, neither a whole number of frames.  Frame 9 shelters the kernel and  *)
(* what is not mapped.                                                      *)
PC == [regions |-> {Entry(0, 44, 1), Entry(44, 6, 2), Entry(50, 114, 1),
                    Entry(164, 4, 3)},
       kernel_size |-> 12]

(* The same with little low memory: three frames to give away, then the     *)
(* shelter.  A search that went on would give away 12, the kernel, 15 and   *)
(* 16 and more, which are not mapped.                                       *)
Few == [regions |-> {Entry(0, 8, 2), Entry(8, 32, 1), Entry(40, 32, 2),
                     Entry(72, 8, 1), Entry(80, 16, 2), Entry(96, 72, 1)},
        kernel_size |-> 8]

(* Memory, a hole, the firmware's area at the very top, and a kernel small  *)
(* enough to leave frame 2 free, so that frame 0 is granted as NULL.        *)
Hole == [regions |-> {Entry(0, 72, 1), Entry(168, 16, 5)},
         kernel_size |-> 4]

(* Frame 0 reserved, an odd end of memory, a bad type to be sanitized. *)
Odd == [regions |-> {Entry(0, 4, 0), Entry(4, 111, 1), Entry(115, 5, 4)},
        kernel_size |-> 8]

Big == [regions |-> {Entry(0, 128, 1),
                     [base |-> 0, length |-> 8, hi |-> TRUE, type |-> 1]},
        kernel_size |-> 8]

(* Three frames to give away, 2, 4 and 5.  Frame 5 is never found, and 4    *)
(* only if the bit after the bitset reads clear: VMM_init gets one or two.  *)
Tiny == [regions |-> {Entry(0, 16, 2), Entry(16, 8, 1), Entry(24, 8, 2),
                      Entry(32, 16, 1), Entry(48, 88, 2)},
         kernel_size |-> 8]

(* Little low memory, much above: nothing shelters the kernel, and frames   *)
(* are granted that are not mapped.                                         *)
Wide == [regions |-> {Entry(0, 40, 1), Entry(40, 56, 2), Entry(96, 96, 1)},
         kernel_size |-> 12]

(* The callers besides VMM_init are alike. *)
Alike == Permutations(Others)

SmallMachines == {PC, Few, Hole, Odd, Big, Tiny, Wide}
=============================================================================
