--------------------------------- MODULE VMM ---------------------------------
(* Virtual memory, arch/x86/mmu/VMM.c, on top of the frames of PMM: VMM_init *)
(* asks for two frames, writes a page directory and a page table there that  *)
(* map the first pages to themselves, and turns paging on.  From then on     *)
(* other clients ask for frames and write to them through the page table.    *)
EXTENDS PMM

CONSTANTS LowEntries,           \* the entries of the first 1 MB: 256
          PAGE_TABLE_ENTRIES,   \* 1024
          dir, table            \* VMM_init as a client of PMM

ASSUME VMMAssumption ==
    /\ LowEntries \in Nat /\ PAGE_TABLE_ENTRIES \in Nat
    /\ LowEntries <= PAGE_TABLE_ENTRIES
    /\ {dir, table} \subseteq Clients /\ dir # table
    /\ FrameSize \in Requests

AllFrames == 0 .. CeilDiv(AddressLimit, FrameSize)

VARIABLES stage,      \* where VMM_init is, then "on" or "panic"
          content,    \* content[f]: what was last written to frame f
          entries,    \* page_table->entries: page -> frame, if present
          cr3,        \* the frame of the active page directory
          cpu         \* "run", or a write that faults: "fault", then "retry"

vmmVars == <<stage, content, entries, cr3, cpu>>
allVars == <<vars, vmmVars>>

Boot == "boot"        \* what the firmware and the boot loader left there

VMMInit ==
    /\ Init
    /\ stage = "dir"
    /\ content = [f \in AllFrames |-> Boot]
    /\ entries = <<>>
    /\ cr3 = NULL
    /\ cpu = "run"

StartPMM == PMM_init /\ UNCHANGED vmmVars

(* VMM_init asks for both frames before it looks at either. *)
MallocDirectory ==
    /\ stage = "dir" /\ PMM_malloc(dir, FrameSize)
    /\ stage' = "table"
    /\ UNCHANGED <<content, entries, cr3, cpu>>

MallocTable ==
    /\ stage = "table" /\ PMM_malloc(table, FrameSize)
    /\ stage' = "test"
    /\ UNCHANGED <<content, entries, cr3, cpu>>

(* It returns false, nothing is given back, and _start_init panics. *)
VMM_init_fails ==
    /\ stage = "test"
    /\ \E c \in {dir, table} : holds[c] = NoBlock
    /\ stage' = "panic"
    /\ UNCHANGED <<vars, content, entries, cr3, cpu>>

(* The two loops over page_table->entries. *)
Filled == [i \in (0 .. LowEntries - 1)
                   \cup (LowEntries .. PAGE_TABLE_ENTRIES - 1) |-> i]

Tables == [f \in {holds[dir].pos, holds[table].pos} |->
              IF f = holds[table].pos THEN "table" ELSE "directory"]

(* memset, the loops, entry 0 of the directory, the page fault handler,     *)
(* VMM_switch_page_directory and VMM_enable_paging.                         *)
VMM_init_succeeds ==
    /\ stage = "test"
    /\ \A c \in {dir, table} : holds[c] # NoBlock
    /\ content' = [f \in AllFrames |->
                      IF f \in DOMAIN Tables THEN Tables[f] ELSE content[f]]
    /\ entries' = Filled
    /\ cr3' = holds[dir].pos
    /\ stage' = "on"
    /\ UNCHANGED <<vars, cpu>>

----------------------------------------------------------------------------
(* The processor walks directory and table; both have to be what VMM_init   *)
(* wrote.                                                                   *)
Mapped == IF content[cr3] = "directory" /\ content[holds[table].pos] = "table"
          THEN DOMAIN entries ELSE {}

Others == Clients \ {dir, table}
Runs == stage = "on" /\ status = "up" /\ cpu = "run"

ClientMalloc(c, size) == Runs /\ PMM_malloc(c, size) /\ UNCHANGED vmmVars
ClientFree(c, size) == Runs /\ PMM_free(c, size) /\ UNCHANGED vmmVars

(* A client writes to a frame it holds.  On an unmapped page                *)
(* page_fault_handler prints and returns, the instruction is executed       *)
(* again, and nothing has changed.                                          *)
ClientWrite(c) ==
    /\ Runs /\ holds[c] # NoBlock
    /\ \E f \in Span(holds[c]) :
         IF f \in Mapped
         THEN content' = [content EXCEPT ![entries[f]] = "client"] /\ UNCHANGED cpu
         ELSE cpu' = "fault" /\ UNCHANGED content
    /\ UNCHANGED <<vars, stage, entries, cr3>>

page_fault_handler ==
    /\ cpu = "fault"
    /\ cpu' = "retry"
    /\ UNCHANGED <<vars, stage, content, entries, cr3>>

Retry ==
    /\ cpu = "retry"
    /\ cpu' = "fault"
    /\ UNCHANGED <<vars, stage, content, entries, cr3>>

VMMNext ==
    \/ StartPMM
    \/ MallocDirectory \/ MallocTable
    \/ VMM_init_fails \/ VMM_init_succeeds
    \/ \E c \in Others, size \in Requests :
         ClientMalloc(c, size) \/ ClientFree(c, size)
    \/ \E c \in Others : ClientWrite(c)
    \/ page_fault_handler \/ Retry

VMMSpec == VMMInit /\ [][VMMNext]_allVars

----------------------------------------------------------------------------
VMMTypeOK ==
    /\ stage \in {"dir", "table", "test", "on", "panic"}
    /\ content \in [AllFrames -> {Boot, "directory", "table", "client"}]
    /\ entries = <<>> \/ entries = Filled
    /\ cr3 \in AllFrames
    /\ cpu \in {"run", "fault", "retry"}

(* A clear bit with no room after its start position ends every search and  *)
(* is itself never granted: no single frame above it is.                    *)
Shelters(m) ==
    {q \in Searched(total_frames(m)) :
        q \notin MarkedAtInit(m) /\ NoRoom(total_frames(m), 1, q)}

(* There is one below the kernel and inside the page table.  The firmware   *)
(* of a PC leaves low memory free, and with 32 bits in a word such a bit is *)
(* among the first 21.                                                      *)
Sheltered(m) ==
    \E q \in Shelters(m) :
        q <= KernelHimem \div FrameSize /\ q <= PAGE_TABLE_ENTRIES

(* The frames of the running kernel are free in PMM's eyes, and clients     *)
(* write to what they are given: on a sheltered machine they are given      *)
(* neither the kernel nor the bitmap nor the stack (frame 0), and on any    *)
(* machine not the active directory and page table.                         *)
NothingOverwritten ==
    /\ Sheltered(machine) =>
         \A f \in KernelImage(machine) \cup BitmapFrames(machine) \cup {0} :
             content[f] = Boot
    /\ stage = "on" => /\ content[cr3] = "directory"
                       /\ content[holds[table].pos] = "table"

(* Only the first pages are mapped, PMM knows nothing of it, and            *)
(* page_fault_handler repairs nothing: on a sheltered machine no client     *)
(* ends in its loop by writing to memory it was given.                      *)
GrantsAreMapped == Sheltered(machine) => cpu = "run"
=============================================================================
