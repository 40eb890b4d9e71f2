# A verification development for bros

bros is a small 32-bit x86 operating system: a two-stage BIOS boot loader that
reads a kernel from a FAT12 diskette, and a kernel with interrupts, a timer,
physical memory management, a PS/2 keyboard and mouse driver and a floppy
driver. This directory holds TLA+ modules that model its stateful parts, TLC
configurations that check them on small instances, and theorems whose proofs TLAPS
checks: every safety property that a passing run checks is one of them. `PROJECT.json` maps every definition to the
source lines it stands for (paths below are relative to the repository root,
without the leading `src/`).

To repeat everything: `tlc -config X.cfg M` for each row of the table of runs,
and `tlapm M.tla` for each module whose name ends in `_proofs`.

## 1. Inventory

One processor, no preemptive threads. What runs concurrently is the main thread,
the interrupt handlers on top of it, and the devices: both PIC chips, the
timer, the PS/2 controller with its two devices, the diskette controller with
its DMA channel. Before the kernel there are the two loader stages and the
firmware they call. Nothing is persisted; nothing crosses a network.

| Component | State | Operations | Meets | What is hard | What makes it correct |
|---|---|---|---|---|---|
| Boot loader (`BIOS_bootloader/`) | memory, stack, the word list at 0x600, the structure for the kernel | reset and read the drive, find the file, load the FAT, follow the chain, E820, gate A20, protected mode, copy to 1 MB | firmware; hands over to `_start.c` | four things take turns at 0x1000; 12-bit entries that straddle sectors; cylinder boundaries; every firmware call may fail | the file picked arrives whole and in order, the structure says the truth, a machine that does not start had a reason |
| Interrupt path (`ISR_IRQ.c`, `IRQ.S`, `ISR.S`, `PIC.c`) | request and service registers, IF, stack of frames | accept, EOI, handler, `sti; iretd`, exceptions, spurious lines | every driver | EOI before the handler and without a line number; `sti` before `iretd`; two chips | handlers do not nest, an EOI ends its own line, a pending line is served |
| Timer (`PIT.c`) | `_ticks`, divisor, flags | handler, `sleep`, `PIT_set_timer_freq` | interrupt path; the floppy driver sleeps | tick between test and `hlt`; wrap of a 32-bit counter; 16-bit divisor; a function that touches IF during boot | a sleep is neither short nor long by more than one tick, boot stays masked |
| Scancode ring (`ps2.c:46-110`) | `buf`, `head`, `tail` | push in the handler, pop in `PS2_get_scancode` | keyboard handler, reader | unlocked; a load the compiler may move past the store of `tail` | it is a bounded FIFO |
| PS/2 controller, keyboard, mouse (`ps2.c`) | configuration byte, output buffer, decoder state, mouse packet | `PS2_init`, two handlers, `PS2_get_char` | ring, interrupt path | answers read without polling; a key during the dialogue; two handlers sharing one port | the controller ends as the handlers need it, every key is reported once, in order |
| Physical memory (`PMM.c`, `bitset.c`) | bitset of frames, count of used ones | `PMM_init`, `PMM_malloc`, `PMM_free`, `bitset_find` | boot information; the VMM | count and bitset kept apart; the search's arithmetic; which frames to reserve | frames are exclusive, reserved memory stays reserved, the count agrees |
| Virtual memory (`VMM.c`) | one page directory and table | `VMM_init`, `VMM_enable_paging`, page fault handler | PMM | identity map of 4 MB against frames from all of memory; a handler that repairs nothing | no client is given the kernel, its tables or a page that is not mapped |
| Floppy driver (`fdc.c`) | IRQ flag, current drive, buffer address | `fdc_init`, `fdc_read_sector`, `fdc_set_dma_addr` | DMA, timer, interrupt path | a protocol of commands, interrupts and status bytes with no time limit on the interrupt; bytes dropped silently; failing drives | driver and controller stay in step, the sector returned is the one asked for, motors go off, calls end |
| DMA controller (`dma.c`) | address, count, page, mode, mask, flip-flop | the setters | floppy driver | the flip-flop decides which half a byte is; pages wrap | the transfer covers the buffer given |
| Console (`conio.c`, `vga.c`) | cursor, colours, video memory | print, put, scroll, move | timer and mouse handlers, `main` and `panic` write the same screen | shared without a lock; the cursor takes four port writes; `panic` from a handler | the text printed is the text shown, the cursor is where the next character goes, a panic is readable |
| Kernel start (`_start.c`, `main.c`, `boot_info.c`) | order of initialisation | checks, inits, `sti`, `main` | everything | each part must be ready before its interrupt comes, and lines have been pending since the firmware had them | every interrupt and exception lands in its own stub and finds its handler, the boot ends |
| Descriptor tables (`descriptors.c`, `ISR_IRQ.c`) | GDT, IDT, table of handlers | `init_descriptor_tables`, `ISR_init`, `IRQ_init`, registration | processor, PICs | addresses and limits cut in pieces | what the processor puts together is what was meant |
| Library (`stdlib.c`, `string.c`), ports | none | `utoa`, `itoa`, copying | console | digits come out last first | numbers read right |

Hazards, at the lines where they bite, with the properties that would notice:
`PROJECT.json`, `hazards`.

## 2. Modules

| Module | Models | Uses |
|---|---|---|
| `ScancodeQueue` | what the ring promises: a bounded FIFO that drops when full and a reader that waits | |
| `ScancodeRing` | `PS2_push`/`PS2_pop`, `PS2_get_scancode` and the keyboard handler's share of it | refines `ScancodeQueue` |
| `Bitset` | `bitset.c` | |
| `MemoryMap` | `boot_info_sanitize`, the frames `PMM_init` marks | |
| `FrameAllocator` | what PMM promises: exclusive frames, a fixed reserve | |
| `PMM` | `PMM.c` | `Bitset`, `MemoryMap`; refines `FrameAllocator` |
| `Interrupts` | PICs, stubs, dispatch | |
| `Timer` | `PIT.c` | EXTENDS `Interrupts` |
| `DMA` | the setters of `dma.c` as operators on a channel | |
| `SectorReader` | what `fdc.c` promises its callers: a call is one atomic attempt to read a sector, or none | |
| `Floppy` | `fdc.c`, the controller and the drives | EXTENDS `DMA`; refines `SectorReader` |
| `Loader` | both stages, up to the kernel's checks in `_start.c` | |
| `PS2` | `PS2_init` and the controller with its devices | |
| `Keyboard` | both handlers and `PS2_get_char` | EXTENDS `PS2` |
| `VMM` | `VMM.c`, and clients that write to the frames they get | EXTENDS `PMM` |
| `KernelStart` | `_start.c`, `descriptors.c`, `PIC_init`, `ISR_init`, `IRQ_init`, registration | EXTENDS `Interrupts` |
| `Printf` | `CON_vsprintf`, `utoa`, `itoa`, and what a message means | |
| `Screen` | `conio.c`, `vga.c`, `panic.c`, `main.c`, the screen's share of the timer's and the mouse's handlers | EXTENDS `Printf` |
| `MCPMM`, `MCLoader`, `MCScreen` | the machines, the diskettes and the messages for TLC | |
| `*_proofs` | theorems (those about `Bitset`, `PMM` and `VMM` are in `Memory_proofs`, those about `Interrupts` in `KernelStart_proofs`, those about `PS2` in `Keyboard_proofs`) | the component, the proofs of what it extends, `TLAPS` |

The modules compose in two ways. `Timer` extends `Interrupts` and adds its own
variables to the steps of the interrupt path: `TickHandled` is `CallHandler(0)`
together with `timer_callback`. `Keyboard` extends `PS2`, `VMM` extends `PMM` (a step of
a client is a step of PMM) and `KernelStart` extends `Interrupts` the same way. Elsewhere a
module uses what a smaller one has shown: `Floppy` takes a handler as one step,
since handlers do not nest and are not interrupted (`NoNesting`), and a sleep as a
step that ends (`SleepEnds`); `Keyboard` takes the ring as a bounded sequence,
which is what `ImplementsQueue` says of it; `KernelStart` takes `PS2_init`, the memory
managers and a floppy reset by what they end in, and `Screen` takes a handler as one step.

Names are the source's. Where a name ends in an underscore and a word
(`Full_Never`, `EOI_MasterOnly`, `NextCluster_Even`) it is the variant of the
definition with the plain name that contains a plausible mistake; the mutants of
`PROJECT.json` show that the property concerned notices it. `LoadLate` and
`StoreTailFirst`, by contrast, are code: the build in which the compiler loads the
slot after it has stored `tail`, which C permits (`buf` is not volatile,
`ps2.c:94`).

### Correspondence

**ScancodeRing.** `port` is the controller's output buffer; `KeyByte` fills it,
`KeyboardIRQ` is the handler with `PS2_push`, atomic because handlers run with
IF clear. The reader is split at each access to shared memory: `GetScancode`
(call), `PopTest` (`head == tail`), `LoadSlot`, `StoreTail`, and `SpinEnds` for the loop
`while (head == tail);` inside the pop. The refinement maps the slots from
`tail` to `head` to the queue. `Full` is `(head + 1) % size == tail`.

**PMM.** A frame bitmap is the set of frames whose bit is 1. `bitset_find` keeps
its arithmetic: the probe position `i * 32 + (1 << j)`, the count of clear bits
that need not be adjacent, the bit read outside the bitset (any value), and the
returned `i * 32 + j`. `PMM_malloc` compares with the count first, as the code
does, and marks what the search returns. `machine` is a record of the firmware's regions
and the kernel's size; `MemoryMap` sanitizes and orders it as the code does.

**Interrupts.** `irr`, `isr`: requested and in-service lines of both chips in one
numbering; `frames`: what is on the stack, each with the point it has reached
(`eoi`, `handler`, `return`) and the IF it saved. `EndOfInterrupt` ends the most
urgent line in service on the slave (for `n > 7`) and on the master, which is what a
non-specific EOI does. `Return` restores IF from the frame and does not enable it
early: `sti` takes effect after the next instruction, and the next instruction is
`iretd`. Exceptions may occur on top of anything. `Spurious` is a request that
vanished: the chip then delivers its line 7.

**Timer.** `_ticks` modulo `TickLimit`; `Test` and `Halt` of `sleep` are two steps with
anything in between; `Program` is `PIT_set_timer_freq` with its saved flags.
`settled` and `Rested` bound how fast the timer may be, see Fairness. `elapsed`
is a history variable, up to `Watch`.

**Floppy.** The driver is a program counter over the calls of `fdc.c`: one step per
command (the bytes of a command go out in one step and either all arrive or one is
dropped after 500 polls, `Dropped`), one per wait, sense, motor switch and sleep. The
controller has a phase (`idle`, `busy`, `result`, `partial`), the
line IRQ 6, a count of interrupts not yet sensed, the cylinder each head is at.
`Execute` is the controller finishing: reset, seek (which may miss), read (which may
fail). `landed` records which sector the DMA has put where. For its callers (`SectorReader`) a call is asked for,
has attempted its read once the controller is through with the command (`Attempted`), and answers: the buffer after an
attempt, though nothing may have come, NULL without one. `fdc_init` is nothing to them, a panic stops everything.

**Loader.** Memory is blocks of 512 bytes and a block holds the sector that was
read into it, or junk; the FAT is the one exception, where `Byte` and `Word` give the
12-bit entries their bytes, so that odd clusters and those that straddle two
sectors are read as the code reads them. Each service of int 13h, int 15h has an
action that succeeds and one with suffix `_error`. The addresses, sizes and disk layout
are the Makefiles' real numbers. The disks are any `Directories` that satisfy `WellFormed`: clusters of the
disk, as many as the size needs, none in two files or twice in one; a deleted entry keeps its chain, but the table is that of
the files that exist. The actions after `EnableA20` are the copy to
1 MB (`main32`) and the checks of `_start.c` (`_start_init`).

**PS2 and Keyboard.** `PS2_init` is a list of port accesses still to be done (`todo`), one
step each; which accesses follow depends on what was read. `Deliver` moves a byte
from a device, if its clock is not off, to the output buffer, at any time: so answers
come early, late or after a key. Bytes are the bytes of the code.
`late`, `early`, `stolen` and `full` record, for the properties, that an answer was
read before it came, that a key was hit while the dialogue went on, that one handler
took a byte of the other device, and that the ring was full. Handlers run once the driver is up
and not after a panic, which halts with interrupts off. `Keyboard` reads with one
step per byte in the mouse handler (it takes three without asking) and follows the
decoder of `PS2_get_char` with its static variables.

**VMM.** `VMM_init` is two requests, the test of both, and then either the panic of
`_start_init` or everything else in one step (nobody runs beside it, interrupts are
off). `content` says what each frame was last written with, `entries` is the page
table. `ClientWrite` goes through the page tables: it changes the frame, or the
processor faults, `page_fault_handler` prints, and the same instruction faults again
(`Retry`). `Shelters` names why the two properties hold although PMM marks the wrong
frames for the kernel and knows nothing of the mapping: `bitset_find` gives up at the first
clear bit `q` whose probe position `2^q` (in the first word) leaves the bitset, and
such a bit is never granted, so nothing above it is. On a PC it is among the first 21
frames. The machines `Wide` and `Tiny` have no such frame, and there the properties say
nothing of the kernel and of unmapped pages.

**KernelStart.** `stage` is the place in `_start_init`. Segments and gates are records of
the pieces the code writes; `Target`, `Usable`, `KernelCode` put them together as the
processor does. `PIC_init` goes one port write at a time, and a chip forgets its
requests when its initialisation begins. `Taken(n)` is `Accept(n)` or `Spurious(n)` of
`Interrupts`, with the question where the gate of the vector leads; `Exception(v)` is
`TakeFault` with a vector, an error code or none, and a stub that expects one or not.
`fdc_init` is the sequence of its waits: for IRQ 6 and for ticks, twice each.

**Printf and Screen.** A cell of the screen is a character and whether the console put
it there (`own`, a history variable). The console is split at every access that an interrupt
can come between: the character, the variables, each read and write of the scroll, each
of the cursor's four port writes; `con` holds the call's local state. The timer's
handler writes in row 0, the mouse's writes the character it has saved back where
it was and saves the next one. `panic` abandons whatever it interrupted. What is
shown is compared with an endless sheet (`sheet`, a history variable) on which the text is
laid out, one character of what a message means (`due`) for each that `CON_puts` takes, and of
which the screen shows the last rows. What a message means (`Meaning`) finds the digits of a
number, however many, by their place; that `CON_vsprintf` agrees with it is `FormatsRight`.

## 3. Runs

| Run | Module, cfg | Result | Shows |
|---|---|---|---|
| `scancode_ring` | `ScancodeRing` | holds | bounded FIFO in both builds, no slot overwritten under the reader, the nested wait ends |
| `memory` | `MCPMM`, `Memory` | holds | for requests of at most one frame: exclusive frames, count equals bitset, the reserve is kept; where low memory stops the search, nobody is given the kernel or an unmapped page, though there is free memory above both, and nowhere the page tables |
| `pmm_areas` | `MCPMM`, `PMM_multi` | **violated** | requests of two frames: two callers get overlapping areas (`bitset.c:38`) |
| `interrupts` | `Interrupts` | holds | no nesting, each EOI ends its line, each line served once the more urgent are silent |
| `timer` | `Timer` | holds | boot masked, a sleep lasts n to n + 1 ticks and ends |
| `floppy` | `Floppy` | holds | in step with the controller, right interrupt, right sector in the right place, motors off but for a failed seek's, calls end; an atomic read for its callers |
| `floppy_error` | `Floppy`, `Floppy_error` | **violated** | a read that failed returns the old buffer as the sector (`fdc.c:274`) |
| `loader` | `MCLoader`, `Loader` | holds | whole file in order, true boot structure, reads legal and on the disk, no stop without a reason |
| `loader_name` | `MCLoader`, `Loader_name` | **violated** | the file name is never compared (`FAT12.inc:103`) |
| `keyboard` | `Keyboard` | holds | `PS2_init` leaves the controller right or panics with a reason; keys reported once, in order, with prefixes that colour nothing but what follows a modifier |
| `kernel_start` | `KernelStart` | holds | every entry lands in its stub through the kernel's segments, with its handler registered, wherever the boot is; the boot ends |
| `screen` | `MCScreen`, `Screen` | holds | text wraps and scrolls right under interrupts, the cursor follows, a panic from anywhere shows its message alone |

Each violated property states what a comment or document of the repository says; the
`findings` of `PROJECT.json` quote it. The properties that hold next to them say how
far the code can be relied upon nevertheless (`ImplementsReader` beside
`SectorDelivered` and `SectorDeliveredIfRead`, `FileDelivered` beside `KernelDelivered` and `KernelFromBootDrive`,
`EventsFollowKeys` beside `ReleasedIsItsOwn` and `ModifiersAreNoKeys`).

Four more configurations are kept for the reader and are not among the runs of `PROJECT.json`. TLC finds each property violated within seconds:

| Configuration | Property | Counterexample |
|---|---|---|
| `Floppy_page` of `Floppy` | `SectorDeliveredIfRead` | a buffer across a page of the DMA controller gets a sector that wraps round (`fdc.c:64`); `fdc.h:14`: "read a sector using DMA at the defined DMA address" |
| `Loader_drive` of `MCLoader` | `KernelFromBootDrive` | booted from the second drive, the kernel of the first is started, and told that it came from the second (`LBA2CHS.inc:36`); `FAT12.inc:55`: "DL = Drive Number" |
| `Keyboard_released` of `Keyboard` | `ReleasedIsItsOwn` | a key pressed after a modifier was released is reported as released (`ps2.c:386`); `ps2.c:384`: "if it is a released key..." |
| `Keyboard_extended` of `Keyboard` | `ModifiersAreNoKeys` | a left shift after a right control is returned as a key (`ps2.c:390`); `ps2.c:378`: "if it is an extended key..." |

### Bounds, and why they are enough

- *Ring*: 4 slots instead of 16, so that it wraps, fills and empties within a few
  steps; two codes tell an overwritten slot from an intact one. The theorem covers every size.
- *Memory*: frames of 8 bytes and bitset words of 5 bits instead of 4096 and 32, machines of 15 to 24
  frames with the kernel loaded at frame 1 and moved to frame 12, 16 pages mapped: two PCs with a reserved area
  below the kernel and five frames above what is mapped (one of them with three frames to give away before the shelter, where a search that went on would grant such frames), a hole below the last region, regions that begin and end within
  a frame or have an unknown type, one with memory above 4 GB, which panics, one with three frames to give away, where
  `VMM_init` may fail, and one with little low memory, where frames are granted that are not mapped. Four clients
  besides `VMM_init`, which are alike (symmetry). The theorems cover every machine and any number of clients.
- *Interrupts*: lines 0, 1, 6, 8, 12: the most urgent, the two served by drivers on the
  master on both sides of the cascade's effect, and two on the slave. The theorems cover every set.
- *Timer*: 8 values of `_ticks`, so that every sleep meets the wrap; `Watch` is above the longest.
  `Freqs` holds 0 (ignored by the code), 19, the lowest frequency whose divisor fits 16 bits, and the clock itself.
- *Floppy*: two drives, two sectors per track, two heads, two cylinders; the DMA counts in digits of base 4, so
  that its page has 16 bytes and a sector 4, and both halves of an address differ. The theorems cover every geometry, number of
  drives and of tries, and set of calls.
  The buffers do not cross a page, but for one of `Floppy_page.cfg`.
- *Loader*: nothing is scaled; eleven diskettes with at most two entries each (in one piece, in pieces, in
  cluster 341, whose entry straddles two sectors of the FAT, in the last two clusters, the
  longest file that fits, one too long, an empty one, another attribute, deleted, deleted with its cluster in use again, behind another, none) and at most
  `MaxRegions = 3` entries of E820. The theorems cover every well-formed disk.
- *Keyboard*: three key actions (one, once the dialogue has been disturbed: `Bound`), one mouse packet; the keys
  are a plain one, a modifier and an extended modifier. The ring has 4 places here. `Leftover` is the byte
  that is in the data port before anything was sent. The theorems cover every number of actions and moves, every
  size of the ring, every set of keys among the five of the model, every `Leftover` and every set the keyboard may start with.

- *Kernel start*: lines 0, 6 and 12, vectors up to 48 of 256, exceptions 14 (an error code, a handler of its own) and 15 (no
  stub); addresses are those of a real image, above 1 MB, so that both halves of a gate differ. One floppy drive; a drive's second
  calibration is in `Floppy`. A device raises its line again only when the processor has caught up (`burst`). The theorems cover every set of
  lines, exceptions and stubs, and do not depend on the pacing.
- *Screen*: 2 rows of 3 characters and a cursor register of base 4, so that a message wraps, scrolls and needs both
  halves; three messages and a panic (that of `ps2.c:121`, with its line number) with every kind of conversion the kernel uses but `%c`, two calls, three interrupts of
  timer or mouse (`MaxCalls`, `MaxIrqs`), which is enough to save a character, move it and write it back over another; the cursor starts in any cell. The theorem about the cursor covers every size and text.

### Fairness

- Ring: the interrupt is enabled and the processor resumes the reader after it: weak fairness of `KeyboardIRQ` and `Consumer`. Nothing makes a key arrive.
- Interrupts: handlers run to their end and masked stretches end (weak); `Accept(n)` strong, because the processor looks at the line before every instruction with IF set. `PendingServed` holds under the stated assumptions that the more urgent lines become silent and exceptions stop.
- Timer: the timer keeps ticking, and a period is longer than the handlers and one turn of `sleep`'s loop (11 ms at the 88 Hz the boot code gets); `SleepEnds` assumes that interrupts leave the main thread time to run.
- Floppy: the driver, the controller and the interrupt path go on (weak). That a call is made is not assumed; a controller that dropped a byte owes nothing, hence the exception in `CallsEnd`.
- Kernel start: handlers run on (weak); the main thread gets on between interrupts, whose handlers are short (strong, `BootStep`); the processor looks at the
  lines before every instruction with IF set (strong, `Taken`); the timer ticks, and the floppy controller answers once it has been started (strong). `StartEnds` assumes that exceptions stop.
- Screen: safety only.
- Loader: weak fairness of `Next`: the processor runs. Keys it waits for before a reboot are left out.
- Keyboard: weak for the driver, the delivery of bytes, the handlers and the reader; users owe nothing.

Deadlock is not checked in the runs where the system may stop: after a panic, when `main` halts and the model's interrupts are used up, when all clients hold and
want nothing more, when no key is left to wait for, or when the floppy driver waits for an interrupt that never comes.

## 4. Theorems

| Theorem | Statement | Over | Argument |
|---|---|---|---|
| `RingImplementsQueue` | `Spec => ImplementsQueue` | every ring size in 1..255 (the `_Static_assert`), every set of codes | a push appends to `Contents`, moving `tail` removes its head; `Following` is injective on slots, so the write never touches another slot |
| `SlotIsIntact` | `Spec => SlotIntact` | same | in the late build `slot` is the one just behind `tail`, which is the slot the full test keeps unused |
| `RingInvariant` | types and `TakeFindsCode` | same | only the reader removes |
| `PMMInvariant` | five invariants of PMM | every machine, frame size, word size, set of clients; requests of at most one frame | see below |
| `PMMImplementsAllocator` | PMM implements `FrameAllocator` | same | every step marks or clears exactly the frame the allocator's step does |
| `FindReturnsClearBit` | the first bit of what `bitset_find` returns is clear | every bitset, length, request, stray bit | the returned position is the one whose own bit was tested |
| `HandlersDoNotNest` | `Spec => []NoNesting` | every set of lines | at most a handler's frame with at most one exception on it; IF is clear as long as it is there |
| `EOIEndsTheRightLine` | `Spec => []NothingLeftInService` | every set of lines | at most one line per chip in service, so the most urgent is the right one |
| `SleepIsNotShort` | `TimerSpec => SleepNotShort` | every width of `_ticks`, every `Asks` below it | `SleepInv`: before the wrap, `elapsed` covers what `_ticks` has advanced |
| `SleepIsNotLong` | `TimerSpec => SleepNotLong` | same, every set of lines | `LateInv`, see below |
| `BootStaysMasked` | `TimerSpec => []BootIsMasked` | every set of lines | `BootInv`: the flag that `PIT_set_timer_freq` pushed and restores was clear |
| `FindStopsAtNoRoom` | what `bitset_find` returns lies below every clear bit whose probe leaves the bitset | every bitset, length, request, stray bit | at such a bit the search ends, and it goes upwards |
| `VMMImplementsPMM` | `VMMSpec => Spec` of PMM | every machine and set of clients | every step of VMM is a step of PMM, or leaves its variables alone |
| `MemoryAccounted`, `BootMemoryStaysMarked` | `[]MapAccounted`, `[]BootMemoryMarked` | same, requests of at most one frame | PMM's theorem through the refinement |
| `NobodyOverwrites`, `GrantsStayMapped` | `[]NothingOverwritten`, `[]GrantsAreMapped` | same | `VMMInv`, see below |
| `PCIsSheltered` | the build's numbers and 128 KB with a free frame at 14000h give a machine with a shelter | every such memory map | bit 20 is clear and its probe, 2^20, is beyond the last frame of 4 GB |
| `EntriesLand`, `DevicesHaveHandlers` | `StartSpec => []EveryEntryLands`, `[]HandlersInTime` | every image below 4 MB, every set of lines and exceptions | `StartInv`, see below |
| `PathUnderBoot` | `NoNesting` and `NothingLeftInService` while the kernel starts | same | each step of the boot that touches the path preserves `Interrupts`' invariant |
| `FloppyTyped`, `DriverInStep`, `InterruptsMatch`, `CommandsFindMotor`, `MotorsGoOff` | `[]` of `TypeOK`, `InStep`, `WaitsForThisCommand`, `MotorRuns`, `MotorsOff` | every geometry, set of drives, number of tries; drives that fail, bytes that are dropped | `FInv`, see below |
| `OnlyAskedSectorsLand` | `Spec => SectorDeliveredIfRead` | same, callers that fit (`CallersFit`) | the read being executed is that of this call, and the channel's bytes make the buffer's address; the run checks the refinement below, which implies it |
| `FloppyImplementsReader` | `Spec => ImplementsReader` | same | `OpInv` (only `fdc_init` calibrates, only a call seeks and reads) beside `FInv`: a busy controller has the driver waiting for it, so a read ends within its call |
| `SectorsDelivered` | `[]SectorDelivered` | same, and neither `Faulty` drives nor a `Slow` controller | `HonestInv`: the head is where the last seek was to, so the read finds its sector |
| `KernelArrivesWhole` | `[]FileDelivered` | every set of well-formed disks, chains of at most 1280 clusters (`ListsFit`) | `LInv`, see below |
| `KernelIsToldRight`, `BiosIsAskedRight` | `[]InfoRight`, `[]ReadsAreLegal` | same | `LInv`; `AddressRight`: `LBA2CHS` names the sector it was given |
| `BootStopsForAReason` | `[]StopsForAReason` | same, `MaxRegions < 256` | the count of regions is stored in a byte |
| `CursorFollows` | `ScreenSpec => []CursorRight` | every size of the screen and of the cursor's registers, every text, any interrupts | `CursorInv`, see below |
| `TextStaysIntact` | `ScreenSpec => []TextIntact` | same, every set of messages that are converted right (`FormatsRight`: as the positional numerals of any length) | `TextInv`, see below |
| `PanicIsShown` | `ScreenSpec => []PanicShown` | same, the panic's message included in `FormatsRight` | `TextInv`: after a panic every cell is the console's, since handlers are off |
| `KeyboardTypes` | `[]TypeOK` of Keyboard | every set of keys among five, size of the ring, number of actions and moves, machine, first scancode set, leftover byte | `Typed` |
| `KeyboardInitRight`, `KeyboardPanics` | `[]InitRight`, `[]PanicHasReason` | same | `DriverInv`, see below |
| `KeyboardEvents` | `[]EventsFollowKeys` | same | `KeyboardInv`, see below |

For PMM the invariants are not inductive by themselves: that the count equals the number of bits after a
free needs that the freed frame's bit was set, hence that clients hold only set bits and no two hold one.
`IInv` is `TypeOK`, `UsedCountsMap`, `HoldsOne` (a block is one frame, its bit is set, and it is
none of the reserve), `HeldOnce` (no frame is held twice) and `Started` (nothing is marked or held before `PMM_init`; afterwards
every set bit is reserved, frame 0, or held). The assumption that a request is
at most a frame is what `VMM_init`, the only caller in the kernel, does; run `pmm_areas` shows that the
statement is false without it.

*Timer.* `LateInv` says, for each place of `sleep`, how far `_ticks` may be: at `hlt` it has not passed the target,
and is below it if a tick is still to be counted (`Coming`: its line is raised or its handler has not got to `timer_callback`); after the `hlt` it is at
most one beyond. It needs that there is never more than one such tick (`OneTick`, from the period of the timer), that the stack holds at
most one frame, which restores a set IF, and that a main thread that runs with IF set has no request waiting. The exception for the last value of `_ticks` is what
keeps the counter from wrapping in that one tick.

*Virtual memory.* Nothing in the code keeps a client from the frames the kernel runs in. `VMMInv` adds to `IInv` that everything granted or written lies below every
shelter (`GrantsBelow`, `WrittenBelow`), which `FindStopsAtNoRoom` keeps true, and that `VMM_init`'s two frames are its own and hold
the tables (`TablesStand`), which `HeldOnce` keeps true. `PCIsSheltered` shows that the hypothesis is met by the build's constants.

*Kernel start.* `StartInv` follows the tables stage by stage: `TablesInv` (which descriptors and gates are there), `PicInv` (the chips are what the first `d` of `PIC_init`'s
eight writes make them), `MaskInv` (IF, on the processor or in a frame, is clear before `sti`), `DrivenInv` (a device is set going after its handler is
registered). `GateLeads` puts the halves of a gate together.

*Floppy.* `FInv` relates the driver's place to the controller: at most one interrupt is under way (`IrqInv`), the command being executed is that whose interrupt is
waited for, with this call's drive, sector and buffer (`CommandInv`), and as long as no byte was dropped the statuses left to be read are as many as the controller
has (`TurnInv`). `Place` is where the driver goes on after a wait or a sleep, so that one formula covers both. `CallersFit` asks for sectors whose track fits a byte and buffers
that do not cross a DMA page. That no call has ended before `fdc_init` has (in `FlowInv`) tells the one motor `MotorsOff` allows from those of a reset.

*Loader.* `LInv` has a predicate for each place of the program, with the contents of the blocks of memory that are still needed there and the registers. While the chain
is followed (`AtParse`) the list at 0x600 holds a prefix of the picked file's chain and the current cluster is the next of it (`Walk`), so the walk along a chain of any length needs
no induction over data, only a step: that the bytes of the table give the entry of a cluster, even or odd or straddling two sectors (`EvenEntry`, `OddEntry`, `TableByte`,
`NextIsEntry`), and that the entry of a cluster is its successor in the one file that has it (`OneHolder`, `EntryOfChain`). While the file is read and copied (`AtRead`, `AtCopy`), its first sectors are in
place. `ListsFit` keeps the list, two bytes per cluster, below the table at 0x1000 that is being read; a longer file's list would overwrite it, and such a file overwrites the loader itself too.

*Screen.* `CursorInv` gives, for each place of the console, where `_curX` and `_curY` may be (one column or one row beyond the screen until `_AdjScrollDrown` has run), what
`VGA_update_cursor` was asked for by whom (`Asked`), and which of its four port writes are done (`Sent`: the register that is selected, the half that is written). A panic in between starts
over with all of it. `TextInv` adds that what is left of the console's text is what is left of the message (`Flow`), and that there is a line `d` of the sheet which is the screen's first (`Layout(d)`): the
variables are where the sheet goes on, counted from line `d` (`Aligned`), and a cell the console owns shows its place on the sheet, one line further on if the loop of `VGA_scroll_down` has passed it
(`Pictured`); what the loop has read and not written yet belongs to the cell's new line, and the row it fills with blanks lies below all of the text (`BelowTheText`). `d` grows by one when the loop is through, and is 0 again
after a panic. At rest `d` is `Top` (`TopIsFirst`).

*Keyboard.* As long as no key was hit during the dialogue and no answer was read too early, `Booted` says at which `Place` `PS2_init` is: the accesses left in `todo` (`At`), what
the controller's configuration and the devices are by then, and which bytes are on their way: none (`Quiet`), the one the next read asks for (`Stream`), or what the loader left (`Stale`). Each test that the code makes is
therefore on the answer it is meant for, which is why it fails only for a reason, and the last place (`Up`) has the facts of `InitRight` and, for each request of the keyboard's interrupt, the byte it announces,
unless the mouse handler took it. Without that last part `keyboard_handler_times_out` could not be told from a fault. `Untouched` says that nothing of the decoder, the ring or the handlers
is in use before that. A step of the driver is then shown phase by phase (`StartingStep` to `EnablingStep`), from one lemma for each operation of `PS2`.
`KeyboardInv` adds for the keys: the bytes `PS2_get_char` has taken, those in the ring, in the output buffer and on the wire are together all that the keyboard has sent, in order, and
each is what its position among the actions means (`Carried`, `Meant`); actions end at different positions (`Ends`), so the number of a code's position gives back its action; and the decoder's flags are what
the bytes taken since the last event have set (`Taken`): `released` only if an action since then was a release, `extended` only if a key with that prefix was used, whose bytes
may not all have been taken (`Prefixes`). A modifier's code that the decoder takes for a key's (`ModifierMissed`) therefore has such a key before it. A delivery, a handler or the reader moves a byte from one of the four places to the next and leaves their concatenation as it is.

Each theorem follows the usual three facts: `Init => IInv`, `IInv /\ [Next]_vars => IInv'`, `IInv` implies the
property; the temporal step is PTL. Every inductive invariant was checked with TLC on the run's instance before it was proved. The assumptions about constants are those of the modules' ASSUMEs, which TLC
evaluates on every run, and the hypotheses named in the table.

**Model-checked only.** All liveness (`WaitEnds`, `PendingServed`, `SleepEnds`, `CallsEnd`, `BootEnds`, `StartEnds`, `InitEnds`, `KeysReported`): fairness,
leads-to and ENABLED are out of the provers' reach. `FormatsRight`, what `CON_vsprintf` prints for every format and every number: it folds over
the text, which would need an induction over data that the installed provers cannot instantiate; it is a hypothesis of the text's theorems (`TextStaysIntact`, `PanicIsShown`), and `MCScreen` assumes it of the run's messages, and of all numbers
up to 1023 and three longer ones in both bases, so that TLC evaluates it. Of the runs and configurations
that find a violation there is nothing to prove.

## 5. Plan

Done, in this order: the ring, PMM with its bitset, interrupts, timer, floppy with DMA, loader, PS/2; then virtual memory on top
of PMM, the kernel's start on top of the interrupt path, and the screen with everybody who writes to it.

Proved, in this order: the ring, PMM, the interrupt path, the timer's lower bound; then virtual memory, the kernel's start, the floppy driver, the loader, the timer's
upper bound, the cursor and the text of the screen, the keyboard and the dialogue of `PS2_init`, the floppy driver's atomic read.

Next, the model: `sleep` and the floppy's waits composed with `KernelStart` instead of
their outline; colours, if anything comes to depend on them.

## 6. Not modelled, and limits of what is

- `cpuid`, port instructions, the loader's messages: see the notes in `PROJECT.json`, `components`. `keyboard.c` and `APIC.c` are empty.
- Of the console: colours, and with them what the mouse handler does to the cell under it; formats that end in `%`; the 256 bytes of `CON_printf`'s buffer, which no message of the kernel fills;
  the page fault handler's use of the console; the default handler of exceptions, which clears the screen and writes two numbers past the console (`ISR_IRQ.c:25`); `itoa` of the smallest integer. Of the VMM: `VMM_disable_paging`, which nobody calls (and whose `or` would not clear the bit, `VMM.S:19`).
- The task state segment is a descriptor only: no task register is ever loaded.
- Every model starts with zeroed statics. The image is a flat binary and neither the loader nor `_start.c` clears `.bss`: on a machine
  whose memory does not come up as zero they start with anything.
- PMM's clients free only what they hold, once. `PMM_free` does not check it, and frame 0, if it were free, would be
  returned as NULL and lost.
- `ImplementsReader` is checked with buffers that lie in one DMA page below 16 MB, for sectors of the disk: `fdc_set_dma_addr` takes any
  pointer (`Floppy_page.cfg`) and a track above 255 is cut to a byte.
- The channel's port numbers and the other DMA channels; the data-rate register, written at port `F7h` (`fdc.c:23`) instead of `3F7h`; the
  bytes of `SPECIFY`, whose expression (`fdc.c:141`) depends on operator precedence.
- Modifiers' effects beyond the digits; modifiers are never cleared (`ps2.c:416`, a TODO there) and nothing is stated of them.
- Keys hit while `PS2_init` talks to the keyboard, bytes that one handler takes from the other's device, and codes that find the ring full happen in the model, and each excuses
  the properties of the keyboard (`early`, `stolen`, `full`): they show that nothing else disturbs it. In the same way a failed service of the firmware excuses `StopsForAReason`, and
  a cell that a handler has written is no longer the console's (`own`), so that `TextIntact` is about all others. `PROJECT.json` says so at each of these hazards.
- Cyclic FAT chains and clusters shared by two files (`DiskAssumption`); more entries of E820 than three in the run, than 255 in the theorem. The loader's list of entries would run over the kernel's place after about a hundred.
- The paths on which the loader reads from drive 0 whatever `DrvNum` says (`LBA2CHS.inc:36`) are modelled as they are:
  `FileDelivered` speaks of the file on drive 0, and `Loader_drive.cfg` shows what that means on another.

Smaller disagreements met while reading, which no run is about: `PMM_init` marks the frames the kernel was loaded to and not the ones it runs in, although
`PMM.c:73` says "mark the kernel part" (`_start.c:187` passes `KERNEL_SEG`); a negative number is shown with its sign last (`stdlib.c:70`, which puts it first into a buffer that is then reversed), and the timer's eleven bytes are one too few for that (`PIT.c:46`); the sleep whose target wraps returns at once (`PIT.c:88`);
the target that is the last value of `_ticks` may be missed (`PIT.c:89`); `PIT_init(1)` asks for 1 Hz and gets about 88 (`_start.c:108`, `PIT.c:67`);
`itoa` shows `_ticks` as a signed number (`PIT.c:49`); a failed seek leaves the motor on (`fdc.c:334`); the comment of
`GateA20.inc:8` states the flag the other way round; `EnableA20` halts instead of opening the gate (`GateA20.inc:53`);
`fdc.h:14` names another default buffer (0x1000) than `fdc.c:49` (0x600); an E820 error after the first
entries puts the end marker where the kernel does not look, and it panics (`GetMemoryMap.inc:62`); a list of memory types is indexed
with `type - 1` for any type (`_start.c`).
