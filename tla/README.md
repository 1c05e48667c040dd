# my_os: TLA+ models, model checking and proofs

`my_os` is a 32-bit x86 hobby kernel in C: paging with swap to an ATA disk, a
slab heap, a round-robin scheduler, a keyboard-driven shell on the VGA text
screen. This directory models its core as TLA+ modules translated from the C
source, checks them with TLC on small instances, and proves the allocators, the
heap, the page tables, the disk transfers, the scheduler queue, the interrupt
handling and the context switch, the keyboard's ring buffer, the screen and the
conversions and string functions with TLAPS for every size. Paths below are relative to `src/`. `PROJECT.json` maps
every definition to the lines it models, and lists the runs, the hazards, the
findings and the theorems.

## 1. The system

| Component | State | Operations | Uses / used by |
|---|---|---|---|
| Physical memory manager, `memory/pmm.c` | bitmap, last-freed hint, next-fit byte | `pmm_init`, `pmm_alloc_frame`, `pmm_free_frame` | used by the vmm and kmalloc |
| Virtual memory manager, `memory/vmm.c` | page directories, page tables, FIFO of swappable pages | map, unmap, alloc, page fault, swap out/in, create/destroy address space | pmm, disk slots, disk I/O |
| Kernel heap, `memory/kmalloc.c` | slab caches, free lists, list of large blocks, two address cursors | `init_kmalloc`, `kmalloc`, `kfree` | pmm, vmm; used by everybody |
| Swap slots, `drivers/disk.c` | slot bitmap, next-fit byte | `disk_alloc_slots`, `disk_free_slots` | used by the vmm |
| ATA driver, `drivers/disk.c` | identified disks, current disk | `init_disk_driver`, `switch_disk`, `disk_read`, `disk_write` | kmalloc for buffers; used by the vmm |
| Scheduler, `processes/scheduler.c` | circular ready queue, cursor, tick counter | add, remove, tick/switch | called by the timer interrupt; kmalloc for nodes |
| Processes, `processes/process.c`, `pcb.c`, `pid.c`, `context_switch.asm` | PCBs, stacks, PID counter | create, destroy, switch | vmm, scheduler |
| Interrupts, `interupts/*`, `drivers/pit.c` | IDT, PIC masks, IRQs in service | dispatch, acknowledge | calls keyboard, timer, page fault |
| Keyboard, `drivers/keyboard.c` | 256-byte ring, modifiers | interrupt handler, `keyboard_buffer_get` | screen (echo), shell |
| Screen, `drivers/screen.c` | video memory, cursor | `put_char`, scroll, clear, backspace | shell and keyboard interrupt |
| Shell, `shell.c` | input line | read a line, execute | keyboard, screen |
| Standard library, `std/*`, `memory/utills.c` | - | conversions, `printf`, strings, memory | used by everybody |
| GDT, boot, PCI | - | set-up | `kernel_main` calls every `init` |

What is hard in it:

* **Interrupts.** The shell and the processes run with interrupts enabled and no
  component ever disables them around shared state. The keyboard handler shares
  the ring buffer with the reader and the cursor with `put_char`; the timer may
  end a slice between any two stores of the scheduler or an allocator.
* **Stale state.** The frame hint is trusted without a look at the bitmap, the
  scheduler's cursor and the tail's link outlive the node they point to, the
  vmm's eviction queue can outlive the mapping.
* **One page table.** `vmm_init` makes every directory entry present with a frame
  address of 0, and every address space copies them: virtual pages 4 MB apart
  share an entry. The table is the machine's frame 0, which nothing ever clears
  (`vmm.c:312` always finds the table present, so the `memset` of line 337 is
  skipped): an entry that the kernel has not written holds what the firmware left
  there.
* **Partial failure.** A disk request is split into commands any of which may
  fail; a large heap request maps page by page and may run out half-way.
* **Limits.** A full ring buffer, an exhausted bitmap, the last run of slots, the
  last slab, the last cell of the screen, the sector count 256 sent as 0.

What makes each component correct: the allocators give nothing twice, lose
nothing and refuse only when they must; the heap never hands out an object in
use and conserves frames when it fails; the disk driver puts every byte where it
was asked to and its result counts the bytes that are there; the scheduler gives
the queued processes their turns in order, and never reaches its own panics; the
ring buffer is a queue; the screen is never written past its end; a frame is
mapped once and the kernel stays mapped; a process resumes with the registers
and the stack it was left with, and no interrupt stays unacknowledged; what is
printed is the number, and strings are compared and copied whole.

## 2. Modules

| Module | Models | How its state and actions correspond |
|---|---|---|
| `FrameAllocator` | what the kernel relies on in `pmm.c` | who owns which frame; allocate, refuse only when nothing is left, free |
| `Pmm` | `memory/pmm.c` | bitmap as the set of used frames; the hint; one action for each way `pmm_alloc_frame` returns, one for `pmm_free_frame`; `Init` is `pmm_init` |
| `PmmProofs` | - | theorems about `Pmm` |
| `DiskSlots` | slot bitmap of `drivers/disk.c` | as above for runs of slots; the early return of `disk_free_slots` is `IsFreed` |
| `DiskIO` | the transfer half of `drivers/disk.c` | probing, `switch_disk`, `disk_read`/`disk_write` as loops over commands, each command as wait, send, one step per sector and one for the `flush_cache` after it; the drives are external and interleave |
| `DiskProofs` | - | theorems about `DiskSlots` and `DiskIO`, the two halves of `drivers/disk.c` (the specification of the first is `SlotsSpec`) |
| `Kmalloc`, `KmallocProofs`, `MCKmalloc` | `memory/kmalloc.c` | slabs with free lists, caches as lists of slabs, large allocations; addresses as page numbers |
| `RoundRobin` | what a user of the scheduler relies on | the queued processes, whose turn it is, which one runs; arrive, leave, switch |
| `Scheduler`, `SchedulerProofs` | `processes/scheduler.c` | nodes numbered by creation; a destroyed node keeps its link, because the heap never reuses it |
| `Vmm`, `MCVmm`, `VmmProofs` | `memory/vmm.c` and the large half of `kmalloc.c` on top of it | the one page table as a function from table index to entry, on words of the firmware's (`Firmware`) where the kernel has written nothing; the eviction queue; one action per way a page fault ends; address spaces as the page of their directory |
| `Interrupts` | `idt.c`, `pic.c`, `interupts_handler.c` | gates, vector offset, masks, IRQs in service, the interrupt flag; dispatch as a function of the vector |
| `Processes`, `ProcessesProofs` | `kernel_main`, `process.c`, `pcb.c`, `pid.c`, `pit.c`, `isr_stubs.asm`, `context_switch.asm`, over `Interrupts` and the ready queue | one register, one slot of stack per interrupt or switch frame; the first frame of a process word by word; stubs and `process_switch` as the steps between which an interrupt can come |
| `Text` | `std/stdlib.c`, `stdio.c`, `string.c`, `memory/utills.c` | operators, loops as recursive functions of the turn; a caller applies one of them to any input (`TextSpec`) |
| `CharQueue` | what the keyboard promises | a queue of characters with "take back the last one" |
| `Console`, `ConsoleProofs` | `keyboard.c` and the reading loop of `shell.c` | the handler is one step (it runs with interrupts off), the reader is split at each access to the ring |
| `Screen` | `drivers/screen.c` with its two writers | the echo is one step, the shell's `put_char` is split at each access to `pos_on_screen` (the build uses `-O0`); `Init` is the state after the `clear_screen` of `kernel.c:44` |
| `OutputProofs` | - | theorems about what is printed: `Screen` (where) and `Text` (what) |

Some variables (`held` and `last` in `Pmm`, `runs` and `last` in `DiskSlots`,
`writes`, `late` and `torn` in `DiskIO`, `typed` in `Console`, `raced` and `overrun` in
`Screen`, `held` and `owned_large` in `Kmalloc`, `written` and `collided` in `Vmm`, `work` in
`Processes`) are not in the program: they record who
owns what, or what has happened, for the properties. They restrict the callers
only to free what they own.

A model module holds the state, the operations and the properties its runs check.
The inductive invariants are defined at the head of the module that proves them.
TLC can check them there: run `SchedulerProofs` with `Scheduler.cfg` and
`INVARIANT IInv` added, say (`DiskProofs` and `OutputProofs` cover two models: a
run has to give values to the constants of both and to keep the variables of the
other one as they are).

Abstractions. A frame, slot or page is a number; a byte on a disk is the write
that brought it and its place in the buffer; characters are a few letters. Text
output, colours and IDENTIFY strings are left out. `Kmalloc` takes
`vmm_map_page`/`vmm_unmap_page` at their contract and pmm as a counter; `Vmm`
takes pmm and the swap slots at theirs (`FrameAllocator`, `RunsDisjoint`: a free
frame, a free run), which `PmmProofs` and `DiskProofs` prove. In `Vmm`
an address is a page number, a frame of the kernel's is named by the table index
that maps it, and a slot that is a multiple of 8 keeps clear of the flag bits it
is mixed into (`SlotPart`). The slab pages need no action there: with the shipped
base 0x4000000, twice the base has the same table index, so a slab page is mapped
over its own entry and to its own frame.

How the modules fit together: `Processes` extends `Interrupts` and repeats the
ready queue of `Scheduler` without removals; its single stack area for all
created processes is what `Vmm` shows of the page table. `Vmm` contains the large
allocations of `Kmalloc`, with the page table in place of the contract.

Two drives of one channel share a status register, and the driver tests BSY
*before* it selects its drive: `Answering` in `DiskIO` is the drive that was
selected last, so a hanging master also stops its slave.

## 3. Runs

| Run | Checks | Shows |
|---|---|---|
| `pmm` | `TypeOK ExclusiveOwnership BitmapExact HintIsFree ImplementsFrameAllocator` | frames are exclusive and conserved, the hint is free, exhaustion is real |
| `disk_slots` | `RunsDisjoint LeakIsLastRun RefusesOnlyWhenExhausted` | runs never overlap; the early return loses at most one run, the last; a refusal is honest |
| `disk_io` | `BytesWherePut ReadsReturnMedia WriteHonestUnlessLate TempsFreed CommandsReachReadyDrive EveryCallReturns` | with errors at any sector, late errors and hanging drives: no byte is misplaced, results count real bytes, only a write that failed in its partial sector keeps its buffer, no READ or WRITE meets a busy drive (FLUSH does), calls return unless a drive hangs |
| `kmalloc` | `NoDoubleUse CachesPartitionSlabs LargeRangesSound FramesConserved` | up to and past exhaustion of slabs and frames |
| `kmalloc_free` | `FreeCountIsExact` (violated) | `kfree` never gives a slab object back |
| `vmm` | `FramesExclusive FramesConserved QueueIsExact KernelStaysMapped NothingSwappedOut` | on a table full of the firmware's words, down to the last frame and with the heap growing into the kernel's indexes: the frames of the entries the kernel has written exclusive and conserved, the eviction queue exact, no page ever swapped out, the kernel mapped until the heap reaches it |
| `scheduler` | `ListIntact RingClosed NeverPanics ImplementsRoundRobin EveryProcessRuns` | while the first process stays, turns go round in order, whatever is added and removed between ticks |
| `processes` | `ContextIntact TimerAlive InterruptsReachTheirHandler EveryProcessRuns` | start-up, creation, timer and keyboard interrupts and context switches in any order |
| `console` | `InputFits ImplementsCharQueue EveryCharIsRead` | keys between any two accesses of the reader |
| `console_race` | `ImplementsCharQueue` (violated) | Backspace between the reader's test and its load |
| `screen` | `ScrollsBeforeWriting BlankAhead OverrunBounded` | the echo, Backspace included, at any point of the shell's calls: how far past the screen the cursor gets, and which cells there are written |
| `text` | `ConversionsExact StringsExact` | conversions and string functions against reference definitions on every small input |

Deadlock is checked in every run; the states where the program really stops (a
failed assertion, a panic, a halted exception, the `exit` command, the endless
wait of a write) are explicit self-loops.

### Bounds, and why they are enough

* `pmm`: four bitmap bytes, of which byte 0 is never scanned; the layout leaves
  five frames in three bytes, so the wrap-around, the hint in either direction
  and exhaustion all happen; two owners are what exclusiveness needs. The proofs
  remove the bound.
* `disk_slots`: two bytes, run lengths 0, 1, 3 and 8 (a page of 512-byte
  sectors), at most three runs at a time: runs straddle bytes, end at the last
  slot, and the scan wraps. Again the proofs remove the bound.
* `disk_io`: master and slave of three sectors of two bytes, two sectors per
  command, two writes and any number of reads. 3 bytes give a partial last
  sector, 6 bytes give two commands, and from sector 2 both run past the end.
* `kmalloc`: two size classes, one extra slab, three frames, large requests of
  one and two pages up to five pages in all: slabs fill, a large request fails
  half-way, the heap's assertion is reached. `MaxLargePages` also keeps large
  blocks below the pages of the slabs, which they would reach after about 64 MB.
* `scheduler`: five processes in all (the ring needs a head, a tail, a current
  node, its neighbour and a newcomer), a slice of two ticks.
* `console`: a ring of four, an input array of two, at most `MaxTypeAhead`
  = 3 unread characters, so the indices wrap while the ring is never full.
* `screen`: three rows of two cells: a first, a middle and a last row.
* `vmm`: a table of eight entries of which 0 and 7 are the kernel's, the large
  heap from page 1 for at most nine pages (so it passes index 7 and wraps round
  the table), requests of one and two pages, four frames, two swap slots and
  four other pages the kernel touches, some of which share an index with the
  heap. `MCFirmware` has a word of every kind: clear, present with a frame of the
  pool or with another one, swapped, both, and neither but not clear. Collisions,
  exhaustion half-way through a request and both attempts to swap happen
  (1 040 418 states). `MaxLarge` only bounds the model.
* `processes`: the kernel and up to three created processes, two pages of stack,
  nine frames, a slice of two ticks, four stack slots, of which no state uses
  more than three (a frame not yet returned from, an interrupt on it, a switch),
  so the depth restricts nothing. A second process is created, and a third creation finds no frame.
* `text`: ints of ten bits, addresses of three digits, strings and formats of up
  to four characters over two letters (`Letters`): every sign, carry, length and
  end condition of the loops. The proofs remove the bounds.

### What the passing runs assume

Each assumption is a defect of the code the assumption keeps out:

* `Console`: the ring never fills (`keyboard_buffer_put` has no test, a full ring
  looks empty), and Backspace does not come while the reader is past its
  emptiness test (`BackspaceInGet = FALSE`; `console_race` lifts it). Backspace
  also never reaches the shell, whose branch for it (`shell.c:30`) is dead: a
  character already read cannot be erased.
* `Scheduler`: the first process, which is the head of the list for ever then, is
  not removed (`RemoveInit = FALSE`), so the run never removes at the head, and
  operations are atomic. `ListIntact` and `NeverPanics` need no assumption on
  removal: the theorems cover `RemoveInit = TRUE`. Removing the current process
  moves the cursor to its successor and the next switch moves on, so the
  successor loses a turn; `EveryProcessRuns` shows that it still gets a later one.
* `Vmm`: the properties about frames and the queue speak of the entries the kernel
  has written (`written`); the firmware's words in the others may look present and
  name any frame. `FramesConserved` and `QueueIsExact` hold until a large page is
  mapped over a present entry that the kernel had written, `KernelStaysMapped`
  until the heap reaches a kernel index, `FramesExclusive` until an address space
  is destroyed. An address that stays in the queue after its page was unmapped
  (`vmm.c:362`) takes such a collision, so `QueueIsExact` does not cover it.
* `Processes`: `processes_init` and `pit_init` are called, which the shipped
  `kernel_main` does not do; `ContextIntact` and `EveryProcessRuns` hold until a
  second process is created and gets the stack of the first (`StackShared`).
* `Screen`: `ScrollsBeforeWriting` and `BlankAhead` hold until an echo interrupts
  a call; `OverrunBounded` bounds the damage after that.
* `DiskIO`: `WriteHonestUnlessLate` holds until an error on the last sector,
  which the driver does not wait for; `EveryCallReturns` holds until a drive
  hangs, because the first wait of `ata_write_sectors` is an endless loop around
  its timeout. `TempsFreed` allows one kept buffer for each write that failed in its
  partial sector (counted by `torn`), and none for any other call. What a drive
  does with a FLUSH it did not expect is the drive's: a busy one ignores it, one
  that already waits for the next sector ignores it or drops the write
  (`FlushSector`, external).
* `DiskSlots`: `LeakIsLastRun` states exactly what the off-by-one in
  `disk_free_slots` loses.

### Fairness

* `scheduler`: weak fairness of `scheduler_handle_tick`: the PIT interrupts for
  ever and its handler calls it each time. Nothing is assumed of add or remove.
* `processes`: weak fairness of `kernel_main` and of the handlers (the processor
  keeps executing), strong fairness of the timer interrupt (its request stays
  pending while interrupts are off, and it has the highest priority), and strong
  fairness of the `ret` that ends a switch with interrupts on: a period of 10 ms
  leaves time for one instruction. Nothing is assumed of the processes' code, of
  creation or of the keyboard.
* `console`: weak fairness of the shell: between interrupts the processor
  executes nothing else. Nothing is assumed of the user.
* `disk_io`: weak fairness of the driver (it polls in a loop) and of each drive
  (a drive that is not stuck serves or fails its command). Hanging is a separate
  action that a drive may take at any time.

## 4. Theorems

Proved by TLAPS for every value of the constants that satisfies the named
assumptions.

* `PmmProofs`, from `SizeAssumption` (at least two bitmap bytes) and
  `LayoutAssumption` (the reserved frames are frames of the bitmap):
  `TypeCorrect`, `Exclusive`, `NoLeak`, `HintSound`, and `Refinement`: `Pmm`
  implements `FrameAllocator`. The inductive invariant `IInv` adds `HintIsFree` to the
  properties: `pmm_alloc_frame` hands the hint out without reading its bit, so
  exclusiveness is inductive only if the hint is known to be free, and this in
  turn needs `BitmapExact` for the frames the scan finds. The lemma
  `ScanCoversPool` (the two loops see every byte but 0) gives the refinement of
  the refusal.
* `DiskProofs` on `DiskSlots`, from `SlotsAssumption`: `NoOverlap`,
  `BoundedLeak`, `RefusalIsHonest`. `SlotsIInv` needs `OwnedIsMarked` for disjointness;
  `BoundedLeak` rests on it too: a second leak would need the last slot, which
  the first keeps marked. `ScanCoversSlots` and `FitIsFree` give the refusal.
* `DiskProofs` on `DiskIO`, from `DiskIOAssumption` (one to four drives of up to
  2^28 sectors, which is what LBA28 can name; any sector size, up to 256 sectors
  per command, any requests and any of the faults): `CommandsMeetReadyDrive`,
  `BuffersFreed`, `BytesStayInPlace`, `ReadsAreMedia`, `WritesAreHonest`. `CommandsMeetReadyDrive` is about READ and WRITE only: the FLUSH of
  `flush_cache` is sent without a look at the status and does meet busy drives,
  and everything else has to hold all the same. `BuffersFreed` says that the
  buffers not given back are at most the writes that failed in their partial sector.
  The driver only sees BSY, DRQ and ERR, so everything rests on `IInv`, which says that
  driver and drive are in step: how far the call is (`CallSound`) and the command
  in it (`CommandSound`), that a drive outside a command is at most putting its
  last sector away or flushing and that it is then the one its channel has selected
  (`DrivesSound`), and that in a command both are at the same sector (`InStep`). A
  status that is read before the drive is selected tells the truth only because of
  `DrivesSound`. Three invariants about the bytes come on top. `PlaceInv` extends
  `BytesWherePut` from the media to the sectors handed to drives and to the
  buffers of commands; its hard case is the read-modify-write of the last sector,
  whose old bytes must still be those of the media when they are written back.
  `ReadInv` says the same of what a read has moved so far, and that its disk is not
  being written to. `HonestInv` needs the notion `Landed`: a byte is on the media,
  or in the sector that the drive is still putting away, or the drive hangs. Every
  byte that a write has counted has landed, and so has every sector handed over,
  unless the drive has ended the command early and the driver is about to see it;
  a late error is the one way in which a landed byte is lost, hence `late`.
  Lemmas on the operators: `LbaKept` (the four register bytes make the sector
  again), `Counts` (the count 256, sent as 0, is read alike by the wrapper, both
  commands and the drive), `SectorsOfLength`, `TailMerged`. With `IInv`,
  `PlaceInv`, `ReadInv` and `HonestInv` as INVARIANTS of `Spec` and the bounds of `DiskIO.cfg`, TLC
  finds no violation either (927 236 states).
* `SchedulerProofs`, from `SchedulerAssumption`: `QueueWellFormed`,
  `RingStaysClosed`, `NoPanic`, and `IsRoundRobin`: for `~RemoveInit`, `Scheduler`
  implements `RoundRobin`. The abstract module knows no list, only the order of
  arrival; the refinement says that the link the cursor follows, after any
  removals at the head, the tail or the cursor itself, is the next process of
  that order in a circle (`NextIsAfter`).
  `ListIntact` is made inductive by the order of creation (nodes are only added
  at the tail, so links ascend, and the predecessor a removal finds is unique);
  `NoPanic` needs `LinksSet`: even a destroyed node links to a created one.
* `VmmProofs`, from `VmmAssumption` (any table size, any kernel indexes, any words
  of the firmware's, any finite pool of frames that are not kernel frames):
  `Exclusive`, `KernelKept`, `SwapNeverHappens`. `IInv` of `Vmm` is needed because
  they lean on each other. A frame is exclusive only if what `kfree` unmaps is an
  entry the kernel has written (`HeapWritten`), never a word of the firmware's
  with a frame of its own, so that pmm gets back only what it gave (`FreeOwned`);
  unmapping returns a frame rather than a slot because a written entry has SWAPPED
  only together with PRESENT (`SwappedPresent`); and the kernel stays mapped
  because a fault needs an absent entry, the kernel's are present, and the heap
  has not reached their indexes (`NotAliasedYet`). `SwapNeverHappens` rests on
  `SwapOutStuck`: `vmm_swap_out_page` runs only when pmm is empty, and then
  `disk_write` has no buffer. `NoFrameLost` and
  `QueueExact` hold while nothing was mapped over a present entry; `CalmInv` says
  what that means for the written entries: the kernel's and the heap's pages are present, no
  two heap blocks share a table index, and the queue is injective over indexes.
  The hard step is a large request: it takes its indexes in a row, wraps round
  the table, and may run out half-way. That no two of its pages meet rests on
  arithmetic (`AliasesFarApart`: pages with one index are a whole table apart).
  The lemmas `HeapIndexes` and `IndexesOfRange` turn blocks of pages into sets of
  indexes, of which the frames given and returned are counted.
* `ProcessesProofs`, from `ProcessesAssumption` (any number of processes, pages
  of stack, frames and any slice): `TimerStaysAlive` and `HandlersReached`.
  `TimerAlive` speaks of process code only; to be inductive it needs what holds
  in between. `OneInService`: a handler runs with interrupts off and at most its
  own interrupt is in service. `FramesSound`: what an `iret` or the `ret` of
  `process_switch` takes off a stack leads back into process code or to the end
  of a stub, never into the part of a handler that acknowledges. This does not
  need the stacks to be disjoint, so it also covers the processes that share one.
  `HandlersReached` rests on `BootOrder`: gates, vector offset and masks are
  functions of how far `kernel_main` has come. `ContextsKept` (`ContextIntact`, so
  until a second process is created) needs to know what lies on each stack at
  every point, not only in process code. `StackInv` says it: an executing process
  is in its code on an empty stack, on an interrupt frame that returns to its code
  or to the `ret` that first enters it, or at that `ret`; a process that was left
  has the frame `process_create_stack` built, or a frame of `process_switch` right
  on such an interrupt frame, with interrupts off. So no third kind of nesting
  exists, and at most three slots are ever used.
* `ConsoleProofs`, from `ConsoleAssumption` (any ring, any input array):
  `LineFits`, and `RingIsQueue`: with `MaxTypeAhead < BUFFER_SIZE` and
  `~BackspaceInGet`, `Console` implements `CharQueue`. The reader's load and its
  advance are two steps, so `IInv` has `ReadStands`: the character loaded is still
  the one at the tail when the tail moves, because a key stores at the head and
  the head does not meet the tail. The rest is the arithmetic of the wrapping
  indices (`UnreadIs`, `PlaceIs`).
* `OutputProofs` on `Screen`, from `ScreenAssumption` (any width and height):
  `OverrunIsOneRow`, `NoOverrunUnlessRaced`, `NeverIntoOldText`. The first says that
  `put_char` writes at most the one cell after the screen and that a Backspace
  blanks cells of the one row after it, no more. `CursorBound` is
  the strengthening for the first two: wherever the shell is about to write or to
  copy the cursor, it is at most one past the last cell, whatever echoes came;
  this rests on the row arithmetic of a newline (`AfterInside`). For the third,
  `BlankInv` says for each point inside a call that the screen is blank from where
  the cursor will be when the call returns (`BlankInside`).
* `OutputProofs` on `Text`, from `TextAssumption` (ints of any width, ASCII
  letters, strings, formats and names of any length) and `HexaAssumption` (an
  address has at most `HEXA_SIZE` hexadecimal digits): `ConversionsAreExact`,
  `StringsAreExact`, and two that say what is printed where the code does not do
  what its comments promise: `PrintedAddressLosesDigit` (every address is printed
  without its last digit) and `SmallestIntMisprinted`. What a loop computes is proved by induction over its turns.
  The library's induction theorems take a predicate as a parameter, which the
  provers cannot instantiate, so the induction is made from what they can use, a
  set: `WFMin` gives that a set of naturals has a least element
  (`LeastNatural`), this gives induction up to a bound for a *set* of numbers
  (`UpTo`), and this that a function with a given first value and step exists
  (`Recursion`), from which the recursive functions of the model are what their
  definitions say (`HornerIs`, `ShiftedIs`, `DigitsIs`, `WalkIs`, `RunAtIs`).
  Then: the digits of m are those of m / 10 and one more, so reading them back
  gives m (`DigitsExact`); after i turns the hexadecimal digits read so far are
  the number shifted by the turns to come, and the last turn's digit has no place
  in the string (`PrintedAddressLosesDigit`); and after i characters
  `printf` is inside a conversion exactly when an odd run of `%` ends there, and
  has taken the arguments in order (`PrintfSoFar`). Comparisons rest on the first
  difference (`FirstDifference`): `strcmp` stops there or at both ends, `strncmp`
  is `strcmp` of the strings cut to n characters (`StrncmpExact`), and a string
  at the start of any memory reads back as itself (`StringAtStart`), which gives
  the copies and the names. The characters are ASCII because `strcmp` subtracts
  signed and `memcmp` unsigned bytes.
* `KmallocProofs`, from `KmallocAssumption` and `LargeBoundAssumption`:
  `TypeCorrect`, `ObjectsExclusive`, `SlabsPartitioned`, `LargeRangesNeverOverlap`
  and `FramesNeverLost`. The descriptor of a large block is itself a slab object,
  so the two halves of the heap need each other: `IInv` says of the slabs that a
  free list holds objects of its own slab once each (`FreeListsSound`), that a cache
  lists slabs of its size class once each (`CacheListsSound`) and that whatever is
  owned is an object of an existing slab (`OwnedAreObjects`); of the blocks that
  they lie apart, in the pages served so far (`RangesApart`,
  `LargePagesServed`), which keeps the next block off all earlier ones.
  `LargeBoundAssumption` says that the bound `MaxLargePages` keeps the large heap
  below the slabs' pages, at twice the heap's base; without it the code would let
  the two meet.

Only model-checked: liveness (`EveryProcessRuns` of the scheduler and of the
processes, `EveryCharIsRead`, `EveryCallReturns`). It rests on weak and strong
fairness, hence on ENABLED, which the prover does not handle. Every other
property of a passing run is a theorem.

## 5. What the models show about the code

Two runs end in a violation and are listed as findings; the others state the
property up to the point where the code stops keeping it.

* `kfree` (`memory/kmalloc.c:286`) compares with the wrong range: slab objects lie
  at twice the heap base, so none is ever given back (`kmalloc_free`), and the
  first large block is taken for a slab object (`Freed` in `Vmm`).
* Backspace between the reader's emptiness test and its advance makes the ring
  buffer read a character that was taken back (`console_race`).
* An error on the last sector of a write is reported as success: `disk.c:505`
  does not wait. `WriteResultHonest` of `DiskIO` without the guard of
  `WriteHonestUnlessLate` is violated.
* Removing the first process leaves the tail's link on its node
  (`scheduler.c:102`); with `RemoveInit = TRUE`, `ImplementsRoundRobin` is
  violated.
* `scheduler_add_process` links the new node before it sets its `next`
  (`scheduler.c:56`); a switch there and another one later reach the panic of
  line 70, and two additions that overlap can lose one process.
* Swapping cannot work as it stands. A page is swapped out only when pmm is empty;
  `disk_write` then needs a large block for its buffer, `kmalloc` has no frame for
  it, and `vmm.c:210` repeats the call for ever inside the page fault. The panic of
  `vmm.c:423` is reached only when there is no page to swap out or no slot. If the
  write could succeed, the frame would still not go back to pmm, so the allocation
  that asked for it would fail (`vmm.c:268`).
* `vmm_swap_in_page` puts the frame into the entry before it takes the slot out of
  it (`vmm.c:247-250`), so it reads the sector that has the frame's address as its
  number. It runs only on a word of the firmware's with SWAPPED and without PRESENT.
* The page table in frame 0 is never cleared. A word of the firmware's that looks
  present makes an access that should fault use whatever frame it names. Large
  blocks replace such words, so until an address space is destroyed no frame of
  theirs gets into pmm (`FramesConserved`); after that it may.
* `vmm_init` maps the stack at an address that is not a page's (`vmm.c:538-539`);
  line 76 adds its low bits to the flags, so the stack's entries have SWAPPED.
* `vmm_init` adds `KERNEL_PAGE_FLAGS`, which include `PRESENT`, to each directory
  entry (`vmm.c:515`). All tables are therefore the one in frame 0. With the shipped addresses the large heap starts
  at index 108 and reaches the screen's entry, 184, after 76 pages, and the
  kernel's code at 256.
* Destroying an address space frees the frames of the shared table, the kernel's
  included (`vmm.c:465`), and the table's own (`vmm.c:467`).
* All processes get the stack at 100000000 (`process.c:93`), and share it.
* An echo between the shell's test and its store makes `put_char` write the cell
  after the screen; after a newline in that window a Backspace blanks cells of the
  row after it (`screen.c:118-119`).
* `process_switch` saves the EFLAGS field of the context from `[esp + 36]`, which
  is the saved `ebp`; the field is never read.

### Comments and code that disagree

* `stdio.h:12`: "Converts and prints a 32-bit unsigned integer as hexadecimal",
  and `stdio.c:20` "8 hex digits". The loop of `stdio.c:12` makes nine digits for
  eight places, and `%x` and `%p` print the number without its last digit
  (`PrintedAddressLosesDigit`).
* The smallest int is not printed as a number: it has no opposite
  (`stdlib.c:22`, `SmallestIntMisprinted`), although `screen.c:87` has room for it
  in mind.
* `disk.c:550-551`: `disk_read` returns "0 if an error is encountered". It returns
  the bytes read before the error (`disk.c:585`); `ReadsReturnMedia` shows that they
  are bytes of the media.
* `disk.c:225-227`: `flush_cache` "makes sure that the data has been written". It
  sends FLUSH to a drive that is still busy with the sector, which may ignore it,
  and nobody waits for its end.
* `vmm.c:512-513` speaks of entries that are "Not Present"; line 515 makes them
  present.
* `process.c:73` speaks of "the child's address space", which is the one all
  processes share.
* `pid.h:17` says that `pid_free` "Frees a PID so it can be reused"; it does nothing.

## 6. Not modelled, and why

* GDT, boot code: straight-line hardware initialisation.
* PCI: one configuration read that nothing calls.
* IDENTIFY parsing: byte swapping of strings and sizes that are printed.
* `vmm_swap_in_page` from its reading loop on: it reads into a virtual address that
  nothing maps, from a sector that is not the page's (`FaultSwapsIn` ends there).
* The branches of `vmm.c` for an absent or swapped page table: unreachable, because
  `vmm_init` makes every directory entry present. The branch for a queue node that
  could not be allocated (`vmm.c:288-291`) is dead too: `kmalloc` of a node never
  answers NULL but halts in `create_slab` (`FaultHalts`).
* The memory after an address space has been destroyed, or after a directory was
  written through a NULL pointer: the kernel's own frames may then hold anything.
* `process_destroy`: nothing calls it; its effect on memory is
  `vmm_destroy_vm_context`.
* The allocators and the ready queue under a timer that interrupts them half-way;
  processes are not started in the shipped build.
* Frames reserved for the heap: `create_slab`'s assertion lets one slab past
  them; its effect needs the composition of `Kmalloc` and `Pmm`.
* Colours, wording, `put_bool`, the printing functions of processes and PCBs.

## 7. Plan

1. `pmm_alloc_frame` and `scheduler_add_process` split at their stores under the
   timer of `Processes`.
2. `Kmalloc` composed with `Pmm` at the limit of the reserved frames.
