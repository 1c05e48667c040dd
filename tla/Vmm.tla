-------------------------------- MODULE Vmm --------------------------------
(* Paging, memory/vmm.c, as it runs once vmm_init has enabled it, with the *)
(* calls the kernel heap and the process code make on it.                  *)
(*                                                                         *)
(* vmm_init adds KERNEL_PAGE_FLAGS, and with them PRESENT, to every entry  *)
(* of the zeroed directory: each refers to the page table in frame 0, and  *)
(* every directory made later copies these entries.  There is therefore    *)
(* one page table, pte, and a virtual page's entry is found by its table   *)
(* index alone.  The branches for a table that is absent or swapped are    *)
(* never taken, nor is the table cleared: an entry that the kernel has not *)
(* written holds the word the firmware left at its place.  pmm.c and the   *)
(* swap slots are taken at their contracts: a free frame, a free run.      *)
EXTENDS Naturals, Sequences, FiniteSets, Functions, TLC

CONSTANTS PtSize,       \* ENTRIES_PER_TABLE
          Kernel,       \* table indexes vmm_init maps to their own frame
          Stack,        \* those of them it maps at an unaligned address
          Firmware,     \* what frame 0 holds at boot, read as entries
          LargeBase,    \* page of KERNEL_BASE_HEAP_ADDR + KERNEL_HEAP_SIZE
          MaxLarge,     \* bound: pages of large requests ever served
          LargeSizes,   \* pages of a large request
          Touched,      \* virtual pages outside the heap the kernel touches
          Pool,         \* frames pmm_alloc_frame may give
          Slots         \* starts of the page-sized runs of swap slots

Pt == 0 .. PtSize - 1

(* A frame of the kernel's is named by the table index that maps it; the   *)
(* frame of the table itself, the machine's frame 0, is mapped by none.    *)
TableFrame == PtSize
Entry == [p : BOOLEAN, s : BOOLEAN, frame : Pool \cup Nat]

ASSUME VmmAssumption ==
  /\ PtSize \in Nat \ {0}
  /\ Kernel \subseteq Pt /\ Stack \subseteq Kernel
  /\ Firmware \in [Pt -> Entry]
  /\ LargeBase \in Nat /\ MaxLarge \in Nat
  /\ LargeSizes \subseteq 1 .. PtSize
  /\ Touched \subseteq Nat
  /\ Pool \cap Nat = {} /\ IsFiniteSet(Pool) /\ Slots \subseteq Nat

VARIABLES pte,         \* the page table: present, swapped, frame
          free,        \* frames pmm has
          slots,       \* free runs of swap slots
          fifo,        \* current_page_fifo_queue, virtual pages
          large_heap,  \* page of current_large_heap_addr
          larges,      \* large allocations: first page and pages
          contexts,    \* vm contexts: the page of their directory
          current,     \* current_directory, NoContext for the kernel's
          stopped,     \* "no", or why the kernel does not go on
          written,     \* history: indexes whose entry the kernel has written
          collided     \* history: a present entry the kernel had written was
                       \* given another frame

vars == <<pte, free, slots, fifo, large_heap, larges, contexts, current,
          stopped, written, collided>>

NoContext == 0
PAGE_SIZE == 4096
Zero == [p |-> FALSE, s |-> FALSE, frame |-> 0]

(* Mutant of get_table_index: the index is taken from the bits above. *)
TableIndexShifted(v) == (v \div 2) % PtSize

get_table_index(v) == v % PtSize

Index(pages) == {get_table_index(v) : v \in pages}
Pages(a) == a.ptr .. a.ptr + a.size - 1
Frames(ts) == {pte[t].frame : t \in {u \in ts : pte[u].p}}

(* vmm_init: the identity mapping of code, stack, heap and screen.  The    *)
(* flags are added to those in the entry, and an address that is not a     *)
(* page's adds its low bits, SWAPPED among them.                           *)
Init ==
  /\ pte = [t \in Pt |->
              IF t \in Kernel
                THEN [p |-> TRUE, s |-> Firmware[t].s \/ t \in Stack,
                      frame |-> t]
                ELSE Firmware[t]]
  /\ written = Kernel
  /\ free = Pool /\ slots = Slots /\ fifo = <<>>
  /\ large_heap = LargeBase /\ larges = {}
  /\ contexts = {} /\ current = NoContext
  /\ stopped = "no" /\ collided = FALSE

Running == stopped = "no"

-----------------------------------------------------------------------------
(* vmm_map_page: the frame is replaced, the flags are added. *)
vmm_map_page(e, f) == [e EXCEPT !.p = TRUE, !.frame = f]

(* Mutant of vmm_unmap_page: the entry is left as it is. *)
UnmapForgotten(e) == e

(* vmm_unmap_page on one entry (its frame or slot is freed apart). *)
vmm_unmap_page(e) == IF e.p \/ e.s THEN Zero ELSE e

OnIndexes(ts, Op(_)) == [t \in Pt |-> IF t \in ts THEN Op(pte[t]) ELSE pte[t]]

(* The kernel loses a mapping of its own to one of the entries ts. *)
Overwrites(ts) == \E t \in ts \cap written : pte[t].p

(* kmalloc_large takes a frame for each page and maps it.  Nothing looks   *)
(* at what the entries held.                                               *)
MapPages(a) ==
  /\ \E frame \in [Index(Pages(a)) -> free] :
       /\ IsInjective(frame)
       /\ pte' = [t \in Pt |-> IF t \in Index(Pages(a))
                                 THEN vmm_map_page(pte[t], frame[t])
                                 ELSE pte[t]]
       /\ free' = free \ {frame[t] : t \in Index(Pages(a))}
  /\ large_heap' = large_heap + a.size
  /\ written' = written \cup Index(Pages(a))
  /\ collided' = (collided \/ Overwrites(Index(Pages(a))))

NextLarge(n) == [ptr |-> large_heap, size |-> n]

WithinBound(n) == large_heap + n <= LargeBase + MaxLarge

kmalloc_large(n) ==
  /\ Running /\ WithinBound(n) /\ Cardinality(free) >= n
  /\ MapPages(NextLarge(n))
  /\ larges' = larges \cup {NextLarge(n)}
  /\ UNCHANGED <<slots, fifo, contexts, current, stopped>>

(* Mutant of RolledBack: the pages stay mapped. *)
NothingUnmapped(got) == {}

(* The entries unmapped after pmm_alloc_frame failed. *)
RolledBack(got) == Index(Pages(NextLarge(got)))

(* kmalloc_large runs out of frames: the pages mapped so far are unmapped  *)
(* and their frames go back to pmm.                                        *)
kmalloc_large_fails(n) ==
  LET got == Cardinality(free)
      ts == Index(Pages(NextLarge(got)))
  IN /\ Running /\ WithinBound(n) /\ got < n
     /\ \E frame \in [ts -> free] :
          /\ IsInjective(frame)
          /\ pte' = [t \in Pt |->
                       IF t \in RolledBack(got) THEN Zero
                       ELSE IF t \in ts THEN vmm_map_page(pte[t], frame[t])
                       ELSE pte[t]]
          /\ free' = {frame[t] : t \in RolledBack(got) \cap ts}
     /\ written' = written \cup ts
     /\ collided' = (collided \/ Overwrites(ts))
     /\ UNCHANGED <<slots, fifo, large_heap, larges, contexts, current,
                    stopped>>

(* kfree of a large pointer: the pages are unmapped.  The first pointer    *)
(* ever given is taken for a slab object, and nothing is freed.            *)
Freed(a) == IF a.ptr = LargeBase THEN {} ELSE Index(Pages(a))

(* Mutant of FreedFrames: pmm_free_frame is not called. *)
FramesKept(ts) == {}

(* The frames given back by the unmapping of the entries ts. *)
FreedFrames(ts) == Frames(ts)

UnmapAll(ts) ==
  /\ pte' = OnIndexes(ts, vmm_unmap_page)
  /\ slots' = slots \cup {pte[t].frame :
                          t \in {u \in ts : ~pte[u].p /\ pte[u].s}}

kfree_large(a) ==
  /\ Running
  /\ UnmapAll(Freed(a))
  /\ free' = free \cup FreedFrames(Freed(a))
  /\ larges' = IF Freed(a) = {} THEN larges ELSE larges \ {a}
  /\ UNCHANGED <<fifo, large_heap, contexts, current, stopped, written,
                 collided>>

-----------------------------------------------------------------------------
(* An access to a virtual page whose entry is not present raises the page  *)
(* fault that page_fault_handler serves.                                   *)
Faults(v) == Running /\ ~pte[get_table_index(v)].p
Swapped(v) == pte[get_table_index(v)].s

(* page_enqueue *)
Queued(v) == Append(fifo, v)

WriteEntry(v, e) ==
  /\ pte' = [pte EXCEPT ![get_table_index(v)] = e]
  /\ written' = written \cup {get_table_index(v)}

vmm_alloc_permanent_page(v) ==
  \E f \in free : /\ WriteEntry(v, vmm_map_page(pte[get_table_index(v)], f))
                  /\ free' = free \ {f}

(* vmm_alloc_page when pmm has a frame. *)
FaultServed(v) ==
  /\ Faults(v) /\ ~Swapped(v)
  /\ vmm_alloc_permanent_page(v)
  /\ fifo' = Queued(v)
  /\ UNCHANGED <<slots, large_heap, larges, contexts, current, stopped,
                 collided>>

(* The same when the slabs are used up: kmalloc, which never answers NULL  *)
(* for a node of the queue, halts in create_slab's assertion, with the     *)
(* page mapped and not in the queue.                                       *)
FaultHalts(v) ==
  /\ Faults(v) /\ ~Swapped(v)
  /\ vmm_alloc_permanent_page(v)
  /\ stopped' = "panic"
  /\ UNCHANGED <<slots, fifo, large_heap, larges, contexts, current, collided>>

(* vmm_swap_in_page, for a word of the firmware's that has SWAPPED: the    *)
(* frame is put into the entry before the slot is read from it, so the     *)
(* page is read from the sector that has the frame's address as its        *)
(* number, for as long as that fails, and through a virtual address that   *)
(* nothing maps.  The model ends where that loop begins.                   *)
FaultSwapsIn(v) ==
  /\ Faults(v) /\ Swapped(v)
  /\ \E f \in free : /\ WriteEntry(v, [pte[get_table_index(v)] EXCEPT !.frame = f])
                     /\ free' = free \ {f}
  /\ stopped' = "swapping in"
  /\ UNCHANGED <<slots, fifo, large_heap, larges, contexts, current, collided>>

(* Mutant of MustSwap: a page is swapped out at every fault. *)
AlwaysSwaps == TRUE

(* vmm_alloc_permanent_page and vmm_swap_in_page swap a page out when pmm  *)
(* has no frame.                                                           *)
MustSwap == free = {}

Victim == get_table_index(Head(fifo))

(* disk_write has to get a page from kmalloc for its temporary buffer. *)
BufferForWrite == free # {}

(* What is left of a slot number in an entry: page_entry_set_frame mixes   *)
(* its low bits into the flags (a multiple of 8 does not touch PRESENT)    *)
(* and get_frame_addr cuts them off.                                       *)
SlotPart(s) == PAGE_SIZE * (s \div PAGE_SIZE)

(* The entry of a page that is swapped out: SWAPPED and the slot in place  *)
(* of PRESENT and the frame, which does not go back to pmm.                *)
SwappedOut(s) == [p |-> FALSE, s |-> TRUE, frame |-> SlotPart(s)]

(* vmm_swap_out_page on the page at the head of the queue: the page is     *)
(* written until disk_write has written all of it.                         *)
FaultSwapsOut(v) ==
  /\ Faults(v) /\ MustSwap
  /\ fifo # <<>> /\ pte[Victim].p
  /\ \E s \in slots :
       /\ slots' = slots \ {s}
       /\ pte' = IF BufferForWrite THEN [pte EXCEPT ![Victim] = SwappedOut(s)]
                                   ELSE pte
  /\ fifo' = Tail(fifo)
  /\ stopped' = IF BufferForWrite THEN "no" ELSE "retrying"
  /\ UNCHANGED <<free, large_heap, larges, contexts, current, written, collided>>

(* vmm_swap_out_some_page finds no page, or one that is not present any    *)
(* more, or no slot.                                                       *)
FaultPanics(v) ==
  /\ Faults(v) /\ free = {}
  /\ (fifo # <<>> /\ pte[Victim].p) => slots = {}
  /\ fifo' = IF fifo = <<>> THEN fifo ELSE Tail(fifo)
  /\ stopped' = "panic"
  /\ UNCHANGED <<pte, free, slots, large_heap, larges, contexts, current,
                 written, collided>>

-----------------------------------------------------------------------------
(* vmm_create_vm_context: the directory is a large page; the entries       *)
(* copied into it all refer to the one table.                              *)
vmm_create_vm_context ==
  /\ Running /\ WithinBound(1) /\ free # {}
  /\ MapPages(NextLarge(1))
  /\ contexts' = contexts \cup {large_heap}
  /\ UNCHANGED <<slots, fifo, larges, current, stopped>>

(* Without a frame the directory is NULL, which nobody tests: the entries  *)
(* are copied over virtual page 0, a page of the heap.                     *)
CreateWithoutFrame ==
  /\ Running /\ free = {}
  /\ stopped' = "heap overwritten"
  /\ UNCHANGED <<pte, free, slots, fifo, large_heap, larges, contexts, current,
                 written, collided>>

vmm_switch_vm_context(c) ==
  /\ Running
  /\ current' = c
  /\ UNCHANGED <<pte, free, slots, fifo, large_heap, larges, contexts, stopped,
                 written, collided>>

(* vmm_destroy_vm_context walks the directory, and with it the one table,  *)
(* and frees the frame of every present entry, the kernel's included, and  *)
(* the table's own; then the directory itself is given to kfree.  From     *)
(* here on the kernel's frames may be handed out, and the model ends.      *)
vmm_destroy_vm_context(c) ==
  /\ Running
  /\ UnmapAll(Freed([ptr |-> c, size |-> 1]))
  /\ free' = free \cup Frames(Pt) \cup {TableFrame}
  /\ contexts' = contexts \ {c}
  /\ stopped' = "kernel freed"
  /\ UNCHANGED <<fifo, large_heap, larges, current, written, collided>>

Stopped == ~Running /\ UNCHANGED vars

Next == \/ \E n \in LargeSizes : kmalloc_large(n) \/ kmalloc_large_fails(n)
        \/ \E a \in larges : kfree_large(a)
        \/ \E v \in Touched : \/ FaultServed(v) \/ FaultHalts(v)
                              \/ FaultSwapsIn(v)
                              \/ FaultSwapsOut(v) \/ FaultPanics(v)
        \/ vmm_create_vm_context \/ CreateWithoutFrame
        \/ \E c \in contexts : \/ vmm_switch_vm_context(c)
                               \/ vmm_destroy_vm_context(c)
        \/ Stopped

Spec == Init /\ [][Next]_vars

-----------------------------------------------------------------------------
Undisturbed == Running /\ ~collided
HeapPages == (UNION {Pages(a) : a \in larges}) \cup contexts
DemandPages == {t \in written \ Kernel : pte[t].p} \ Index(HeapPages)

(* Until a context is destroyed, no frame is in two entries the kernel has *)
(* written and no frame in one of them is free in pmm, whatever is mapped, *)
(* unmapped, faulted in or rolled back (vmm_map_page, vmm_unmap_page,      *)
(* page_fault_handler).  The firmware's words in the other entries may     *)
(* look present and name any frame, free and mapped ones too.              *)
FramesExclusive ==
  stopped # "kernel freed" =>
    /\ \A t, u \in written :
         pte[t].p /\ pte[u].p /\ pte[t].frame = pte[u].frame => t = u
    /\ Frames(written) \cap free = {}

(* As long as no large page meets the index of a page the kernel has       *)
(* mapped, no frame is lost: each is free or in an entry the kernel has    *)
(* written, and no frame of the firmware's words gets into pmm.            *)
FramesConserved ==
  Undisturbed => free \cup Frames(written \ Kernel) = Pool

(* Under the same condition the eviction queue names exactly the pages     *)
(* that page faults brought in, each once: never a page of the kernel or   *)
(* of the heap, and none is forgotten (page_enqueue, page_fifo_dequeue).   *)
QueueIsExact ==
  Undisturbed =>
    /\ {get_table_index(fifo[i]) : i \in 1 .. Len(fifo)} = DemandPages
    /\ Len(fifo) = Cardinality(DemandPages)

(* No page is ever swapped out: pmm is empty when vmm_swap_out_page runs,  *)
(* so disk_write gets no buffer and is called again for ever.  An entry    *)
(* has SWAPPED only from the firmware or, for the stack, from vmm_init.    *)
NothingSwappedOut == [][\A t \in Pt : ~pte[t].s => ~pte'[t].s]_vars

(* No large page mapped so far, nor one that a failed request may have     *)
(* mapped, shares its table index with one of code, stack, heap or screen. *)
NotAliasedYet ==
  \A n \in LargeSizes \cup {1} : \A v \in LargeBase .. large_heap + n - 2 :
     v % PtSize \notin Kernel

(* Code, stack, heap and screen stay mapped to their own frames (vmm_init, *)
(* "identity mapping") until the large heap has grown to a page that       *)
(* shares its index with one of theirs; from there on nothing protects     *)
(* them (MapPages replaces the frame of a present entry).                  *)
KernelStaysMapped ==
  NotAliasedYet => \A t \in Kernel : pte[t].p /\ pte[t].frame = t

(* Present entries the kernel has written hold frames of pmm or of the     *)
(* kernel, and large blocks and directories lie below                      *)
(* current_large_heap_addr.                                                *)
TypeOK ==
  /\ pte \in [Pt -> Entry]
  /\ Kernel \subseteq written /\ written \subseteq Pt
  /\ Frames(written) \subseteq Pool \cup Kernel
  /\ free \subseteq Pool \cup Nat /\ slots \subseteq Nat
  /\ fifo \in Seq(Touched)
  /\ large_heap \in Nat /\ LargeBase <= large_heap
  /\ \A a \in larges : /\ a.ptr \in Nat /\ a.size \in Nat
                       /\ LargeBase <= a.ptr /\ a.ptr + a.size <= large_heap
  /\ contexts \subseteq LargeBase .. large_heap - 1

(* The frames of the pool that the firmware's words do not name are alike. *)
Symmetric == Permutations(Pool \ {Firmware[t].frame : t \in Pt})
=============================================================================
