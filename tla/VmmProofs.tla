----------------------------- MODULE VmmProofs -----------------------------
(* Proofs about memory/vmm.c for every size of the page table, every       *)
(* layout of the kernel, every pool of frames and every content the        *)
(* firmware may have left in the table.                                    *)
EXTENDS Vmm, FiniteSetTheorems, TLAPS

-----------------------------------------------------------------------------
(* The heap's pages have entries the kernel has written: what kfree unmaps *)
(* is never a word of the firmware's.                                      *)
HeapWritten == Index(HeapPages) \subseteq written

(* Until a context is destroyed pmm has no frame that the firmware's words *)
(* brought in.                                                             *)
FreeOwned == stopped # "kernel freed" => free \subseteq Pool \cup Kernel

(* An entry the kernel has written is SWAPPED only when it is PRESENT too. *)
SwappedPresent == Running => \A t \in written : pte[t].s => pte[t].p

(* The inductive invariant. *)
IInv == /\ TypeOK /\ FramesExclusive /\ KernelStaysMapped
        /\ HeapWritten /\ FreeOwned /\ SwappedPresent

(* What else holds while Undisturbed: the kernel's entries are present,    *)
(* and those of the heap's pages, which are none of the kernel's; no two   *)
(* large blocks share a table index; and the queue names the pages that    *)
(* faults brought in, each at one place.                                   *)
KernelPresent == \A t \in Kernel : pte[t].p

HeapPresent == \A t \in Index(HeapPages) : t \notin Kernel /\ pte[t].p

BlocksApart ==
  /\ \A a \in larges : /\ a.size >= 1
                       /\ Index(Pages(a)) \cap Index(contexts) = {}
  /\ \A a, b \in larges : a # b => Index(Pages(a)) \cap Index(Pages(b)) = {}

QueueInjective ==
  /\ {get_table_index(fifo[i]) : i \in 1 .. Len(fifo)} = DemandPages
  /\ \A i, j \in 1 .. Len(fifo) :
       get_table_index(fifo[i]) = get_table_index(fifo[j]) => i = j

CalmInv == Undisturbed => /\ KernelPresent /\ HeapPresent /\ BlocksApart
                          /\ QueueInjective /\ FramesConserved

-----------------------------------------------------------------------------
(* A table index is an index of the table. *)
LEMMA IndexInTable ==
  \A v \in Nat : get_table_index(v) \in Pt /\ get_table_index(v) = v % PtSize
BY VmmAssumption DEF get_table_index, Pt

(* So are the kernel's indexes, and its frames are numbers. *)
LEMMA KernelNumbers == Kernel \subseteq Pt /\ Kernel \subseteq Nat
<1>1. Kernel \subseteq Pt /\ PtSize \in Nat
  BY VmmAssumption
<1> QED
  BY <1>1 DEF Pt

(* What frames are left is finite. *)
LEMMA FreeFinite ==
  ASSUME IInv, Running
  PROVE  IsFiniteSet(free) /\ Cardinality(free) \in Nat
<1>1. IsFiniteSet(Pt)
  BY VmmAssumption, FS_Interval DEF Pt
<1>2. IsFiniteSet(Kernel)
  <2>1. Kernel \subseteq Pt
    BY KernelNumbers
  <2> QED
    BY <1>1, <2>1, FS_Subset
<1>3. IsFiniteSet(Pool \cup Kernel)
  BY <1>2, VmmAssumption, FS_Union
<1>4. free \subseteq Pool \cup Kernel
  BY DEF IInv, FreeOwned, Running
<1>5. IsFiniteSet(free)
  BY <1>3, <1>4, FS_Subset
<1> QED
  BY <1>5, FS_CardinalityType

(* An interval grows with its upper end. *)
LEMMA RangeGrows ==
  \A a, b, c, n \in Nat : a <= b => c .. a + n - 2 \subseteq c .. b + n - 2
OBVIOUS

(* As the large heap only grows, an aliased kernel stays aliased. *)
LEMMA AliasingStays ==
  ASSUME TypeOK, large_heap' \in Nat, large_heap <= large_heap'
  PROVE  NotAliasedYet' => NotAliasedYet
<1>1. ASSUME NotAliasedYet', NEW n \in LargeSizes \cup {1},
             NEW v \in LargeBase .. large_heap + n - 2
      PROVE  v % PtSize \notin Kernel
  <2>1. n \in Nat /\ LargeBase \in Nat /\ large_heap \in Nat
    BY VmmAssumption DEF TypeOK
  <2>2. v \in LargeBase .. large_heap' + n - 2
    BY <2>1, RangeGrows
  <2> QED
    BY <1>1, <2>2, Zenon DEF NotAliasedYet
<1> QED
  BY <1>1, Zenon DEF NotAliasedYet

(* The indexes of the heap's pages are those of its blocks and contexts. *)
LEMMA HeapIndexes ==
  \A t : t \in Index(HeapPages)
          <=> (\E a \in larges : t \in Index(Pages(a))) \/ t \in Index(contexts)
BY DEF Index, HeapPages

(* While a context lives, the two halves of FramesExclusive, entry by      *)
(* entry.                                                                  *)
LEMMA ExclusiveEntries ==
  ASSUME IInv, Running
  PROVE  /\ \A t, u \in written :
              pte[t].p /\ pte[u].p /\ pte[t].frame = pte[u].frame => t = u
         /\ \A t \in written : pte[t].p => pte[t].frame \notin free
         /\ free \subseteq Pool \cup Kernel
         /\ \A t \in written : pte[t].s => pte[t].p
<1>1. stopped # "kernel freed"
  BY DEF Running
<1>2. Frames(written) \cap free = {}
  BY <1>1 DEF IInv, FramesExclusive
<1>3. \A t \in written : pte[t].p => pte[t].frame \notin free
  BY <1>2 DEF Frames
<1> QED
  BY <1>1, <1>3 DEF IInv, FramesExclusive, FreeOwned, SwappedPresent

(* vmm_init establishes the invariant, whatever the firmware left. *)
LEMMA InitIInv == Init => IInv
<1> SUFFICES ASSUME Init PROVE IInv
  OBVIOUS
<1>0. /\ Kernel \subseteq Pt /\ Kernel \subseteq Nat /\ Firmware \in [Pt -> Entry]
      /\ LargeBase \in Nat /\ Pool \cap Nat = {} /\ Slots \subseteq Nat
  BY VmmAssumption, KernelNumbers
<1>1. /\ written = Kernel /\ free = Pool /\ slots = Slots /\ fifo = <<>>
      /\ large_heap = LargeBase /\ larges = {} /\ contexts = {}
      /\ stopped = "no"
  BY DEF Init
<1>2. pte = [t \in Pt |->
               IF t \in Kernel
                 THEN [p |-> TRUE, s |-> Firmware[t].s \/ t \in Stack,
                       frame |-> t]
                 ELSE Firmware[t]]
  BY DEF Init
<1>3. \A t \in Kernel : pte[t].p /\ pte[t].frame = t
  BY <1>0, <1>2
<1>4. pte \in [Pt -> Entry]
  <2>1. \A t \in Kernel : [p |-> TRUE, s |-> Firmware[t].s \/ t \in Stack,
                           frame |-> t] \in Entry
    BY <1>0 DEF Entry
  <2>2. \A t \in Pt : Firmware[t] \in Entry
    BY <1>0
  <2> QED
    BY <1>2, <2>1, <2>2
<1>5. TypeOK
  <2>1. Frames(written) \subseteq Pool \cup Kernel
    BY <1>1, <1>3 DEF Frames
  <2>2. fifo \in Seq(Touched)
    BY <1>1
  <2>3. contexts \subseteq LargeBase .. large_heap - 1
    BY <1>1
  <2> QED
    BY <1>0, <1>1, <1>4, <2>1, <2>2, <2>3 DEF TypeOK
<1>6. FramesExclusive
  <2>1. Frames(written) \cap free = {}
    BY <1>0, <1>1, <1>3 DEF Frames
  <2> QED
    BY <1>1, <1>3, <2>1 DEF FramesExclusive
<1>7. KernelStaysMapped /\ FreeOwned /\ SwappedPresent
  BY <1>1, <1>3 DEF KernelStaysMapped, FreeOwned, SwappedPresent
<1>8. HeapWritten
  BY <1>1 DEF HeapWritten, Index, HeapPages
<1> QED
  BY <1>5, <1>6, <1>7, <1>8 DEF IInv

(* Mapping the pages of a new large block keeps types, frames and kernel   *)
(* entries, as long as nothing else changes the table.                     *)
LEMMA MapPagesIInv ==
  ASSUME IInv, Running, NEW n \in LargeSizes \cup {1}, MapPages(NextLarge(n)),
         stopped' = stopped
  PROVE  /\ pte' \in [Pt -> Entry] /\ Frames(written)' \subseteq Pool \cup Kernel
         /\ Kernel \subseteq written' /\ written' \subseteq Pt
         /\ free' \subseteq Pool \cup Nat
         /\ large_heap' = large_heap + n
         /\ FramesExclusive' /\ KernelStaysMapped' /\ FreeOwned'
         /\ SwappedPresent'
<1> DEFINE ts == Index(Pages(NextLarge(n)))
<1>0. /\ n \in Nat /\ n >= 1 /\ large_heap \in Nat /\ LargeBase \in Nat
      /\ Kernel \subseteq written /\ written \subseteq Pt /\ Kernel \subseteq Nat
  BY VmmAssumption, KernelNumbers DEF IInv, TypeOK
<1>1. Pages(NextLarge(n)) = large_heap .. large_heap + n - 1
  BY DEF Pages, NextLarge
<1>2. ts \subseteq Pt
  BY <1>0, <1>1, IndexInTable DEF Index
<1>3. PICK frame \in [ts -> free] :
        /\ IsInjective(frame)
        /\ pte' = [t \in Pt |-> IF t \in ts THEN vmm_map_page(pte[t], frame[t])
                                            ELSE pte[t]]
        /\ free' = free \ {frame[t] : t \in ts}
  BY DEF MapPages
<1>4. large_heap' = large_heap + n /\ written' = written \cup ts
  BY DEF MapPages, NextLarge
<1> HIDE DEF ts
<1>5. /\ \A t, u \in written :
           pte[t].p /\ pte[u].p /\ pte[t].frame = pte[u].frame => t = u
      /\ \A t \in written : pte[t].p => pte[t].frame \notin free
      /\ free \subseteq Pool \cup Kernel
      /\ \A t \in written : pte[t].s => pte[t].p
  BY ExclusiveEntries
<1>6. \A t \in ts : /\ frame[t] \in free /\ frame[t] \in Pool \cup Kernel
                    /\ frame[t] \in Pool \cup Nat
  BY <1>0, <1>3, <1>5
<1>7. \A t \in Pt : /\ t \in ts => pte'[t].p /\ pte'[t].frame = frame[t]
                    /\ t \notin ts => pte'[t] = pte[t]
  BY <1>3 DEF vmm_map_page, IInv, TypeOK, Entry
<1>8. pte' \in [Pt -> Entry]
  <2>1. \A t \in ts : vmm_map_page(pte[t], frame[t]) \in Entry
    BY <1>2, <1>6 DEF vmm_map_page, IInv, TypeOK, Entry
  <2> QED
    BY <1>3, <2>1 DEF IInv, TypeOK
<1>9. Frames(written)' \subseteq Pool \cup Kernel
  <2>1. \A t \in written : pte[t].p => pte[t].frame \in Pool \cup Kernel
    BY DEF Frames, IInv, TypeOK
  <2>2. \A t \in written' : pte'[t].p => pte'[t].frame \in Pool \cup Kernel
    BY <1>0, <1>2, <1>4, <1>6, <1>7, <2>1
  <2> QED
    BY <2>2 DEF Frames
<1>10. free' \subseteq free
  BY <1>3
<1>11. FramesExclusive'
  <2>1. ASSUME NEW t \in written', NEW u \in written', pte'[t].p, pte'[u].p,
               pte'[t].frame = pte'[u].frame
        PROVE  t = u
    <3>0. t \in Pt /\ u \in Pt
      BY <1>0, <1>2, <1>4
    <3>1. CASE t \in ts /\ u \in ts
      BY <1>3, <1>7, <2>1, <3>0, <3>1 DEF IsInjective
    <3>2. CASE t \notin ts /\ u \notin ts
      BY <1>4, <1>5, <1>7, <2>1, <3>0, <3>2
    <3>3. CASE t \in ts /\ u \notin ts
      BY <1>4, <1>5, <1>6, <1>7, <2>1, <3>0, <3>3
    <3>4. CASE t \notin ts /\ u \in ts
      BY <1>4, <1>5, <1>6, <1>7, <2>1, <3>0, <3>4
    <3> QED
      BY <3>1, <3>2, <3>3, <3>4
  <2>2. \A t \in written' : pte'[t].p => pte'[t].frame \notin free'
    BY <1>0, <1>2, <1>3, <1>4, <1>5, <1>7
  <2>3. Frames(written)' \cap free' = {}
    BY <2>2 DEF Frames
  <2> QED
    BY <2>1, <2>3 DEF FramesExclusive
<1>12. KernelStaysMapped'
  <2> SUFFICES ASSUME NotAliasedYet', NEW t \in Kernel
               PROVE  pte'[t].p /\ pte'[t].frame = t
    BY DEF KernelStaysMapped
  <2>1. NotAliasedYet
    BY <1>0, <1>4, AliasingStays DEF IInv
  <2>2. \A v \in LargeBase .. large_heap' - 1 : v % PtSize \notin Kernel
    <3>1. \A v \in LargeBase .. large_heap' + 1 - 2 : v % PtSize \notin Kernel
      BY Zenon DEF NotAliasedYet
    <3> QED
      BY <1>0, <1>4, <3>1
  <2>3. t \notin ts
    BY <1>0, <1>1, <1>4, <2>2, IndexInTable DEF Index, IInv, TypeOK, ts
  <2> QED
    BY <1>0, <1>7, <2>1, <2>3 DEF IInv, KernelStaysMapped
<1>13. FreeOwned' /\ free' \subseteq Pool \cup Nat
  BY <1>0, <1>5, <1>10 DEF FreeOwned
<1>14. SwappedPresent'
  BY <1>0, <1>2, <1>4, <1>5, <1>7 DEF SwappedPresent
<1>15. Kernel \subseteq written' /\ written' \subseteq Pt
  BY <1>0, <1>2, <1>4
<1> QED
  BY <1>4, <1>8, <1>9, <1>11, <1>12, <1>13, <1>14, <1>15

(* kmalloc_large preserves the invariant. *)
LEMMA AllocIInv ==
  ASSUME IInv, NEW n \in LargeSizes, kmalloc_large(n)
  PROVE  IInv'
<1>0. /\ Running /\ MapPages(NextLarge(n))
      /\ larges' = larges \cup {NextLarge(n)}
      /\ slots' = slots /\ stopped' = stopped /\ contexts' = contexts
      /\ fifo' = fifo /\ written' = written \cup Index(Pages(NextLarge(n)))
  BY DEF kmalloc_large, MapPages
<1>1. /\ pte' \in [Pt -> Entry] /\ Frames(written)' \subseteq Pool \cup Kernel
      /\ Kernel \subseteq written' /\ written' \subseteq Pt
      /\ free' \subseteq Pool \cup Nat /\ large_heap' = large_heap + n
      /\ FramesExclusive' /\ KernelStaysMapped' /\ FreeOwned' /\ SwappedPresent'
  BY <1>0, MapPagesIInv
<1>2. n \in Nat /\ n >= 1 /\ LargeBase \in Nat
  BY VmmAssumption
<1>3. /\ slots' \subseteq Nat /\ large_heap' \in Nat /\ LargeBase <= large_heap'
      /\ contexts' \subseteq LargeBase .. large_heap' - 1
  BY <1>0, <1>1, <1>2 DEF IInv, TypeOK
<1>4. \A a \in larges' : /\ a.ptr \in Nat /\ a.size \in Nat
                         /\ LargeBase <= a.ptr
                         /\ a.ptr + a.size <= large_heap'
  BY <1>0, <1>1, <1>2 DEF IInv, TypeOK, NextLarge
<1>5. HeapWritten'
  <2>1. HeapPages' = HeapPages \cup Pages(NextLarge(n))
    BY <1>0 DEF HeapPages, Pages
  <2>2. Index(HeapPages)' \subseteq Index(HeapPages) \cup Index(Pages(NextLarge(n)))
    BY <2>1 DEF Index, get_table_index
  <2> QED
    BY <1>0, <2>2 DEF IInv, HeapWritten
<1> QED
  BY <1>0, <1>1, <1>3, <1>4, <1>5 DEF IInv, TypeOK

(* vmm_create_vm_context preserves the invariant. *)
LEMMA CreateIInv == IInv /\ vmm_create_vm_context => IInv'
<1> SUFFICES ASSUME IInv, vmm_create_vm_context PROVE IInv'
  OBVIOUS
<1>0. /\ Running /\ MapPages(NextLarge(1))
      /\ contexts' = contexts \cup {large_heap}
      /\ slots' = slots /\ stopped' = stopped /\ larges' = larges
      /\ fifo' = fifo /\ written' = written \cup Index(Pages(NextLarge(1)))
  BY DEF vmm_create_vm_context, MapPages
<1>1. /\ pte' \in [Pt -> Entry] /\ Frames(written)' \subseteq Pool \cup Kernel
      /\ Kernel \subseteq written' /\ written' \subseteq Pt
      /\ free' \subseteq Pool \cup Nat /\ large_heap' = large_heap + 1
      /\ FramesExclusive' /\ KernelStaysMapped' /\ FreeOwned' /\ SwappedPresent'
  BY <1>0, MapPagesIInv
<1>2. /\ slots' \subseteq Nat /\ large_heap' \in Nat /\ LargeBase <= large_heap'
      /\ contexts' \subseteq LargeBase .. large_heap' - 1
  BY <1>0, <1>1, VmmAssumption DEF IInv, TypeOK
<1>3. \A a \in larges' : /\ a.ptr \in Nat /\ a.size \in Nat
                         /\ LargeBase <= a.ptr
                         /\ a.ptr + a.size <= large_heap'
  BY <1>0, <1>1 DEF IInv, TypeOK
<1>4. HeapWritten'
  <2>1. Pages(NextLarge(1)) = {large_heap}
    BY DEF Pages, NextLarge, IInv, TypeOK
  <2>2. HeapPages' = HeapPages \cup Pages(NextLarge(1))
    BY <1>0, <2>1 DEF HeapPages, Pages
  <2>3. Index(HeapPages)' \subseteq Index(HeapPages) \cup Index(Pages(NextLarge(1)))
    BY <2>2 DEF Index, get_table_index
  <2> QED
    BY <1>0, <2>3 DEF IInv, HeapWritten
<1> QED
  BY <1>0, <1>1, <1>2, <1>3, <1>4 DEF IInv, TypeOK

(* Unmapping pages of the large heap and giving their frames to pmm keeps  *)
(* every part of the invariant that is about the table.                    *)
LEMMA UnmapIInv ==
  ASSUME IInv, Running, NEW ts \in SUBSET written, UnmapAll(ts),
         large_heap' = large_heap, written' = written,
         NotAliasedYet => ts \cap Kernel = {}
  PROVE  /\ pte' \in [Pt -> Entry]
         /\ slots' \subseteq Nat
         /\ Frames(written)' \cap Frames(ts) = {}
         /\ Frames(written)' \subseteq Frames(written)
         /\ \A t, u \in written : pte'[t].p /\ pte'[u].p
                                    /\ pte'[t].frame = pte'[u].frame => t = u
         /\ \A t \in written : pte'[t].s => pte'[t].p
         /\ KernelStaysMapped'
<1>0. written \subseteq Pt /\ Kernel \subseteq written
  BY DEF IInv, TypeOK
<1>1. /\ \A t, u \in written :
           pte[t].p /\ pte[u].p /\ pte[t].frame = pte[u].frame => t = u
      /\ \A t \in written : pte[t].s => pte[t].p
  BY ExclusiveEntries
<1>2. pte' = [t \in Pt |-> IF t \in ts THEN vmm_unmap_page(pte[t]) ELSE pte[t]]
  BY DEF UnmapAll, OnIndexes
<1>3. \A t \in written : pte'[t] = IF t \in ts /\ pte[t].p THEN Zero ELSE pte[t]
  BY <1>0, <1>1, <1>2 DEF vmm_unmap_page
<1>4. \A t \in written : pte'[t].p => pte[t].p /\ t \notin ts /\ pte'[t] = pte[t]
  BY <1>3 DEF Zero
<1>5. pte' \in [Pt -> Entry]
  <2>1. Zero \in Entry
    BY DEF Zero, Entry
  <2>2. \A t \in Pt : vmm_unmap_page(pte[t]) \in Entry
    BY <2>1 DEF vmm_unmap_page, IInv, TypeOK
  <2> QED
    BY <1>2, <2>2 DEF IInv, TypeOK
<1>6. Frames(written)' \subseteq Frames(written)
  BY <1>4 DEF Frames
<1>7. Frames(written)' \cap Frames(ts) = {}
  BY <1>1, <1>4 DEF Frames
<1>8. slots' \subseteq Nat
  <2>1. {u \in ts : ~pte[u].p /\ pte[u].s} = {}
    BY <1>1
  <2>2. slots' = slots
    BY <2>1 DEF UnmapAll
  <2> QED
    BY <2>2 DEF IInv, TypeOK
<1>9. \A t \in written : pte'[t].s => pte'[t].p
  BY <1>1, <1>3 DEF Zero
<1>10. KernelStaysMapped'
  <2>1. NotAliasedYet' => NotAliasedYet
    BY DEF NotAliasedYet
  <2> QED
    BY <1>0, <1>3, <2>1 DEF IInv, KernelStaysMapped
<1> QED
  BY <1>1, <1>4, <1>5, <1>6, <1>7, <1>8, <1>9, <1>10

(* The indexes of a block of the heap are ones the kernel has written, and *)
(* no kernel indexes until the heap is aliased.                            *)
LEMMA BlockIndexes ==
  ASSUME IInv, NEW a, a.ptr \in Nat, a.size \in Nat, LargeBase <= a.ptr,
         a.ptr + a.size <= large_heap, Pages(a) \subseteq HeapPages
  PROVE  /\ Freed(a) \subseteq written
         /\ NotAliasedYet => Freed(a) \cap Kernel = {}
<1>0. large_heap \in Nat /\ LargeBase \in Nat
  BY VmmAssumption DEF IInv, TypeOK
<1>1. Freed(a) \subseteq Index(Pages(a))
  BY DEF Freed
<1>2. \A v \in Pages(a) : v \in Nat /\ v \in LargeBase .. large_heap - 1
  BY <1>0 DEF Pages
<1>3. Index(Pages(a)) \subseteq written
  BY DEF Index, IInv, HeapWritten
<1>4. NotAliasedYet => \A v \in LargeBase .. large_heap - 1 : v % PtSize \notin Kernel
  <2>1. NotAliasedYet => \A v \in LargeBase .. large_heap + 1 - 2 :
                            v % PtSize \notin Kernel
    BY Zenon DEF NotAliasedYet
  <2>2. large_heap + 1 - 2 = large_heap - 1
    BY <1>0
  <2> QED
    BY <2>1, <2>2
<1>5. NotAliasedYet => Index(Pages(a)) \cap Kernel = {}
  BY <1>2, <1>4, IndexInTable DEF Index
<1> QED
  BY <1>1, <1>3, <1>5

(* kfree of a large pointer preserves the invariant. *)
LEMMA FreeIInv ==
  ASSUME IInv, NEW a \in larges, kfree_large(a)
  PROVE  IInv'
<1>0. /\ Running /\ UnmapAll(Freed(a)) /\ free' = free \cup Frames(Freed(a))
      /\ larges' \subseteq larges /\ large_heap' = large_heap
      /\ contexts' = contexts /\ stopped' = stopped /\ fifo' = fifo
      /\ written' = written
  BY DEF kfree_large, FreedFrames
<1>1. Freed(a) \in SUBSET written /\ (NotAliasedYet => Freed(a) \cap Kernel = {})
  <2>1. Pages(a) \subseteq HeapPages
    BY DEF HeapPages
  <2> QED
    BY <2>1, BlockIndexes DEF IInv, TypeOK
<1>2. /\ pte' \in [Pt -> Entry]
      /\ slots' \subseteq Nat
      /\ Frames(written)' \cap Frames(Freed(a)) = {}
      /\ Frames(written)' \subseteq Frames(written)
      /\ \A t, u \in written : pte'[t].p /\ pte'[u].p
                                 /\ pte'[t].frame = pte'[u].frame => t = u
      /\ \A t \in written : pte'[t].s => pte'[t].p
      /\ KernelStaysMapped'
  BY <1>0, <1>1, UnmapIInv
<1>3. Frames(Freed(a)) \subseteq Frames(written)
  BY <1>1 DEF Frames
<1>4. Frames(written) \cap free = {} /\ stopped # "kernel freed"
  BY <1>0 DEF IInv, FramesExclusive, Running
<1>5. FramesExclusive'
  <2>1. Frames(written)' \cap free' = {}
    BY <1>0, <1>2, <1>4
  <2> QED
    BY <1>0, <1>2, <2>1 DEF FramesExclusive
<1>6. Frames(written) \subseteq Pool \cup Kernel /\ free \subseteq Pool \cup Kernel
      /\ Kernel \subseteq Nat
  BY <1>4, KernelNumbers DEF IInv, TypeOK, FreeOwned
<1>7. TypeOK'
  <2>1. /\ Kernel \subseteq written' /\ written' \subseteq Pt
        /\ fifo' \in Seq(Touched)
        /\ large_heap' \in Nat /\ LargeBase <= large_heap'
        /\ contexts' \subseteq LargeBase .. large_heap' - 1
    BY <1>0 DEF IInv, TypeOK
  <2>2. \A b \in larges' : /\ b.ptr \in Nat /\ b.size \in Nat
                           /\ LargeBase <= b.ptr
                           /\ b.ptr + b.size <= large_heap'
    BY <1>0 DEF IInv, TypeOK
  <2>3. free' \subseteq Pool \cup Nat /\ Frames(written)' \subseteq Pool \cup Kernel
    BY <1>0, <1>2, <1>3, <1>6
  <2> QED
    BY <1>2, <2>1, <2>2, <2>3 DEF TypeOK
<1>8. FreeOwned' /\ SwappedPresent'
  BY <1>0, <1>2, <1>3, <1>6 DEF FreeOwned, SwappedPresent
<1>9. HeapWritten'
  <2>1. HeapPages' \subseteq HeapPages
    BY <1>0 DEF HeapPages, Pages
  <2>2. Index(HeapPages)' \subseteq Index(HeapPages)
    BY <2>1 DEF Index, get_table_index
  <2> QED
    BY <1>0, <2>2 DEF IInv, HeapWritten
<1> QED
  BY <1>2, <1>5, <1>7, <1>8, <1>9 DEF IInv

(* vmm_destroy_vm_context: the frames are free and still mapped, and the   *)
(* model stops; the entries keep what the invariant says of them.          *)
LEMMA DestroyIInv ==
  ASSUME IInv, NEW c \in contexts, vmm_destroy_vm_context(c)
  PROVE  IInv'
<1> DEFINE a == [ptr |-> c, size |-> 1]
<1>0. /\ Running /\ UnmapAll(Freed(a))
      /\ free' = free \cup Frames(Pt) \cup {TableFrame}
      /\ larges' = larges /\ large_heap' = large_heap
      /\ contexts' \subseteq contexts /\ stopped' = "kernel freed"
      /\ fifo' = fifo /\ written' = written
  BY DEF vmm_destroy_vm_context
<1>1. /\ a.ptr \in Nat /\ a.size \in Nat /\ LargeBase <= a.ptr
      /\ a.ptr + a.size <= large_heap
  BY VmmAssumption DEF IInv, TypeOK
<1>2. Pages(a) \subseteq HeapPages
  <2>1. c \in Nat
    BY <1>1
  <2>2. Pages(a) = {c}
    BY <2>1 DEF Pages
  <2> QED
    BY <2>2 DEF HeapPages
<1> HIDE DEF a
<1>3. Freed(a) \in SUBSET written /\ (NotAliasedYet => Freed(a) \cap Kernel = {})
  BY <1>1, <1>2, BlockIndexes
<1>4. /\ pte' \in [Pt -> Entry]
      /\ slots' \subseteq Nat
      /\ Frames(written)' \subseteq Frames(written)
      /\ KernelStaysMapped'
  BY <1>0, <1>3, UnmapIInv
<1>5. FramesExclusive' /\ FreeOwned' /\ SwappedPresent'
  BY <1>0 DEF FramesExclusive, FreeOwned, SwappedPresent, Running
<1>6. TypeOK'
  <2>1. Frames(Pt) \subseteq Pool \cup Nat
    BY DEF Frames, IInv, TypeOK, Entry
  <2>2. free' \subseteq Pool \cup Nat
    <3>1. free \subseteq Pool \cup Nat /\ TableFrame \in Nat
      BY VmmAssumption DEF TableFrame, IInv, TypeOK
    <3> QED
      BY <1>0, <2>1, <3>1
  <2>3. /\ Kernel \subseteq written' /\ written' \subseteq Pt
        /\ fifo' \in Seq(Touched)
        /\ large_heap' \in Nat /\ LargeBase <= large_heap'
        /\ contexts' \subseteq LargeBase .. large_heap' - 1
    BY <1>0 DEF IInv, TypeOK
  <2>4. \A b \in larges' : /\ b.ptr \in Nat /\ b.size \in Nat
                           /\ LargeBase <= b.ptr
                           /\ b.ptr + b.size <= large_heap'
    BY <1>0 DEF IInv, TypeOK
  <2>5. Frames(written)' \subseteq Pool \cup Kernel
    BY <1>4 DEF IInv, TypeOK
  <2> QED
    BY <1>4, <2>2, <2>3, <2>4, <2>5 DEF TypeOK
<1>7. HeapWritten'
  <2>1. HeapPages' \subseteq HeapPages
    BY <1>0 DEF HeapPages, Pages
  <2>2. Index(HeapPages)' \subseteq Index(HeapPages)
    BY <2>1 DEF Index, get_table_index
  <2> QED
    BY <1>0, <2>2 DEF IInv, HeapWritten
<1> QED
  BY <1>4, <1>5, <1>6, <1>7 DEF IInv

(* A request that runs out of frames gives back every frame it took. *)
LEMMA FailIInv ==
  ASSUME IInv, NEW n \in LargeSizes, kmalloc_large_fails(n)
  PROVE  IInv'
<1> DEFINE got == Cardinality(free)
           ts == Index(Pages(NextLarge(got)))
<1>0. /\ Running /\ got < n /\ large_heap' = large_heap /\ larges' = larges
      /\ contexts' = contexts /\ slots' = slots /\ stopped' = stopped
      /\ fifo' = fifo /\ written' = written \cup ts
  BY DEF kmalloc_large_fails
<1>1. got \in Nat /\ n \in Nat /\ large_heap \in Nat /\ LargeBase \in Nat
  BY <1>0, FreeFinite, VmmAssumption DEF IInv, TypeOK
<1>2. PICK frame \in [ts -> free] :
        /\ pte' = [t \in Pt |-> IF t \in ts THEN Zero ELSE pte[t]]
        /\ free' = {frame[t] : t \in ts}
  <2>1. PICK frame \in [ts -> free] :
          /\ pte' = [t \in Pt |->
                       IF t \in RolledBack(got) THEN Zero
                       ELSE IF t \in ts THEN vmm_map_page(pte[t], frame[t])
                       ELSE pte[t]]
          /\ free' = {frame[t] : t \in RolledBack(got) \cap ts}
    BY DEF kmalloc_large_fails
  <2>2. RolledBack(got) = ts /\ RolledBack(got) \cap ts = ts
    BY DEF RolledBack
  <2> HIDE DEF ts, got
  <2> QED
    BY <2>1, <2>2
<1>3. \A v \in Pages(NextLarge(got)) :
         v \in Nat /\ v \in LargeBase .. large_heap + n - 2
  BY <1>0, <1>1 DEF Pages, NextLarge, IInv, TypeOK
<1>4. NotAliasedYet => ts \cap Kernel = {}
  <2>1. NotAliasedYet => \A v \in LargeBase .. large_heap + n - 2 :
                            v % PtSize \notin Kernel
    BY Zenon DEF NotAliasedYet
  <2> QED
    BY <1>3, <2>1, IndexInTable DEF Index
<1>5. ts \subseteq Pt
  BY <1>3, IndexInTable DEF Index
<1> HIDE DEF ts, got
<1>6. free' \subseteq free
  BY <1>2
<1>7. \A t \in Pt : pte'[t] = IF t \in ts THEN Zero ELSE pte[t]
  BY <1>2
<1>8. pte' \in [Pt -> Entry]
  <2>1. Zero \in Entry
    BY DEF Zero, Entry
  <2> QED
    BY <1>2, <2>1 DEF IInv, TypeOK
<1>9. Kernel \subseteq written /\ written \subseteq Pt
  BY DEF IInv, TypeOK
<1>10. \A t \in written' : pte'[t].p => t \in written /\ pte[t].p /\ pte'[t] = pte[t]
  BY <1>0, <1>5, <1>7, <1>9 DEF Zero
<1>11. Frames(written)' \subseteq Frames(written)
  BY <1>10 DEF Frames
<1>12. TypeOK'
  <2>1. Kernel \subseteq written' /\ written' \subseteq Pt
    BY <1>0, <1>5, <1>9
  <2> QED
    BY <1>0, <1>6, <1>8, <1>11, <2>1 DEF IInv, TypeOK
<1>13. FramesExclusive'
  <2>1. /\ Frames(written) \cap free = {}
        /\ \A t, u \in written :
             pte[t].p /\ pte[u].p /\ pte[t].frame = pte[u].frame => t = u
    BY <1>0 DEF IInv, FramesExclusive, Running
  <2>2. Frames(written)' \cap free' = {}
    BY <1>6, <1>11, <2>1
  <2>3. \A t, u \in written' :
          pte'[t].p /\ pte'[u].p /\ pte'[t].frame = pte'[u].frame => t = u
    BY <1>10, <2>1
  <2> QED
    BY <2>2, <2>3 DEF FramesExclusive
<1>14. KernelStaysMapped'
  <2>1. NotAliasedYet' => NotAliasedYet
    BY <1>0 DEF NotAliasedYet
  <2> QED
    BY <1>4, <1>7, <1>9, <2>1 DEF IInv, KernelStaysMapped
<1>15. FreeOwned'
  BY <1>0, <1>6 DEF IInv, FreeOwned
<1>16. SwappedPresent'
  <2>1. \A t \in written : pte[t].s => pte[t].p
    BY <1>0, ExclusiveEntries
  <2> QED
    BY <1>0, <1>5, <1>7, <1>9, <2>1 DEF SwappedPresent, Zero
<1>17. HeapWritten'
  <2>1. HeapPages' = HeapPages
    BY <1>0 DEF HeapPages, Pages
  <2>2. Index(HeapPages)' \subseteq Index(HeapPages)
    BY <2>1 DEF Index, get_table_index
  <2> QED
    BY <1>0, <2>2 DEF IInv, HeapWritten
<1> QED
  BY <1>12, <1>13, <1>14, <1>15, <1>16, <1>17 DEF IInv

(* What a fault may do to one entry that is not present: give it a free    *)
(* frame, and take that frame from pmm if the entry becomes present.  Any  *)
(* other entry the kernel may ever see stays as it is.                     *)
LEMMA EntryIInv ==
  ASSUME IInv, Running, NEW i \in Pt, ~pte[i].p, NEW e \in Entry,
         NEW f \in free, e.frame = f,
         pte' = [pte EXCEPT ![i] = e], written' = written \cup {i},
         free' \subseteq free, e.p => free' = free \ {f},
         fifo' \in Seq(Touched), UNCHANGED <<slots, large_heap, larges, contexts>>,
         stopped' # "kernel freed", Running' => (e.s => e.p)
  PROVE  IInv'
<1>0. /\ written \subseteq Pt /\ Kernel \subseteq written
      /\ pte \in [Pt -> Entry] /\ Kernel \subseteq Nat
  BY KernelNumbers DEF IInv, TypeOK
<1>1. /\ \A t, u \in written :
           pte[t].p /\ pte[u].p /\ pte[t].frame = pte[u].frame => t = u
      /\ \A t \in written : pte[t].p => pte[t].frame \notin free
      /\ free \subseteq Pool \cup Kernel
      /\ \A t \in written : pte[t].s => pte[t].p
  BY ExclusiveEntries
<1>2. \A t \in Pt : pte'[t] = IF t = i THEN e ELSE pte[t]
  BY <1>0
<1>3. pte' \in [Pt -> Entry]
  BY <1>0
<1>4. Frames(written)' \subseteq Pool \cup Kernel
  <2>1. \A t \in written : pte[t].p => pte[t].frame \in Pool \cup Kernel
    BY DEF Frames, IInv, TypeOK
  <2>2. \A t \in written' : pte'[t].p => pte'[t].frame \in Pool \cup Kernel
    BY <1>0, <1>1, <1>2, <2>1
  <2> QED
    BY <2>2 DEF Frames
<1>5. TypeOK'
  <2>1. Kernel \subseteq written' /\ written' \subseteq Pt
    BY <1>0
  <2>2. free' \subseteq Pool \cup Nat
    BY <1>0, <1>1
  <2>3. /\ slots' \subseteq Nat
        /\ large_heap' \in Nat /\ LargeBase <= large_heap'
        /\ contexts' \subseteq LargeBase .. large_heap' - 1
    BY DEF IInv, TypeOK
  <2>4. \A b \in larges' : /\ b.ptr \in Nat /\ b.size \in Nat
                           /\ LargeBase <= b.ptr
                           /\ b.ptr + b.size <= large_heap'
    BY DEF IInv, TypeOK
  <2> QED
    BY <1>3, <1>4, <2>1, <2>2, <2>3, <2>4 DEF TypeOK
<1>6. FramesExclusive'
  <2>0. /\ \A t \in written' : t \in written \/ t = i
        /\ pte'[i] = e /\ \A t \in written : t # i => pte'[t] = pte[t]
    BY <1>0, <1>2
  <2>1. ASSUME NEW t \in written', NEW u \in written', pte'[t].p, pte'[u].p,
               pte'[t].frame = pte'[u].frame
        PROVE  t = u
    <3>1. CASE t # i /\ u # i
      BY <1>1, <2>0, <2>1, <3>1
    <3>2. CASE t = i /\ u # i
      <4>1. u \in written /\ pte'[u] = pte[u] /\ pte'[i].frame = f
        BY <2>0, <3>2
      <4>2. pte[u].p /\ pte[u].frame = f
        BY <2>1, <3>2, <4>1
      <4> QED
        BY <1>1, <4>1, <4>2
    <3>3. CASE t # i /\ u = i
      <4>1. t \in written /\ pte'[t] = pte[t] /\ pte'[i].frame = f
        BY <2>0, <3>3
      <4>2. pte[t].p /\ pte[t].frame = f
        BY <2>1, <3>3, <4>1
      <4> QED
        BY <1>1, <4>1, <4>2
    <3> QED
      BY <3>1, <3>2, <3>3
  <2>2. \A t \in written' : pte'[t].p => pte'[t].frame \notin free'
    BY <1>0, <1>1, <1>2
  <2>3. Frames(written)' \cap free' = {}
    BY <2>2 DEF Frames
  <2> QED
    BY <2>1, <2>3 DEF FramesExclusive
<1>7. KernelStaysMapped'
  <2>1. NotAliasedYet' => NotAliasedYet
    BY DEF NotAliasedYet
  <2> QED
    BY <1>0, <1>2, <2>1 DEF IInv, KernelStaysMapped
<1>8. FreeOwned'
  BY <1>1 DEF FreeOwned
<1>9. SwappedPresent'
  BY <1>0, <1>1, <1>2 DEF SwappedPresent
<1>10. HeapWritten'
  <2>1. HeapPages' = HeapPages
    BY DEF HeapPages, Pages
  <2>2. Index(HeapPages)' \subseteq Index(HeapPages)
    BY <2>1 DEF Index, get_table_index
  <2> QED
    BY <2>2 DEF IInv, HeapWritten
<1> QED
  BY <1>5, <1>6, <1>7, <1>8, <1>9, <1>10 DEF IInv

(* A page fault that finds a frame preserves the invariant, whether or not *)
(* the page gets into the queue.                                           *)
LEMMA FaultServedIInv ==
  ASSUME IInv, NEW v \in Touched, FaultServed(v) \/ FaultHalts(v)
  PROVE  IInv'
<1> DEFINE i == get_table_index(v)
<1>0. /\ Running /\ ~pte[i].p /\ ~pte[i].s
      /\ UNCHANGED <<slots, large_heap, larges, contexts>>
      /\ fifo' = Append(fifo, v) \/ fifo' = fifo
      /\ stopped' = stopped \/ stopped' = "panic"
  BY DEF FaultServed, FaultHalts, Faults, Swapped, Queued
<1>1. i \in Pt
  BY IndexInTable, VmmAssumption
<1>2. PICK f \in free : /\ pte' = [pte EXCEPT ![i] = vmm_map_page(pte[i], f)]
                        /\ written' = written \cup {i}
                        /\ free' = free \ {f}
  BY DEF FaultServed, FaultHalts, vmm_alloc_permanent_page, WriteEntry
<1> HIDE DEF i
<1>3. f \in Pool \cup Nat /\ pte[i] \in Entry /\ fifo \in Seq(Touched)
  BY <1>1 DEF IInv, TypeOK
<1> DEFINE e == vmm_map_page(pte[i], f)
<1>4. e \in Entry /\ e.frame = f /\ e.p /\ ~e.s
  BY <1>0, <1>3 DEF vmm_map_page, Entry
<1>5. fifo' \in Seq(Touched)
  BY <1>0, <1>3
<1>6. stopped' # "kernel freed"
  BY <1>0 DEF Running
<1>7. pte' = [pte EXCEPT ![i] = e]
  BY <1>2
<1> HIDE DEF e
<1> QED
  BY <1>0, <1>1, <1>2, <1>4, <1>5, <1>6, <1>7, EntryIInv

(* A fault that ends the model with a frame in an entry that is not        *)
(* present.                                                                *)
LEMMA FaultSwapsInIInv ==
  ASSUME IInv, NEW v \in Touched, FaultSwapsIn(v)
  PROVE  IInv'
<1> DEFINE i == get_table_index(v)
<1>0. /\ Running /\ ~pte[i].p
      /\ UNCHANGED <<slots, large_heap, larges, contexts, fifo>>
      /\ stopped' = "swapping in"
  BY DEF FaultSwapsIn, Faults
<1>1. i \in Pt
  BY IndexInTable, VmmAssumption
<1>2. PICK f \in free : /\ pte' = [pte EXCEPT ![i] = [pte[i] EXCEPT !.frame = f]]
                        /\ written' = written \cup {i}
                        /\ free' \subseteq free
  BY DEF FaultSwapsIn, WriteEntry
<1> HIDE DEF i
<1>3. f \in Pool \cup Nat /\ pte[i] \in Entry /\ fifo \in Seq(Touched)
  BY <1>1 DEF IInv, TypeOK
<1> DEFINE e == [pte[i] EXCEPT !.frame = f]
<1>4. e \in Entry /\ e.frame = f /\ ~e.p
  BY <1>0, <1>3 DEF Entry
<1>5. fifo' \in Seq(Touched)
  BY <1>0, <1>3
<1>6. stopped' # "kernel freed" /\ ~Running'
  BY <1>0 DEF Running
<1>7. pte' = [pte EXCEPT ![i] = e]
  BY <1>2
<1> HIDE DEF e
<1> QED
  BY <1>0, <1>1, <1>2, <1>4, <1>5, <1>6, <1>7, EntryIInv

(* Steps that change neither the table nor pmm and heap. *)
LEMMA QuietIInv ==
  ASSUME IInv, UNCHANGED <<pte, free, large_heap, larges, contexts, written>>,
         slots' \subseteq slots, fifo' \in Seq(Touched),
         \/ stopped' = stopped
         \/ Running /\ stopped' \in {"panic", "retrying", "heap overwritten"}
  PROVE  IInv'
<1>1. Frames(written)' = Frames(written)
  BY DEF Frames
<1>2. TypeOK'
  BY <1>1 DEF IInv, TypeOK
<1>3. KernelStaysMapped'
  BY DEF IInv, KernelStaysMapped, NotAliasedYet
<1>4. FramesExclusive' /\ FreeOwned' /\ SwappedPresent'
  BY <1>1 DEF IInv, FramesExclusive, FreeOwned, SwappedPresent, Running
<1>5. HeapWritten'
  <2>1. HeapPages' = HeapPages
    BY DEF HeapPages, Pages
  <2>2. Index(HeapPages)' \subseteq Index(HeapPages)
    BY <2>1 DEF Index, get_table_index
  <2> QED
    BY <2>2 DEF IInv, HeapWritten
<1> QED
  BY <1>2, <1>3, <1>4, <1>5 DEF IInv

(* A page to swap out is taken from the queue, but never swapped out: pmm  *)
(* has no frame for the buffer of disk_write.                              *)
LEMMA SwapOutStuck ==
  ASSUME NEW v \in Touched, FaultSwapsOut(v)
  PROVE  /\ Running /\ UNCHANGED <<pte, free, large_heap, larges, contexts, written>>
         /\ slots' \subseteq slots /\ stopped' = "retrying"
         /\ fifo # <<>> /\ fifo' = Tail(fifo)
<1>1. ~BufferForWrite
  BY DEF FaultSwapsOut, MustSwap, BufferForWrite
<1> QED
  BY <1>1 DEF FaultSwapsOut, Faults

(* A page fault without a frame preserves the invariant. *)
LEMMA FaultWithoutFrameIInv ==
  ASSUME IInv, NEW v \in Touched, FaultSwapsOut(v) \/ FaultPanics(v)
  PROVE  IInv'
<1>1. fifo \in Seq(Touched)
  BY DEF IInv, TypeOK
<1>2. CASE FaultSwapsOut(v)
  <2>1. /\ Running /\ UNCHANGED <<pte, free, large_heap, larges, contexts, written>>
        /\ slots' \subseteq slots /\ stopped' = "retrying"
        /\ fifo # <<>> /\ fifo' = Tail(fifo)
    BY <1>2, SwapOutStuck
  <2>2. fifo' \in Seq(Touched)
    BY <1>1, <2>1
  <2> QED
    BY <2>1, <2>2, QuietIInv
<1>3. CASE FaultPanics(v)
  <2>1. /\ Running /\ UNCHANGED <<pte, free, large_heap, larges, contexts, written>>
        /\ slots' \subseteq slots /\ stopped' = "panic"
        /\ fifo' = IF fifo = <<>> THEN fifo ELSE Tail(fifo)
    BY <1>3 DEF FaultPanics, Faults
  <2>2. fifo' \in Seq(Touched)
    BY <1>1, <2>1
  <2> QED
    BY <2>1, <2>2, QuietIInv
<1> QED
  BY <1>2, <1>3

(* Every step preserves the invariant. *)
THEOREM InductiveInvariant == Spec => []IInv
<1>1. Init => IInv
  BY InitIInv
<1>2. IInv /\ [Next]_vars => IInv'
  <2> SUFFICES ASSUME IInv, [Next]_vars PROVE IInv'
    OBVIOUS
  <2>0. fifo \in Seq(Touched)
    BY DEF IInv, TypeOK
  <2>1. ASSUME NEW n \in LargeSizes, kmalloc_large(n) PROVE IInv'
    BY <2>1, AllocIInv
  <2>2. ASSUME NEW n \in LargeSizes, kmalloc_large_fails(n) PROVE IInv'
    BY <2>2, FailIInv
  <2>3. ASSUME NEW a \in larges, kfree_large(a) PROVE IInv'
    BY <2>3, FreeIInv
  <2>4. ASSUME NEW v \in Touched, FaultServed(v) \/ FaultHalts(v) PROVE IInv'
    BY <2>4, FaultServedIInv
  <2>5. ASSUME NEW v \in Touched, FaultSwapsIn(v) PROVE IInv'
    BY <2>5, FaultSwapsInIInv
  <2>6. ASSUME NEW v \in Touched, FaultSwapsOut(v) \/ FaultPanics(v) PROVE IInv'
    BY <2>6, FaultWithoutFrameIInv
  <2>7. CASE vmm_create_vm_context
    BY <2>7, CreateIInv
  <2>8. CASE CreateWithoutFrame
    BY <2>0, <2>8, QuietIInv DEF CreateWithoutFrame
  <2>9. ASSUME NEW c \in contexts, vmm_switch_vm_context(c) PROVE IInv'
    BY <2>0, <2>9, QuietIInv DEF vmm_switch_vm_context
  <2>10. ASSUME NEW c \in contexts, vmm_destroy_vm_context(c) PROVE IInv'
    BY <2>10, DestroyIInv
  <2>11. CASE Stopped \/ UNCHANGED vars
    BY <2>0, <2>11, QuietIInv DEF Stopped, vars
  <2> QED
    BY <2>1, <2>2, <2>3, <2>4, <2>5, <2>6, <2>7, <2>8, <2>9, <2>10, <2>11 DEF Next
<1> QED
  BY <1>1, <1>2, PTL DEF Spec

(* No frame is in two entries the kernel has written, or in one of them    *)
(* while it is free, for every table, kernel layout, pool and content left *)
(* by the firmware (vmm_map_page, vmm_unmap_page, page_fault_handler and   *)
(* the roll-back of kmalloc_large).                                        *)
THEOREM Exclusive == Spec => []FramesExclusive
<1>1. IInv => FramesExclusive
  BY DEF IInv
<1> QED
  BY <1>1, InductiveInvariant, PTL

(* The kernel's own pages are safe from faults, large blocks and contexts  *)
(* until the large heap reaches one of their table indexes.                *)
THEOREM KernelKept == Spec => []KernelStaysMapped
<1>1. IInv => KernelStaysMapped
  BY DEF IInv
<1> QED
  BY <1>1, InductiveInvariant, PTL

-----------------------------------------------------------------------------
(* Mapping and unmapping an entry never adds SWAPPED to it. *)
LEMMA MapsDoNotSwap ==
  ASSUME NEW e \in Entry, ~e.s, NEW f
  PROVE  ~vmm_map_page(e, f).s /\ ~vmm_unmap_page(e).s /\ ~Zero.s
         /\ ~[e EXCEPT !.frame = f].s
BY DEF vmm_map_page, vmm_unmap_page, Zero, Entry

(* No step swaps a page out: vmm_swap_out_page runs only when pmm has no   *)
(* frame, and then disk_write's kmalloc fails at every retry, so that the  *)
(* entry is never rewritten and the fault never served.                    *)
THEOREM SwapNeverHappens == Spec => NothingSwappedOut
<1>1. ASSUME IInv, [Next]_vars, NEW t \in Pt, ~pte[t].s
      PROVE  ~pte'[t].s
  <2>0. pte \in [Pt -> Entry] /\ pte[t] \in Entry
    BY <1>1 DEF IInv, TypeOK
  <2>1. ASSUME NEW n, MapPages(NextLarge(n)) PROVE ~pte'[t].s
    BY <1>1, <2>0, <2>1, MapsDoNotSwap DEF MapPages
  <2>2. ASSUME NEW n \in LargeSizes, kmalloc_large_fails(n) PROVE ~pte'[t].s
    BY <1>1, <2>0, <2>2, MapsDoNotSwap DEF kmalloc_large_fails
  <2>3. ASSUME NEW ts, UnmapAll(ts) PROVE ~pte'[t].s
    BY <1>1, <2>0, <2>3, MapsDoNotSwap DEF UnmapAll, OnIndexes
  <2>4. ASSUME NEW v \in Touched, NEW f, NEW e,
               WriteEntry(v, e),
               e = vmm_map_page(pte[get_table_index(v)], f)
                 \/ e = [pte[get_table_index(v)] EXCEPT !.frame = f]
        PROVE  ~pte'[t].s
    <3>1. get_table_index(v) \in Pt
      BY IndexInTable, VmmAssumption
    <3>2. pte'[t] = IF t = get_table_index(v) THEN e ELSE pte[t]
      BY <2>0, <2>4, <3>1 DEF WriteEntry
    <3> QED
      BY <1>1, <2>0, <2>4, <3>2, MapsDoNotSwap
  <2>5. ASSUME NEW v \in Touched,
               FaultServed(v) \/ FaultHalts(v) \/ FaultSwapsIn(v)
        PROVE  ~pte'[t].s
    BY <2>4, <2>5, Zenon DEF FaultServed, FaultHalts, FaultSwapsIn,
                             vmm_alloc_permanent_page
  <2>6. ASSUME NEW v \in Touched, FaultSwapsOut(v) PROVE ~pte'[t].s
    BY <1>1, <2>6, SwapOutStuck
  <2>7. CASE UNCHANGED pte
    BY <1>1, <2>7
  <2>8. ASSUME NEW n \in LargeSizes, kmalloc_large(n) PROVE ~pte'[t].s
    BY <2>1, <2>8 DEF kmalloc_large
  <2>9. CASE vmm_create_vm_context
    BY <2>1, <2>9 DEF vmm_create_vm_context
  <2>10. ASSUME NEW a \in larges, kfree_large(a) PROVE ~pte'[t].s
    BY <2>3, <2>10 DEF kfree_large
  <2>11. ASSUME NEW c \in contexts, vmm_destroy_vm_context(c) PROVE ~pte'[t].s
    BY <2>3, <2>11 DEF vmm_destroy_vm_context
  <2>12. ASSUME NEW v \in Touched, FaultPanics(v) PROVE ~pte'[t].s
    BY <2>7, <2>12 DEF FaultPanics
  <2>13. CASE CreateWithoutFrame \/ Stopped \/ UNCHANGED vars
    BY <2>7, <2>13 DEF CreateWithoutFrame, Stopped, vars
  <2>14. ASSUME NEW c \in contexts, vmm_switch_vm_context(c) PROVE ~pte'[t].s
    BY <2>7, <2>14 DEF vmm_switch_vm_context
  <2> QED
    BY <1>1, <2>2, <2>5, <2>6, <2>8, <2>9, <2>10, <2>11, <2>12, <2>13, <2>14 DEF Next
<1>2. IInv /\ [Next]_vars => [\A t \in Pt : ~pte[t].s => ~pte'[t].s]_vars
  BY <1>1
<1> QED
  BY <1>2, InductiveInvariant, PTL DEF Spec, NothingSwappedOut

-----------------------------------------------------------------------------
(* The division of an index computation leaves the remainder % returns. *)
LEMMA DivMod ==
  ASSUME NEW m \in Int, m > 0, NEW a \in Int
  PROVE  a = m * (a \div m) + (a % m)
OBVIOUS

(* A multiple of m is 0 or at least m. *)
LEMMA MulLarge == \A m \in Nat, d \in Nat : d >= 1 => m * d >= m
OBVIOUS

(* Products distribute over differences. *)
LEMMA MulDiff ==
  \A m \in Int, q \in Int, r \in Int : m * (r - q) = m * r - m * q
OBVIOUS

(* Two pages of one table index lie a whole table apart. *)
LEMMA AliasesFarApart ==
  ASSUME NEW m \in Nat \ {0}, NEW a \in Nat, NEW b \in Nat,
         a % m = b % m, a < b
  PROVE  b - a >= m
<1>1. PICK q \in Int, r \in Int, x \in Int : a = m * q + x /\ b = m * r + x
  <2>1. a = m * (a \div m) + (a % m) /\ b = m * (b \div m) + (b % m)
    BY DivMod
  <2>2. a \div m \in Int /\ b \div m \in Int /\ a % m \in Int
    OBVIOUS
  <2> QED
    BY <2>1, <2>2, Zenon
<1>2. b - a = m * (r - q)
  BY <1>1, MulDiff
<1>3. r - q \in Nat /\ r - q >= 1
  <2>1. CASE r <= q
    <3>1. q - r \in Nat
      BY <2>1
    <3>2. m * (q - r) >= 0
      BY <3>1
    <3>3. m * (q - r) = m * q - m * r
      BY MulDiff
    <3> QED
      BY <3>2, <3>3, <1>1
  <2> QED
    BY <2>1
<1> QED
  BY <1>2, <1>3, MulLarge

(* The pages of a request no larger than a table have as many indexes. *)
LEMMA IndexesOfRange ==
  ASSUME NEW p \in Nat, NEW n \in Nat, n <= PtSize
  PROVE  /\ IsFiniteSet(Index(p .. p + n - 1))
         /\ Cardinality(Index(p .. p + n - 1)) = n
<1> DEFINE R == p .. p + n - 1
           f == [v \in R |-> get_table_index(v)]
<1>1. IsFiniteSet(R) /\ Cardinality(R) = n
  <2>1. p + n - 1 \in Int
    OBVIOUS
  <2>2. /\ IsFiniteSet(p .. p + n - 1)
        /\ Cardinality(p .. p + n - 1)
             = IF p > p + n - 1 THEN 0 ELSE (p + n - 1) - p + 1
    BY <2>1, FS_Interval
  <2>3. (IF p > p + n - 1 THEN 0 ELSE (p + n - 1) - p + 1) = n
    OBVIOUS
  <2> QED
    BY <2>2, <2>3
<1>2. \A v \in R : v \in Nat
  OBVIOUS
<1>3. ASSUME NEW v \in R, NEW w \in R, get_table_index(v) = get_table_index(w)
      PROVE  v = w
  <2>1. v \in Nat /\ w \in Nat /\ v - w < n /\ w - v < n
    OBVIOUS
  <2>2. PtSize \in Nat \ {0} /\ v % PtSize = w % PtSize
    BY <1>3, VmmAssumption DEF get_table_index
  <2>3. v < w => w - v >= PtSize
    BY <2>1, <2>2, AliasesFarApart
  <2>4. w < v => v - w >= PtSize
    BY <2>1, <2>2, AliasesFarApart
  <2> QED
    BY <2>1, <2>2, <2>3, <2>4
<1> HIDE DEF R
<1>4. f \in [R -> Index(R)]
  BY DEF Index
<1>5. IsInjective(f)
  BY <1>3 DEF IsInjective
<1>6. f \in Surjection(R, Index(R))
  BY <1>4 DEF Surjection, Index
<1>7. f \in Injection(R, Index(R))
  BY <1>4, <1>5 DEF Injection
<1> HIDE DEF f
<1>8. IsFiniteSet(Index(R)) /\ Cardinality(Index(R)) = Cardinality(R)
  BY <1>1, <1>6, <1>7, FS_Surjection
<1> QED
  BY <1>1, <1>8 DEF R

(* The heap's pages have entries the kernel has written. *)
LEMMA HeapInTable ==
  ASSUME IInv
  PROVE  Index(HeapPages) \subseteq written /\ Index(HeapPages) \subseteq Pt
         /\ written \subseteq Pt /\ Kernel \subseteq written
BY DEF IInv, HeapWritten, TypeOK

(* A large block mapped while nothing collides: its indexes were not       *)
(* present, and the rest of the table is as it was.                        *)
LEMMA MapPagesCalm ==
  ASSUME IInv, CalmInv, NEW n \in LargeSizes \cup {1}, MapPages(NextLarge(n)),
         Undisturbed, ~collided', fifo' = fifo,
         NEW ts, ts = Index(Pages(NextLarge(n))),
         \A t : t \in Index(HeapPages)' <=> t \in Index(HeapPages) \cup ts
  PROVE  /\ ts \subseteq Pt \ Kernel /\ \A t \in ts \cap written : ~pte[t].p
         /\ KernelPresent' /\ HeapPresent' /\ QueueInjective'
         /\ free' \cup Frames(written \ Kernel)' = Pool
<1>0. n \in Nat /\ large_heap \in Nat
  BY VmmAssumption DEF IInv, TypeOK
<1>1. Pages(NextLarge(n)) = large_heap .. large_heap + n - 1
  BY DEF Pages, NextLarge
<1>2. ts \subseteq Pt
  BY <1>0, <1>1, IndexInTable DEF Index
<1>3. PICK frame \in [ts -> free] :
        /\ pte' = [t \in Pt |-> IF t \in ts THEN vmm_map_page(pte[t], frame[t])
                                            ELSE pte[t]]
        /\ free' = free \ {frame[t] : t \in ts}
  BY DEF MapPages
<1>4. /\ \A t \in ts \cap written : ~pte[t].p
      /\ written' = written \cup ts
      /\ Index(HeapPages) \subseteq written /\ written \subseteq Pt
      /\ Kernel \subseteq written
  <2>1. ~Overwrites(ts) /\ written' = written \cup ts
    BY DEF MapPages
  <2> QED
    BY <2>1, HeapInTable DEF Overwrites
<1>5. KernelPresent /\ HeapPresent /\ QueueInjective
      /\ free \cup Frames(written \ Kernel) = Pool
  BY DEF CalmInv, FramesConserved
<1>6. ts \cap Kernel = {}
  BY <1>4, <1>5 DEF KernelPresent
<1>7. \A t \in Pt : /\ t \in ts => pte'[t].p /\ pte'[t].frame = frame[t]
                    /\ t \notin ts => pte'[t] = pte[t]
  BY <1>3 DEF vmm_map_page, IInv, TypeOK, Entry
<1>8. KernelPresent'
  BY <1>4, <1>5, <1>6, <1>7 DEF KernelPresent
<1>9. Index(HeapPages) \subseteq Pt
  BY <1>4
<1>10. HeapPresent'
  BY <1>2, <1>5, <1>6, <1>7, <1>9 DEF HeapPresent
<1>11. DemandPages' = DemandPages
  BY <1>2, <1>4, <1>6, <1>7 DEF DemandPages
<1>12. QueueInjective'
  BY <1>5, <1>11 DEF QueueInjective
<1>13. ASSUME NEW f
       PROVE  f \in Frames(written \ Kernel)'
                <=> f \in Frames(written \ Kernel) \/ \E t \in ts : f = frame[t]
  <2>1. f \in Frames(written \ Kernel)'
          <=> \E t \in written' \ Kernel : pte'[t].p /\ f = pte'[t].frame
    BY DEF Frames
  <2>2. f \in Frames(written \ Kernel)
          <=> \E t \in written \ Kernel : pte[t].p /\ f = pte[t].frame
    BY DEF Frames
  <2> QED
    BY <1>2, <1>4, <1>6, <1>7, <2>1, <2>2
<1>14. free' \cup Frames(written \ Kernel)' = Pool
  <2>1. \A t \in ts : frame[t] \in free
    BY <1>3
  <2>2. \A f : f \in free' <=> f \in free /\ ~\E t \in ts : f = frame[t]
    BY <1>3
  <2>3. ASSUME NEW f
        PROVE  f \in free' \cup Frames(written \ Kernel)'
                 <=> f \in free \cup Frames(written \ Kernel)
    <3>1. f \in Frames(written \ Kernel)'
            <=> f \in Frames(written \ Kernel) \/ \E t \in ts : f = frame[t]
      BY <1>13
    <3> QED
      BY <2>1, <2>2, <3>1
  <2> QED
    BY <2>3, <1>5
<1> QED
  BY <1>2, <1>4, <1>6, <1>8, <1>10, <1>12, <1>14

(* kmalloc_large while nothing collides. *)
LEMMA AllocCalm ==
  ASSUME IInv, CalmInv, NEW n \in LargeSizes, kmalloc_large(n)
  PROVE  CalmInv'
<1> SUFFICES ASSUME Undisturbed' PROVE CalmInv'
  BY DEF CalmInv
<1> DEFINE b == NextLarge(n)
           ts == Index(Pages(NextLarge(n)))
<1>1. /\ Running /\ MapPages(b) /\ larges' = larges \cup {b}
      /\ contexts' = contexts /\ fifo' = fifo
  BY DEF kmalloc_large
<1>2. ~collided' /\ ~collided
  BY <1>1, Zenon DEF MapPages, Undisturbed
<1>3. Undisturbed
  BY <1>1, <1>2 DEF Undisturbed
<1>4. \A t : t \in Index(HeapPages)' <=> t \in Index(HeapPages) \cup ts
  <2>1. \A v : v \in HeapPages' <=> v \in HeapPages \/ v \in Pages(b)
    BY <1>1 DEF HeapPages, Pages
  <2> QED
    BY <2>1 DEF Index, get_table_index
<1>5. /\ ts \subseteq Pt \ Kernel /\ \A t \in ts \cap written : ~pte[t].p
      /\ KernelPresent' /\ HeapPresent' /\ QueueInjective'
      /\ free' \cup Frames(written \ Kernel)' = Pool
  BY <1>1, <1>2, <1>3, <1>4, MapPagesCalm
<1>6. HeapPresent /\ BlocksApart
  BY <1>3 DEF CalmInv
<1>7. ts \cap Index(HeapPages) = {}
  BY <1>5, <1>6, HeapInTable DEF HeapPresent
<1>8. b.size >= 1
  BY VmmAssumption DEF NextLarge
<1> HIDE DEF b
<1>9. /\ \A a \in larges : ts \cap Index(Pages(a)) = {}
      /\ ts \cap Index(contexts) = {}
  BY <1>7, HeapIndexes
<1>10. Index(Pages(b)) = ts
  BY DEF b
<1> HIDE DEF ts
<1>11. BlocksApart'
  <2>1. ASSUME NEW a \in larges'
        PROVE  a.size >= 1 /\ Index(Pages(a)) \cap Index(contexts') = {}
    BY <1>1, <1>6, <1>8, <1>9, <1>10 DEF BlocksApart
  <2>2. ASSUME NEW a \in larges', NEW c \in larges', a # c
        PROVE  Index(Pages(a)) \cap Index(Pages(c)) = {}
    BY <2>2, <1>1, <1>6, <1>9, <1>10 DEF BlocksApart
  <2> QED
    BY <2>1, <2>2 DEF BlocksApart, Index, Pages, get_table_index
<1> QED
  BY <1>5, <1>11 DEF CalmInv, FramesConserved

(* vmm_create_vm_context while nothing collides. *)
LEMMA CreateCalm ==
  ASSUME IInv, CalmInv, vmm_create_vm_context
  PROVE  CalmInv'
<1> SUFFICES ASSUME Undisturbed' PROVE CalmInv'
  BY DEF CalmInv
<1> DEFINE ts == Index(Pages(NextLarge(1)))
<1>1. /\ Running /\ MapPages(NextLarge(1)) /\ larges' = larges
      /\ contexts' = contexts \cup {large_heap} /\ fifo' = fifo
  BY DEF vmm_create_vm_context
<1>2. ~collided' /\ ~collided
  BY <1>1, Zenon DEF MapPages, Undisturbed
<1>3. Undisturbed
  BY <1>1, <1>2 DEF Undisturbed
<1>4. Pages(NextLarge(1)) = {large_heap}
  BY DEF Pages, NextLarge, IInv, TypeOK
<1>5. \A t : t \in Index(HeapPages)' <=> t \in Index(HeapPages) \cup ts
  <2>1. \A v : v \in HeapPages' <=> v \in HeapPages \/ v = large_heap
    BY <1>1 DEF HeapPages, Pages
  <2> QED
    BY <2>1, <1>4 DEF Index, get_table_index
<1>6. /\ ts \subseteq Pt \ Kernel /\ \A t \in ts \cap written : ~pte[t].p
      /\ KernelPresent' /\ HeapPresent' /\ QueueInjective'
      /\ free' \cup Frames(written \ Kernel)' = Pool
  BY <1>1, <1>2, <1>3, <1>5, MapPagesCalm
<1>7. HeapPresent /\ BlocksApart
  BY <1>3 DEF CalmInv
<1>8. ts \cap Index(HeapPages) = {}
  BY <1>6, <1>7, HeapInTable DEF HeapPresent
<1>9. \A a \in larges : ts \cap Index(Pages(a)) = {}
  BY <1>8, HeapIndexes
<1>10. Index(contexts') = Index(contexts) \cup ts
  BY <1>1, <1>4 DEF Index
<1> HIDE DEF ts
<1>11. BlocksApart'
  <2>1. ASSUME NEW a \in larges
        PROVE  a.size >= 1 /\ Index(Pages(a)) \cap Index(contexts') = {}
    BY <1>7, <1>9, <1>10 DEF BlocksApart
  <2>2. ASSUME NEW a \in larges, NEW c \in larges, a # c
        PROVE  Index(Pages(a)) \cap Index(Pages(c)) = {}
    BY <2>2, <1>7 DEF BlocksApart
  <2> QED
    BY <1>1, <2>1, <2>2 DEF BlocksApart, Index, Pages, get_table_index
<1> QED
  BY <1>6, <1>11 DEF CalmInv, FramesConserved

(* A request that fails puts back every frame: it had mapped as many pages *)
(* as pmm had frames, one frame each.                                      *)
LEMMA FailCalm ==
  ASSUME IInv, CalmInv, NEW n \in LargeSizes, kmalloc_large_fails(n)
  PROVE  CalmInv'
<1> SUFFICES ASSUME Undisturbed' PROVE CalmInv'
  BY DEF CalmInv
<1> DEFINE got == Cardinality(free)
           ts == Index(Pages(NextLarge(got)))
<1>0. /\ Running /\ got < n /\ larges' = larges /\ contexts' = contexts
      /\ fifo' = fifo /\ written' = written \cup ts
  BY DEF kmalloc_large_fails
<1>1. /\ got \in Nat /\ n \in Nat /\ n <= PtSize /\ large_heap \in Nat
      /\ IsFiniteSet(free) /\ PtSize \in Nat
  BY <1>0, FreeFinite, VmmAssumption DEF IInv, TypeOK
<1>2. PICK frame \in [ts -> free] :
        /\ IsInjective(frame)
        /\ pte' = [t \in Pt |-> IF t \in ts THEN Zero ELSE pte[t]]
        /\ free' = {frame[t] : t \in ts}
  <2>1. PICK frame \in [ts -> free] :
          /\ IsInjective(frame)
          /\ pte' = [t \in Pt |->
                       IF t \in RolledBack(got) THEN Zero
                       ELSE IF t \in ts THEN vmm_map_page(pte[t], frame[t])
                       ELSE pte[t]]
          /\ free' = {frame[t] : t \in RolledBack(got) \cap ts}
    BY DEF kmalloc_large_fails
  <2>2. RolledBack(got) = ts /\ RolledBack(got) \cap ts = ts
    BY DEF RolledBack
  <2> HIDE DEF ts, got
  <2> QED
    BY <2>1, <2>2
<1>3. ~collided /\ \A t \in ts \cap written : ~pte[t].p
  <2>1. collided' = (collided \/ Overwrites(ts))
    BY DEF kmalloc_large_fails
  <2> HIDE DEF ts
  <2> QED
    BY <2>1, Zenon DEF Undisturbed, Overwrites
<1>4. Undisturbed
  BY <1>0, <1>3 DEF Undisturbed
<1>5. KernelPresent /\ HeapPresent /\ BlocksApart /\ QueueInjective
      /\ free \cup Frames(written \ Kernel) = Pool
  BY <1>4 DEF CalmInv, FramesConserved
<1>6. IsFiniteSet(ts) /\ Cardinality(ts) = got
  <2>1. Pages(NextLarge(got)) = large_heap .. large_heap + got - 1
    BY DEF Pages, NextLarge
  <2>2. got <= PtSize
    BY <1>0, <1>1
  <2> HIDE DEF got
  <2> QED
    BY <1>1, <2>1, <2>2, IndexesOfRange
<1> HIDE DEF ts
<1>7. free' = free
  <2>1. frame \in Injection(ts, free)
    BY <1>2 DEF Injection
  <2>2. frame \in Surjection(ts, free)
    BY <2>1, <1>1, <1>6, FS_Injection
  <2> QED
    BY <2>2, <1>2 DEF Surjection
<1>8. /\ \A t \in written : /\ pte'[t].p <=> pte[t].p
                            /\ pte[t].p => pte'[t].frame = pte[t].frame
      /\ \A t \in written' \ written : ~pte'[t].p
  <2>1. \A t \in Pt : pte[t].p \in BOOLEAN
    BY DEF IInv, TypeOK, Entry
  <2>2. written \subseteq Pt /\ ts \subseteq Pt
    <3>1. ts \subseteq Pt
      BY <1>1, IndexInTable DEF ts, Index, Pages, NextLarge
    <3> QED
      BY <3>1, HeapInTable
  <2> QED
    BY <1>0, <1>2, <1>3, <2>1, <2>2 DEF Zero
<1>9. Frames(written \ Kernel)' = Frames(written \ Kernel)
  BY <1>0, <1>8 DEF Frames
<1>10. Index(HeapPages)' = Index(HeapPages)
  BY <1>0 DEF Index, HeapPages, Pages, get_table_index
<1>11. DemandPages' = DemandPages
  BY <1>0, <1>8, <1>10 DEF DemandPages
<1>12. KernelPresent'
  BY <1>5, <1>8, HeapInTable DEF KernelPresent
<1>13. HeapPresent'
  BY <1>5, <1>8, <1>10, HeapInTable DEF HeapPresent
<1>14. QueueInjective'
  BY <1>0, <1>5, <1>11 DEF QueueInjective
<1>15. BlocksApart'
  BY <1>0, <1>5 DEF BlocksApart, Index, Pages, get_table_index
<1> QED
  BY <1>5, <1>7, <1>9, <1>12, <1>13, <1>14, <1>15 DEF CalmInv, FramesConserved

(* kfree of a large pointer while nothing collides: the entries of the     *)
(* block are present and no other block's, so exactly its frames return.   *)
LEMMA FreeCalm ==
  ASSUME IInv, CalmInv, NEW a \in larges, kfree_large(a)
  PROVE  CalmInv'
<1> SUFFICES ASSUME Undisturbed' PROVE CalmInv'
  BY DEF CalmInv
<1> DEFINE ts == Freed(a)
<1>1. /\ Running /\ UnmapAll(ts) /\ free' = free \cup Frames(ts)
      /\ larges' = IF ts = {} THEN larges ELSE larges \ {a}
      /\ contexts' = contexts /\ fifo' = fifo /\ collided' = collided
      /\ written' = written
  BY DEF kfree_large, FreedFrames
<1>2. Undisturbed
  BY <1>1 DEF Undisturbed
<1>3. KernelPresent /\ HeapPresent /\ BlocksApart /\ QueueInjective
      /\ free \cup Frames(written \ Kernel) = Pool
  BY <1>2 DEF CalmInv, FramesConserved
<1>4. written \subseteq Pt /\ Kernel \subseteq written
  BY HeapInTable
<1>5. pte' = [t \in Pt |-> IF t \in ts THEN vmm_unmap_page(pte[t]) ELSE pte[t]]
  BY <1>1 DEF UnmapAll, OnIndexes
<1>6. \A t \in Pt : /\ t \in ts => ~pte'[t].p
                    /\ t \notin ts => pte'[t] = pte[t]
  BY <1>5 DEF vmm_unmap_page, Zero
<1>7. ts \subseteq Index(Pages(a)) /\ (ts = {} \/ ts = Index(Pages(a)))
  BY DEF Freed
<1>8. ts \subseteq Index(HeapPages)
  BY <1>7, HeapIndexes
<1>9. ts \subseteq written \ Kernel /\ \A t \in ts : pte[t].p
  BY <1>3, <1>8, HeapInTable DEF HeapPresent
<1> HIDE DEF ts
<1>10. \A t : t \in Index(HeapPages)' <=> t \in Index(HeapPages) \ ts
  <2>1. \A t : t \in Index(HeapPages)'
               <=> (\E b \in larges' : t \in Index(Pages(b)))
                     \/ t \in Index(contexts)
    BY <1>1 DEF Index, HeapPages, Pages, get_table_index
  <2>2. CASE ts = {}
    BY <2>1, <2>2, <1>1, HeapIndexes
  <2>3. CASE ts # {}
    <3>1. larges' = larges \ {a} /\ ts = Index(Pages(a))
      BY <2>3, <1>1, <1>7
    <3>2. \A b \in larges : b # a => Index(Pages(b)) \cap ts = {}
      BY <3>1, <1>3 DEF BlocksApart
    <3>3. Index(contexts) \cap ts = {}
      BY <3>1, <1>3 DEF BlocksApart
    <3>4. \A t : (\E b \in larges \ {a} : t \in Index(Pages(b)))
                   <=> (\E b \in larges : t \in Index(Pages(b))) /\ t \notin ts
      BY <3>1, <3>2, Zenon
    <3> QED
      BY <2>1, <3>1, <3>3, <3>4, HeapIndexes
  <2> QED
    BY <2>2, <2>3
<1>11. KernelPresent'
  BY <1>3, <1>4, <1>6, <1>9 DEF KernelPresent
<1>12. HeapPresent'
  BY <1>3, <1>6, <1>10, HeapInTable DEF HeapPresent
<1>13. BlocksApart'
  BY <1>1, <1>3 DEF BlocksApart, Index, Pages, get_table_index
<1>14. DemandPages' = DemandPages
  BY <1>1, <1>4, <1>6, <1>8, <1>9, <1>10 DEF DemandPages
<1>15. QueueInjective'
  BY <1>1, <1>3, <1>14 DEF QueueInjective
<1>16. free' \cup Frames(written \ Kernel)' = Pool
  <2>1. ASSUME NEW f
        PROVE  f \in Frames(written \ Kernel)
                 <=> f \in Frames(written \ Kernel)' \/ f \in Frames(ts)
    <3>1. f \in Frames(written \ Kernel)'
            <=> \E t \in written' \ Kernel : pte'[t].p /\ f = pte'[t].frame
      BY DEF Frames
    <3>2. f \in Frames(written \ Kernel)
            <=> \E t \in written \ Kernel : pte[t].p /\ f = pte[t].frame
      BY DEF Frames
    <3>3. f \in Frames(ts) <=> \E t \in ts : pte[t].p /\ f = pte[t].frame
      BY DEF Frames
    <3> QED
      BY <3>1, <3>2, <3>3, <1>1, <1>4, <1>6, <1>9
  <2> QED
    BY <2>1, <1>1, <1>3
<1> QED
  BY <1>11, <1>12, <1>13, <1>15, <1>16 DEF CalmInv, FramesConserved

(* A page fault that finds a frame: the page joins the queue once. *)
LEMMA FaultServedCalm ==
  ASSUME IInv, CalmInv, NEW v \in Touched, FaultServed(v)
  PROVE  CalmInv'
<1> SUFFICES ASSUME Undisturbed' PROVE CalmInv'
  BY DEF CalmInv
<1> DEFINE i == get_table_index(v)
<1>1. /\ Running /\ ~pte[i].p /\ larges' = larges /\ contexts' = contexts
      /\ collided' = collided /\ fifo' = Append(fifo, v)
  BY DEF FaultServed, Faults, Queued
<1>2. Undisturbed
  BY <1>1 DEF Undisturbed
<1>3. KernelPresent /\ HeapPresent /\ BlocksApart /\ QueueInjective
      /\ free \cup Frames(written \ Kernel) = Pool
  BY <1>2 DEF CalmInv, FramesConserved
<1>4. PICK f \in free : /\ pte' = [pte EXCEPT ![i] = vmm_map_page(pte[i], f)]
                        /\ written' = written \cup {i}
                        /\ free' = free \ {f}
  BY DEF FaultServed, vmm_alloc_permanent_page, WriteEntry
<1>5. i \in Pt /\ written \subseteq Pt /\ Kernel \subseteq written
  BY IndexInTable, HeapInTable, VmmAssumption
<1> HIDE DEF i
<1>6. \A t \in Pt : /\ t = i => pte'[t].p /\ pte'[t].frame = f
                    /\ t # i => pte'[t] = pte[t]
  BY <1>4, <1>5 DEF vmm_map_page, IInv, TypeOK, Entry
<1>7. i \notin Kernel /\ i \notin Index(HeapPages) /\ i \notin DemandPages
  BY <1>1, <1>3 DEF KernelPresent, HeapPresent, DemandPages
<1>8. Index(HeapPages)' = Index(HeapPages)
  BY <1>1 DEF Index, HeapPages, Pages, get_table_index
<1>9. DemandPages' = DemandPages \cup {i}
  BY <1>4, <1>5, <1>6, <1>7, <1>8 DEF DemandPages
<1>10. KernelPresent'
  BY <1>3, <1>5, <1>6 DEF KernelPresent
<1>11. HeapPresent'
  BY <1>3, <1>6, <1>8, HeapInTable DEF HeapPresent
<1>12. BlocksApart'
  BY <1>1, <1>3 DEF BlocksApart, Index, Pages, get_table_index
<1>13. fifo \in Seq(Touched) /\ Len(fifo) \in Nat
  BY DEF IInv, TypeOK
<1>14. /\ Len(fifo') = Len(fifo) + 1 /\ fifo'[Len(fifo) + 1] = v
       /\ \A j \in 1 .. Len(fifo) : fifo'[j] = fifo[j]
  BY <1>1, <1>13
<1>15. \A j \in 1 .. Len(fifo') : j \in 1 .. Len(fifo) \/ j = Len(fifo) + 1
  BY <1>13, <1>14
<1> DEFINE ix(j) == get_table_index(fifo[j])
           ixp(j) == get_table_index(fifo'[j])
<1>16. /\ ixp(Len(fifo) + 1) = i
       /\ \A j \in 1 .. Len(fifo) : ixp(j) = ix(j)
  BY <1>14 DEF i
<1>17. /\ {ix(j) : j \in 1 .. Len(fifo)} = DemandPages
       /\ \A j, k \in 1 .. Len(fifo) : ix(j) = ix(k) => j = k
  BY <1>3 DEF QueueInjective
<1>18. /\ 1 .. Len(fifo) \subseteq 1 .. Len(fifo')
       /\ Len(fifo) + 1 \in 1 .. Len(fifo')
  BY <1>13, <1>14
<1> HIDE DEF ix, ixp
<1>19. {ixp(j) : j \in 1 .. Len(fifo')} = DemandPages'
  BY <1>9, <1>15, <1>16, <1>17, <1>18
<1>20. \A j, k \in 1 .. Len(fifo') : ixp(j) = ixp(k) => j = k
  BY <1>7, <1>15, <1>16, <1>17
<1>21. QueueInjective'
  BY <1>19, <1>20 DEF QueueInjective, ixp, get_table_index
<1>22. free' \cup Frames(written \ Kernel)' = Pool
  <2>1. ASSUME NEW g
        PROVE  g \in Frames(written \ Kernel)'
                 <=> g \in Frames(written \ Kernel) \/ g = f
    <3>1. g \in Frames(written \ Kernel)'
            <=> \E t \in written' \ Kernel : pte'[t].p /\ g = pte'[t].frame
      BY DEF Frames
    <3>2. g \in Frames(written \ Kernel)
            <=> \E t \in written \ Kernel : pte[t].p /\ g = pte[t].frame
      BY DEF Frames
    <3> QED
      BY <3>1, <3>2, <1>1, <1>4, <1>5, <1>6, <1>7
  <2> QED
    BY <2>1, <1>3, <1>4
<1> QED
  BY <1>10, <1>11, <1>12, <1>21, <1>22 DEF CalmInv, FramesConserved

(* vmm_init establishes it. *)
LEMMA InitCalm == Init => CalmInv
<1> SUFFICES ASSUME Init PROVE CalmInv
  OBVIOUS
<1>1. /\ \A t \in Kernel : pte[t].p
      /\ written = Kernel
      /\ free = Pool /\ fifo = <<>> /\ larges = {} /\ contexts = {}
  BY KernelNumbers DEF Init
<1>2. Index(HeapPages) = {}
  BY <1>1 DEF Index, HeapPages
<1>3. DemandPages = {}
  BY <1>1 DEF DemandPages
<1>4. KernelPresent /\ HeapPresent /\ BlocksApart
  BY <1>1, <1>2 DEF KernelPresent, HeapPresent, BlocksApart
<1>5. QueueInjective
  BY <1>1, <1>3 DEF QueueInjective
<1>6. Frames(written \ Kernel) = {}
  BY <1>1 DEF Frames
<1> QED
  BY <1>1, <1>4, <1>5, <1>6 DEF CalmInv, FramesConserved

(* Every step preserves it. *)
LEMMA NextCalm == IInv /\ CalmInv /\ [Next]_vars => CalmInv'
<1> SUFFICES ASSUME IInv, CalmInv, [Next]_vars PROVE CalmInv'
  OBVIOUS
<1>0. ASSUME ~Running' PROVE CalmInv'
  BY <1>0 DEF CalmInv, Undisturbed
<1>1. ASSUME NEW v \in Touched,
             \/ FaultSwapsOut(v) \/ FaultPanics(v)
             \/ FaultHalts(v) \/ FaultSwapsIn(v)
      PROVE  CalmInv'
  <2>1. stopped' \in {"panic", "retrying", "swapping in"}
    BY <1>1, SwapOutStuck DEF FaultPanics, FaultHalts, FaultSwapsIn
  <2> QED
    BY <1>0, <2>1 DEF Running
<1>2. ASSUME NEW c \in contexts, vmm_destroy_vm_context(c) PROVE CalmInv'
  BY <1>2 DEF vmm_destroy_vm_context, CalmInv, Undisturbed, Running
<1>3. CASE CreateWithoutFrame
  BY <1>3 DEF CreateWithoutFrame, CalmInv, Undisturbed, Running
<1>4. ASSUME UNCHANGED <<pte, free, fifo, larges, contexts, stopped,
                       collided, written>>
      PROVE  CalmInv'
  <2>1. Index(HeapPages)' = Index(HeapPages) /\ DemandPages' = DemandPages
    BY <1>4 DEF Index, HeapPages, Pages, get_table_index, DemandPages
  <2>2. Frames(written \ Kernel)' = Frames(written \ Kernel)
    BY <1>4 DEF Frames
  <2>3. Undisturbed' = Undisturbed
    BY <1>4 DEF Undisturbed, Running
  <2>4. BlocksApart => BlocksApart'
    BY <1>4 DEF BlocksApart, Index, Pages, get_table_index
  <2>5. QueueInjective => QueueInjective'
    BY <1>4, <2>1 DEF QueueInjective
  <2>6. (KernelPresent => KernelPresent') /\ (HeapPresent => HeapPresent')
    BY <1>4, <2>1 DEF KernelPresent, HeapPresent
  <2> QED
    BY <1>4, <2>2, <2>3, <2>4, <2>5, <2>6 DEF CalmInv, FramesConserved
<1>5. ASSUME NEW c \in contexts, vmm_switch_vm_context(c) PROVE CalmInv'
  BY <1>4, <1>5 DEF vmm_switch_vm_context
<1>6. CASE Stopped \/ UNCHANGED vars
  BY <1>4, <1>6 DEF Stopped, vars
<1> QED
  BY <1>1, <1>2, <1>3, <1>5, <1>6, AllocCalm, CreateCalm, FailCalm, FreeCalm,
     FaultServedCalm DEF Next

(* The invariant of an undisturbed page table holds in every state. *)
LEMMA Calm == Spec => []CalmInv
BY InitCalm, NextCalm, InductiveInvariant, PTL DEF Spec

(* No frame is lost by faults, large requests served, failed or freed, and *)
(* new contexts, as long as no large page meets an index in use: each      *)
(* frame of pmm is free or mapped.                                         *)
THEOREM NoFrameLost == Spec => []FramesConserved
<1>1. CalmInv => FramesConserved
  BY DEF CalmInv, FramesConserved
<1> QED
  BY <1>1, Calm, PTL

(* Under the same condition the eviction queue is exact: page_enqueue and  *)
(* page_fifo_dequeue keep in it every page a fault brought in, once.       *)
THEOREM QueueExact == Spec => []QueueIsExact
<1>1. IInv /\ CalmInv => QueueIsExact
  <2> SUFFICES ASSUME IInv, CalmInv, Undisturbed
               PROVE  /\ {get_table_index(fifo[i]) : i \in 1 .. Len(fifo)}
                           = DemandPages
                      /\ Len(fifo) = Cardinality(DemandPages)
    BY DEF QueueIsExact
  <2> DEFINE R == 1 .. Len(fifo)
             f == [i \in R |-> get_table_index(fifo[i])]
  <2>1. {get_table_index(fifo[i]) : i \in R} = DemandPages
    BY DEF CalmInv, QueueInjective
  <2>2. \A i, j \in R : f[i] = f[j] => i = j
    BY DEF CalmInv, QueueInjective
  <2>3. Len(fifo) \in Nat
    BY DEF IInv, TypeOK
  <2>4. IsFiniteSet(R) /\ Cardinality(R) = Len(fifo)
    <3>1. ASSUME NEW n \in Nat
          PROVE  IsFiniteSet(1 .. n) /\ Cardinality(1 .. n) = n
      <4>1. 1 \in Int /\ n \in Int
        OBVIOUS
      <4>2. /\ IsFiniteSet(1 .. n)
            /\ Cardinality(1 .. n) = IF 1 > n THEN 0 ELSE n - 1 + 1
        BY <4>1, FS_Interval, Zenon
      <4> QED
        BY <4>2
    <3> QED
      BY <2>3, <3>1
  <2>5. f \in [R -> DemandPages]
    BY <2>1
  <2>6. f \in Surjection(R, DemandPages)
    BY <2>1, <2>5 DEF Surjection
  <2>7. f \in Injection(R, DemandPages)
    BY <2>2, <2>5 DEF Injection, IsInjective
  <2> HIDE DEF f, R
  <2>8. Cardinality(DemandPages) = Cardinality(R)
    BY <2>4, <2>6, <2>7, FS_Surjection
  <2> QED
    BY <2>1, <2>4, <2>8 DEF R
<1> QED
  BY <1>1, Calm, InductiveInvariant, PTL
=============================================================================
