------------------------------ MODULE Kmalloc ------------------------------
(* The kernel heap, memory/kmalloc.c: size-class caches of page-sized      *)
(* slabs, and large allocations mapped page by page.  Addresses are page   *)
(* numbers (an object is a slab and an index in it).  vmm_map_page and     *)
(* vmm_unmap_page are taken at their contract: one entry per virtual page. *)
(* The frames of pmm.c are a counter.                                      *)
EXTENDS Integers, Sequences, FiniteSets, SequencesExt

CONSTANTS NUM_CACHES,     \* size classes, smallest first
          ObjectsPerSlab, \* ObjectsPerSlab[i]: objects in a slab of class i
          EXTRA_BLOCKS,   \* "extra blocks the kmalloc can use"
          HeapBase,       \* page of KERNEL_BASE_HEAP_ADDR
          Frames,         \* frames pmm_alloc_frame has at start
          LargeSizes,     \* pages of a large request
          MaxLargePages   \* bound: pages of large requests ever served

HeapPages == NUM_CACHES + EXTRA_BLOCKS
Cache == 1 .. NUM_CACHES

ASSUME KmallocAssumption ==
  /\ NUM_CACHES \in Nat \ {0} /\ EXTRA_BLOCKS \in Nat
  /\ ObjectsPerSlab \in [Cache -> Nat \ {0}]
  /\ HeapBase \in Nat /\ HeapBase > HeapPages
  /\ Frames \in Nat /\ MaxLargePages \in Nat
  /\ LargeSizes \subseteq Nat \ {0}

(* The bound on the large heap: it ends below the pages of the slabs.      *)
ASSUME LargeBoundAssumption == HeapPages + MaxLargePages <= HeapBase

DescriptorCache == 1   \* large_alloc_t is 16 bytes

VARIABLES slabs,        \* slabs in the order of creation
          caches,       \* caches[i]: its slabs, first in the list first
          held,         \* objects the callers own: <<slab, index>>
          large_heap,   \* page of current_large_heap_addr
          large_allocations, \* the list, first element first
          owned_large,  \* large pointers the callers own
          mapped,       \* large pages mapped to a frame
          frames,       \* frames left in pmm
          halted        \* an assertion failed

vars == <<slabs, caches, held, large_heap, large_allocations, owned_large,
          mapped, frames, halted>>

Pages(ptr, n) == ptr .. ptr + n - 1

(* create_slab and init_slab: the free list threads the objects in order.  *)
NewSlab(cache) ==
  [cache |-> cache, free_count |-> ObjectsPerSlab[cache],
   free_list |-> [i \in 1 .. ObjectsPerSlab[cache] |-> i]]

(* The k-th slab lies in the k-th frame of the heap.  convert_to_vir_addr  *)
(* adds the base again: the slab is mapped at twice the base.              *)
SlabFrame(k) == HeapBase + k - 1
SlabPage(k) == SlabFrame(k) + HeapBase

(* The assertion of create_slab, on the address the slab would get. *)
HeapFull == HeapBase + Len(slabs) > HeapBase + HeapPages

(* init_kmalloc gives every cache one slab. *)
Init == /\ slabs = [i \in Cache |-> NewSlab(i)]
        /\ caches = [i \in Cache |-> <<i>>]
        /\ held = {}
        /\ large_heap = HeapBase + HeapPages
        /\ large_allocations = <<>>
        /\ owned_large = {} /\ mapped = {}
        /\ frames = Frames
        /\ halted = FALSE

-----------------------------------------------------------------------------
(* Mutant of Popped: the free list keeps its head. *)
NotPopped(slab) == [slab EXCEPT !.free_count = @ - 1]

(* alloc_from_slab: pop the free list. *)
Popped(slab) == [slab EXCEPT !.free_list = Tail(@), !.free_count = @ - 1]

HasFree(k) == slabs[k].free_count # 0

(* alloc_from_cache: the object taken, and the slabs and caches after it.  *)
(* The list is searched from its front; a new slab goes to its front.      *)
InList(cache) == \E i \in 1 .. Len(caches[cache]) : HasFree(caches[cache][i])

TakeFromList(cache, k) ==
  /\ \E i \in 1 .. Len(caches[cache]) :
       /\ k = caches[cache][i] /\ HasFree(k)
       /\ \A j \in 1 .. i - 1 : ~HasFree(caches[cache][j])
  /\ slabs' = [slabs EXCEPT ![k] = Popped(@)]
  /\ UNCHANGED caches

(* Mutant of Linked: the new slab forgets the slabs before it. *)
LinkLost(list, k) == <<k>>

Linked(list, k) == <<k>> \o list

TakeFromNew(cache, k) ==
  /\ ~InList(cache) /\ ~HeapFull
  /\ k = Len(slabs) + 1
  /\ slabs' = Append(slabs, Popped(NewSlab(cache)))
  /\ caches' = [caches EXCEPT ![cache] = Linked(@, k)]

alloc_from_cache(cache, k) == TakeFromList(cache, k) \/ TakeFromNew(cache, k)

(* The object alloc_from_cache returns from slab k. *)
ObjectOf(k) == <<k, IF k <= Len(slabs) THEN Head(slabs[k].free_list) ELSE 1>>

kmalloc(cache) ==
  /\ ~halted
  /\ \E k \in 1 .. Len(slabs) + 1 :
       /\ alloc_from_cache(cache, k)
       /\ held' = held \cup {ObjectOf(k)}
  /\ UNCHANGED <<large_heap, large_allocations, owned_large, mapped, frames,
                 halted>>

(* The assertion fails and __assert_fail halts the system. *)
kmalloc_asserts(cache) ==
  /\ ~halted /\ ~InList(cache) /\ HeapFull
  /\ halted' = TRUE
  /\ UNCHANGED <<slabs, caches, held, large_heap, large_allocations,
                 owned_large, mapped, frames>>

(* Mutant of Advanced: the next large pointer is a page too low. *)
AdvancedByLess(n) == large_heap + n - 1

(* current_large_heap_addr after an allocation of n pages. *)
Advanced(n) == large_heap + n

(* kmalloc_large: n frames are mapped, then a descriptor is allocated and  *)
(* inserted at the front of the list.                                      *)
kmalloc_large(n) ==
  /\ ~halted
  /\ frames >= n
  /\ large_heap + n <= HeapBase + HeapPages + MaxLargePages
  /\ \E k \in 1 .. Len(slabs) + 1 :
       /\ alloc_from_cache(DescriptorCache, k)
       /\ large_allocations' =
            <<[ptr |-> large_heap, size |-> n, desc |-> ObjectOf(k)]>>
              \o large_allocations
  /\ frames' = frames - n
  /\ mapped' = mapped \cup Pages(large_heap, n)
  /\ owned_large' = owned_large \cup {large_heap}
  /\ large_heap' = Advanced(n)
  /\ UNCHANGED <<held, halted>>

(* The descriptor of a large allocation needs a slab and there is no room: *)
(* the system halts with the pages mapped.                                 *)
kmalloc_large_asserts(n) ==
  /\ ~halted
  /\ frames >= n
  /\ large_heap + n <= HeapBase + HeapPages + MaxLargePages
  /\ ~InList(DescriptorCache) /\ HeapFull
  /\ frames' = frames - n
  /\ mapped' = mapped \cup Pages(large_heap, n)
  /\ large_heap' = Advanced(n)
  /\ halted' = TRUE
  /\ UNCHANGED <<slabs, caches, held, large_allocations, owned_large>>

(* Mutant of RolledBack: the pages already mapped are kept. *)
NotRolledBack(got) == [frames |-> frames - got,
                       mapped |-> mapped \cup Pages(large_heap, got)]

(* The pages and frames after the loop that unmaps the pages mapped before *)
(* pmm_alloc_frame failed.                                                 *)
RolledBack(got) == [frames |-> (frames - got) + got,
                    mapped |-> (mapped \cup Pages(large_heap, got))
                                 \ Pages(large_heap, got)]

(* kmalloc_large runs out of frames after mapping some of its pages.       *)
kmalloc_large_fails(n) ==
  /\ ~halted
  /\ frames < n
  /\ LET after == RolledBack(frames) IN
       frames' = after.frames /\ mapped' = after.mapped
  /\ UNCHANGED <<slabs, caches, held, large_heap, large_allocations,
                 owned_large, halted>>

-----------------------------------------------------------------------------
(* kfree's test for a slab object; an offset is given for objects, which   *)
(* never start a page.                                                     *)
IsSlabAddress(page, offset) ==
  /\ page >= HeapBase
  /\ \/ page < HeapBase + HeapPages
     \/ page = HeapBase + HeapPages /\ offset = 0

(* slab_free: push on the free list of the object's slab. *)
Pushed(slab, i) == [slab EXCEPT !.free_list = <<i>> \o @, !.free_count = @ + 1]

(* kfree of a slab object.  Outside the tested range the pointer is looked *)
(* up among the large allocations, where it never is: nothing happens.     *)
kfree(o) ==
  /\ ~halted
  /\ slabs' = IF IsSlabAddress(SlabPage(o[1]), o[2])
                THEN [slabs EXCEPT ![o[1]] = Pushed(@, o[2])]
                ELSE slabs
  /\ held' = held \ {o}
  /\ UNCHANGED <<caches, large_heap, large_allocations, owned_large, mapped,
                 frames, halted>>

Unmapped(a) == Pages(a.ptr, a.size)

(* kfree of a large pointer: its pages are unmapped, its descriptor leaves *)
(* the list and is given to kfree, which ignores it.  The first large      *)
(* pointer is KERNEL_BASE_HEAP_ADDR + KERNEL_HEAP_SIZE, which the test     *)
(* takes for a slab: slab_free writes into the page and nothing is freed.  *)
kfree_large(ptr) ==
  /\ ~halted
  /\ IF IsSlabAddress(ptr, 0)
       THEN UNCHANGED <<large_allocations, mapped, frames>>
       ELSE \E i \in 1 .. Len(large_allocations) :
              LET a == large_allocations[i] IN
              /\ a.ptr = ptr
              /\ mapped' = mapped \ Unmapped(a)
              /\ frames' = frames + Cardinality(Unmapped(a))
              /\ large_allocations' = RemoveAt(large_allocations, i)
  /\ owned_large' = owned_large \ {ptr}
  /\ UNCHANGED <<slabs, caches, held, large_heap, halted>>

Halted == halted /\ UNCHANGED vars

Next == \/ \E cache \in Cache : kmalloc(cache) \/ kmalloc_asserts(cache)
        \/ \E n \in LargeSizes : \/ kmalloc_large(n)
                                  \/ kmalloc_large_fails(n)
                                  \/ kmalloc_large_asserts(n)
        \/ \E o \in held : kfree(o)
        \/ \E ptr \in owned_large : kfree_large(ptr)
        \/ Halted

Spec == Init /\ [][Next]_vars

-----------------------------------------------------------------------------
Objects(k) == {<<k, i>> : i \in 1 .. ObjectsPerSlab[slabs[k].cache]}
FreeObjects == UNION {{<<k, i>> : i \in ToSet(slabs[k].free_list)} :
                        k \in 1 .. Len(slabs)}
Descriptors == {a.desc : a \in ToSet(large_allocations)}

Slab == [cache : Cache, free_count : Nat, free_list : Seq(Nat)]
LargeAlloc == [ptr : Nat, size : Nat \ {0}, desc : Nat \X Nat]

(* Every variable has its type. *)
TypeOK ==
  /\ slabs \in Seq(Slab)
  /\ caches \in [Cache -> Seq(Nat)]
  /\ held \subseteq Nat \X Nat
  /\ large_heap \in HeapBase + HeapPages
                     .. HeapBase + HeapPages + MaxLargePages
  /\ large_allocations \in Seq(LargeAlloc)
  /\ owned_large \subseteq Nat
  /\ mapped \subseteq Nat
  /\ frames \in Nat
  /\ halted \in BOOLEAN

(* kmalloc never returns an object that is in use: no object is both owned *)
(* (by a caller or as a descriptor of the large list) and on a free list,  *)
(* none is owned twice, and a free list never holds an object twice.       *)
NoDoubleUse ==
  /\ (held \cup Descriptors) \cap FreeObjects = {}
  /\ held \cap Descriptors = {}
  /\ \A k \in 1 .. Len(slabs) : IsInjective(slabs[k].free_list)
                                /\ slabs[k].free_count
                                     = Len(slabs[k].free_list)

(* Every slab is in the list of its own size class, once. *)
CachesPartitionSlabs ==
  \A k \in 1 .. Len(slabs) : \A i \in Cache :
     Cardinality({j \in 1 .. Len(caches[i]) : caches[i][j] = k})
       = IF slabs[k].cache = i THEN 1 ELSE 0

(* The pages of the large allocations a caller owns are mapped, disjoint   *)
(* from each other and, until MaxLargePages pages have been served, from   *)
(* the pages of the slabs.                                                 *)
LargeRangesSound ==
  /\ \A ptr \in owned_large :
       \E a \in ToSet(large_allocations) :
          a.ptr = ptr /\ Pages(a.ptr, a.size) \subseteq mapped
  /\ \A a, b \in ToSet(large_allocations) :
       a # b => Pages(a.ptr, a.size) \cap Pages(b.ptr, b.size) = {}
  /\ \A k \in 1 .. Len(slabs) : SlabPage(k) \notin mapped

(* Frames are conserved: those pmm still has and those mapped add up, and, *)
(* while the system runs, every mapped page belongs to a large allocation  *)
(* in the list, also after a request that ran out of frames half-way.      *)
FramesConserved ==
  /\ frames + Cardinality(mapped) = Frames
  /\ ~halted => mapped = UNION {Pages(a.ptr, a.size) :
                                   a \in ToSet(large_allocations)}

(* "Number of free objects": the free objects of the slabs and those in    *)
(* use are all the objects there are.                                      *)
FreeCountIsExact ==
  \A k \in 1 .. Len(slabs) :
     slabs[k].free_count
       = Cardinality(Objects(k) \ (held \cup Descriptors))
=============================================================================
