----------------------------- MODULE DiskSlots -----------------------------
(* The swap-slot allocator of drivers/disk.c: one bit per sector-sized     *)
(* slot, runs of consecutive slots found next-fit from the byte after the  *)
(* last run.  The pager (memory/vmm.c) asks for one run per page and frees *)
(* it with disk_free_slots; disk_alloc_slot and disk_free_slot handle runs *)
(* of one slot.  The bitmap is the set of slots whose bit is 1.            *)
EXTENDS Integers, FiniteSets

CONSTANTS DISK_BITMAP_SIZE,  \* bytes of disk_bitmap
          SlotCounts,        \* run lengths the callers ask for (uint8_t)
          MaxRuns            \* bound: runs owned at one time

ASSUME SlotsAssumption == /\ DISK_BITMAP_SIZE \in Nat \ {0}
                          /\ SlotCounts \subseteq 0 .. 255
                          /\ MaxRuns \in Nat

Limit == DISK_BITMAP_SIZE * 8
Slot == 0 .. Limit - 1
DISK_NO_SLOT_AVAILABLE == -1   \* (uint32_t) -1, not a slot

VARIABLES disk_bitmap,      \* slots whose bit is set
          last_alloc_index, \* byte where the next scan starts
          runs,             \* runs the callers own
          last              \* last call: operation, length, slot

slot_vars == <<disk_bitmap, last_alloc_index, runs, last>>

SlotsOf(start, count) == start .. start + count - 1
Run(start, count) == [start |-> start, count |-> count]

SlotsInit == /\ disk_bitmap = {}
        /\ last_alloc_index = 1
        /\ runs = {}
        /\ last = [op |-> "init", count |-> 0, slot |-> DISK_NO_SLOT_AVAILABLE]

(* Mutant of are_slots_free: the last slot of the run is not looked at. *)
LastSlotNotTested(start, count) ==
  /\ start + count <= Limit
  /\ SlotsOf(start, count - 1) \cap disk_bitmap = {}

are_slots_free(start, count) ==
  /\ start + count <= Limit
  /\ SlotsOf(start, count) \cap disk_bitmap = {}

(* The two loops: slots of the bytes from last_alloc_index on, then slots  *)
(* of the bytes before it.  A run may reach past its own loop's bytes.     *)
Forward == {s \in Slot : s \div 8 >= last_alloc_index}

(* Mutant of Wrapped: the second loop starts at byte 1. *)
WrappedFromOne == {s \in Slot : s \div 8 >= 1 /\ s \div 8 < last_alloc_index}

Wrapped == {s \in Slot : s \div 8 < last_alloc_index}

FirstFit(S, count, s) == /\ s \in S /\ are_slots_free(s, count)
                         /\ \A t \in S : are_slots_free(t, count) => s <= t

NoFit(S, count) == \A s \in S : ~are_slots_free(s, count)

(* The bitmap with the run marked. *)
mark_slots_used(start, count) == disk_bitmap \cup SlotsOf(start, count)

disk_alloc_slots(count) ==
  /\ count # 0
  /\ Cardinality(runs) < MaxRuns
  /\ \E s \in Slot :
       /\ \/ FirstFit(Forward, count, s)
          \/ NoFit(Forward, count) /\ FirstFit(Wrapped, count, s)
       /\ disk_bitmap' = mark_slots_used(s, count)
       /\ last_alloc_index' = (s + count) \div 8
       /\ runs' = runs \cup {Run(s, count)}
       /\ last' = [op |-> "alloc", count |-> count, slot |-> s]

disk_alloc_slots_none(count) ==
  /\ count = 0 \/ NoFit(Forward \cup Wrapped, count)
  /\ last' = [op |-> "alloc", count |-> count,
              slot |-> DISK_NO_SLOT_AVAILABLE]
  /\ UNCHANGED <<disk_bitmap, last_alloc_index, runs>>

(* Mutant of IsFreed: no run of more than one slot is freed. *)
OnlySingleFreed(r) == r.count = 1

(* disk_free_slots returns without doing anything when slot + slots_num    *)
(* reaches the limit, and it does so for the last run of the bitmap too.   *)
IsFreed(r) == r.start + r.count < Limit

disk_free_slots(r) ==
  /\ disk_bitmap' = IF IsFreed(r)
                      THEN disk_bitmap \ SlotsOf(r.start, r.count)
                      ELSE disk_bitmap
  /\ runs' = runs \ {r}
  /\ last' = [op |-> "free", count |-> r.count, slot |-> r.start]
  /\ UNCHANGED last_alloc_index

(* disk_free_slot has no such test. *)
disk_free_slot(r) ==
  /\ r.count = 1
  /\ disk_bitmap' = disk_bitmap \ {r.start}
  /\ runs' = runs \ {r}
  /\ last' = [op |-> "free", count |-> 1, slot |-> r.start]
  /\ UNCHANGED last_alloc_index

SlotsNext == \/ \E count \in SlotCounts : \/ disk_alloc_slots(count)
                                     \/ disk_alloc_slots_none(count)
        \/ \E r \in runs : disk_free_slots(r) \/ disk_free_slot(r)

SlotsSpec == SlotsInit /\ [][SlotsNext]_slot_vars

-----------------------------------------------------------------------------
Owned == UNION {SlotsOf(r.start, r.count) : r \in runs}
Leaked == disk_bitmap \ Owned

(* The allocator's variables keep their types and every run lies inside    *)
(* the bitmap.                                                             *)
SlotsTypeOK ==
  /\ disk_bitmap \subseteq Slot
  /\ last_alloc_index \in 0 .. DISK_BITMAP_SIZE
  /\ runs \subseteq [start : Slot, count : SlotCounts \ {0}]
  /\ \A r \in runs : r.start + r.count <= Limit
  /\ last \in [op : {"init", "alloc", "free"}, count : 0 .. 255,
               slot : Slot \cup {DISK_NO_SLOT_AVAILABLE}]

(* Two runs handed out by disk_alloc_slots and not yet freed never share a *)
(* slot, whatever the order of allocations, frees and wrap-arounds: a      *)
(* swapped-out page is never overwritten by another.                       *)
RunsDisjoint ==
  \A r, q \in runs :
     r # q => SlotsOf(r.start, r.count) \cap SlotsOf(q.start, q.count) = {}

(* Every slot of a live run is marked in the bitmap. *)
OwnedIsMarked == Owned \subseteq disk_bitmap

(* The early return of disk_free_slots loses at most one run in the life   *)
(* of the system: the slots that are marked and that nobody owns are none, *)
(* or exactly one run that ends at the last slot of the bitmap.            *)
LeakIsLastRun ==
  \/ Leaked = {}
  \/ \E n \in SlotCounts \ {0} : n <= Limit /\ Leaked = SlotsOf(Limit - n, n)

Exhausted(count) == \A s \in Slot : ~are_slots_free(s, count)

(* disk_alloc_slots answers DISK_NO_SLOT_AVAILABLE to a request of at      *)
(* least one slot only when no run of that length is free anywhere, the    *)
(* runs that straddle the byte where the two loops meet included.          *)
RefusesOnlyWhenExhausted ==
  [][(last'.op = "alloc" /\ last'.count # 0
       /\ last'.slot = DISK_NO_SLOT_AVAILABLE)
        => Exhausted(last'.count)]_slot_vars
=============================================================================
