-------------------------------- MODULE Pmm --------------------------------
(* The physical memory manager, memory/pmm.c: one bit per 4 KiB frame, a   *)
(* one-entry hint remembering the last freed frame, and a next-fit scan by *)
(* bitmap byte.  A frame is named by its number, address / PMM_BLOCK_SIZE; *)
(* the bitmap is the set of frames whose bit is 1.                         *)
EXTENDS Integers

CONSTANTS PMM_BITMAP_SIZE,           \* bytes of pmm_bitmap
          KernelStart, KernelFrames, \* first frame and size of the image
          StackTop, StackPages,      \* frame of _kernel_stack_top, pages below
          HeapPages,                 \* KERNEL_HEAP_SIZE / PMM_BLOCK_SIZE
          VgaFrame,                  \* frame of VGA_ADDRESS
          Clients                    \* code that owns frames

Frame == 0 .. 8 * PMM_BITMAP_SIZE - 1
PMM_NO_FRAME_AVAILABLE == 0

(* pmm_init marks the image, the stack (downwards from its top), the heap  *)
(* (from the top of the stack rounded up: _kernel_stack_top is the last    *)
(* byte of its frame) and the VGA buffer.                                  *)
HeapBase == StackTop + 1
Reserved == {KernelStart + i : i \in 0 .. KernelFrames - 1}
              \cup {StackTop - i : i \in 0 .. StackPages - 1}
              \cup {HeapBase + i : i \in 0 .. HeapPages - 1}
              \cup {VgaFrame}

ASSUME SizeAssumption == PMM_BITMAP_SIZE \in Nat /\ PMM_BITMAP_SIZE > 1
ASSUME LayoutAssumption == /\ {KernelStart, KernelFrames, StackTop,
                               StackPages, HeapPages, VgaFrame} \subseteq Nat
                           /\ Reserved \subseteq Frame

VARIABLES pmm_bitmap,       \* frames whose bit is set
          last_free_frame,  \* [index, offset], both -1 when empty
          last_alloc_index, \* byte where the next-fit scan starts
          held,             \* frames each client owns
          last              \* last call: what it returned or was given

vars == <<pmm_bitmap, last_free_frame, last_alloc_index, held, last>>

get_bitmap_index(f) == f \div 8
get_bitmap_offset(f) == f % 8
calc_frame_addr(index, offset) == index * 8 + offset

NoHint == [index |-> -1, offset |-> -1]
HintIsSet == last_free_frame.index # -1 /\ last_free_frame.offset # -1

-----------------------------------------------------------------------------
Init == /\ pmm_bitmap = Reserved
        /\ last_free_frame = NoHint
        /\ last_alloc_index = 1
        /\ held = [c \in Clients |-> {}]
        /\ last = [op |-> "init", frame |-> PMM_NO_FRAME_AVAILABLE]

(* Mutant of Give: pmm_mark_used is forgotten. *)
GiveUnmarked(c, f) == /\ UNCHANGED pmm_bitmap
                      /\ held' = [held EXCEPT ![c] = @ \cup {f}]
                      /\ last' = [op |-> "alloc", frame |-> f]

(* pmm_alloc_frame marks f used and returns it to its caller c. *)
Give(c, f) == /\ pmm_bitmap' = pmm_bitmap \cup {f}
              /\ held' = [held EXCEPT ![c] = @ \cup {f}]
              /\ last' = [op |-> "alloc", frame |-> f]

(* Mutant of ClearHint: the hint survives its use. *)
ClearHintForgotten == UNCHANGED last_free_frame

ClearHint == last_free_frame' = NoHint

(* First branch: the last freed frame is handed out without looking at its *)
(* bit, and the hint is cleared.                                           *)
AllocReuse(c) ==
  /\ HintIsSet
  /\ Give(c, calc_frame_addr(last_free_frame.index, last_free_frame.offset))
  /\ ClearHint
  /\ UNCHANGED last_alloc_index

(* The two loops: bytes from last_alloc_index to the end, then bytes 1 to  *)
(* last_alloc_index - 1.  Byte 0 is never scanned.                         *)
Forward == {f \in Frame : get_bitmap_index(f) >= last_alloc_index}

(* Mutant of Wrapped: the second loop starts at byte 0. *)
WrappedFromZero == {f \in Frame : get_bitmap_index(f) < last_alloc_index}

Wrapped == {f \in Frame : 1 <= get_bitmap_index(f)
                          /\ get_bitmap_index(f) < last_alloc_index}

FirstFree(S, f) == /\ f \in S \ pmm_bitmap
                   /\ \A g \in S \ pmm_bitmap : f <= g

AllocNextFit(c) ==
  /\ ~HintIsSet
  /\ \E f \in Frame :
       /\ \/ FirstFree(Forward, f)
          \/ Forward \subseteq pmm_bitmap /\ FirstFree(Wrapped, f)
       /\ Give(c, f)
       /\ last_alloc_index' = get_bitmap_index(f)
  /\ UNCHANGED last_free_frame

(* Mutant of NothingFound: the second loop is missing. *)
NoWrapAround == Forward \subseteq pmm_bitmap

NothingFound == Forward \cup Wrapped \subseteq pmm_bitmap

AllocFail(c) ==
  /\ ~HintIsSet
  /\ NothingFound
  /\ last' = [op |-> "alloc", frame |-> PMM_NO_FRAME_AVAILABLE]
  /\ UNCHANGED <<pmm_bitmap, last_free_frame, last_alloc_index, held>>

(* Mutant of pmm_mark_free: the bit stays set. *)
MarkFreeForgotten(f) == pmm_bitmap

pmm_mark_free(f) == pmm_bitmap \ {f}

(* pmm_free_frame, called by the owner of the frame. *)
FreeFrame(c) ==
  \E f \in held[c] :
    /\ pmm_bitmap' = pmm_mark_free(f)
    /\ last_free_frame' = [index |-> get_bitmap_index(f),
                           offset |-> get_bitmap_offset(f)]
    /\ held' = [held EXCEPT ![c] = @ \ {f}]
    /\ last' = [op |-> "free", frame |-> f]
    /\ UNCHANGED last_alloc_index

Next == \E c \in Clients : \/ AllocReuse(c)
                           \/ AllocNextFit(c)
                           \/ AllocFail(c)
                           \/ FreeFrame(c)

Spec == Init /\ [][Next]_vars

-----------------------------------------------------------------------------
Owned == UNION {held[c] : c \in Clients}

(* Frames pmm_alloc_frame can ever return: byte 0 is never scanned. *)
Pool == {f \in Frame : f >= 8} \ Reserved

Hint == [index : -1 .. PMM_BITMAP_SIZE - 1, offset : -1 .. 7]

(* Every variable holds a value of its C type, and last_alloc_index never  *)
(* moves to byte 0 or past the bitmap.                                     *)
TypeOK == /\ pmm_bitmap \subseteq Frame
          /\ last_free_frame \in Hint
          /\ last_alloc_index \in 1 .. PMM_BITMAP_SIZE - 1
          /\ held \in [Clients -> SUBSET Frame]
          /\ last \in [op : {"init", "alloc", "free"}, frame : Frame]

(* No frame pmm_alloc_frame returned is owned by two clients, none belongs *)
(* to the image, stack, heap or VGA buffer, and none is frame 0, which the *)
(* callers read as a failure.                                              *)
ExclusiveOwnership ==
  /\ \A c, d \in Clients : c # d => held[c] \cap held[d] = {}
  /\ Owned \subseteq Pool

(* The bitmap is exact: a bit is set if and only if the frame is reserved  *)
(* or owned, so no call leaks a frame and none forgets an owner.           *)
BitmapExact == pmm_bitmap = Reserved \cup Owned

(* The reuse hint, which pmm_alloc_frame trusts without reading the        *)
(* bitmap, is either empty or names a frame of the pool nobody owns.       *)
HintIsFree ==
  HintIsSet => /\ last_free_frame.index >= 0 /\ last_free_frame.offset >= 0
               /\ calc_frame_addr(last_free_frame.index,
                                  last_free_frame.offset) \in Pool \ Owned

FA == INSTANCE FrameAllocator WITH NoFrame <- PMM_NO_FRAME_AVAILABLE

(* The bitmap, hint and next-fit scan implement the abstract allocator:    *)
(* every frame returned was free, and PMM_NO_FRAME_AVAILABLE is returned   *)
(* only when every frame of the pool is owned.                             *)
ImplementsFrameAllocator == FA!Spec
=============================================================================
