----------------------------- MODULE PmmProofs -----------------------------
(* Proofs about memory/pmm.c for every bitmap size, memory layout and set  *)
(* of clients: the inductive invariant IInv, and the refinement of the     *)
(* abstract frame allocator.                                               *)
EXTENDS Pmm, TLAPS

-----------------------------------------------------------------------------
(* The inductive invariant. *)
IInv == TypeOK /\ ExclusiveOwnership /\ BitmapExact /\ HintIsFree

-----------------------------------------------------------------------------
(* The byte and bit of a frame are those of its address, and               *)
(* calc_frame_addr is the inverse of get_bitmap_index, get_bitmap_offset.  *)
LEMMA AddressRoundTrip ==
  ASSUME NEW f \in Frame
  PROVE  /\ get_bitmap_index(f) \in 0 .. PMM_BITMAP_SIZE - 1
         /\ get_bitmap_offset(f) \in 0 .. 7
         /\ calc_frame_addr(get_bitmap_index(f), get_bitmap_offset(f)) = f
         /\ get_bitmap_index(f) >= 1 <=> f >= 8
BY SizeAssumption
   DEF Frame, get_bitmap_index, get_bitmap_offset, calc_frame_addr

(* The two loops of pmm_alloc_frame together scan exactly the frames past  *)
(* byte 0.                                                                 *)
LEMMA ScanCoversPool ==
  ASSUME TypeOK
  PROVE  Forward \cup Wrapped = {f \in Frame : f >= 8}
<1>1. ASSUME NEW f \in Frame
      PROVE  (f \in Forward \cup Wrapped) <=> f >= 8
  BY <1>1, AddressRoundTrip, SizeAssumption
     DEF Forward, Wrapped, TypeOK
<1>2. Forward \cup Wrapped \subseteq Frame
  BY DEF Forward, Wrapped
<1> QED
  BY <1>1, <1>2

(* A frame the scan finds is a free frame of the pool. *)
LEMMA ScanFindsPool ==
  ASSUME IInv, NEW f \in Frame,
         FirstFree(Forward, f) \/ FirstFree(Wrapped, f)
  PROVE  f \in Pool \ Owned
<1>1. f \in Forward \cup Wrapped /\ f \notin pmm_bitmap
  BY DEF FirstFree
<1>2. f >= 8
  BY <1>1, ScanCoversPool DEF IInv
<1> QED
  BY <1>1, <1>2 DEF IInv, BitmapExact, Pool

(* Handing a free frame of the pool to a client keeps ownership exclusive  *)
(* and the bitmap exact.                                                   *)
LEMMA GivePreserves ==
  ASSUME IInv, NEW c \in Clients, NEW f \in Pool \ Owned, Give(c, f)
  PROVE  /\ pmm_bitmap' \subseteq Frame
         /\ held' \in [Clients -> SUBSET Frame]
         /\ last' \in [op : {"init", "alloc", "free"}, frame : Frame]
         /\ Owned' = Owned \cup {f}
         /\ ExclusiveOwnership'
         /\ BitmapExact'
<1> USE DEF IInv
<1>1. f \in Frame
  BY DEF Pool
<1>2. /\ pmm_bitmap' = pmm_bitmap \cup {f}
      /\ held' = [held EXCEPT ![c] = held[c] \cup {f}]
      /\ last' = [op |-> "alloc", frame |-> f]
  BY DEF Give
<1>3. held \in [Clients -> SUBSET Frame] /\ pmm_bitmap \subseteq Frame
  BY DEF TypeOK
<1>4. /\ pmm_bitmap' \subseteq Frame
      /\ held' \in [Clients -> SUBSET Frame]
      /\ last' \in [op : {"init", "alloc", "free"}, frame : Frame]
  BY <1>1, <1>2, <1>3
<1>5. Owned' = Owned \cup {f}
  BY <1>2, <1>3 DEF Owned
<1>6. ExclusiveOwnership'
  <2>1. Owned' \subseteq Pool'
    BY <1>5 DEF ExclusiveOwnership, Pool, Frame, Reserved, HeapBase
  <2>2. ASSUME NEW a \in Clients, NEW b \in Clients, a # b
        PROVE  held'[a] \cap held'[b] = {}
    BY <2>2, <1>2, <1>3 DEF ExclusiveOwnership, Owned
  <2> QED
    BY <2>1, <2>2 DEF ExclusiveOwnership
<1>7. BitmapExact'
  BY <1>2, <1>5 DEF BitmapExact, Reserved, HeapBase
<1> QED
  BY <1>4, <1>5, <1>6, <1>7

(* pmm_init establishes the invariant. *)
LEMMA InitIInv == Init => IInv
<1> SUFFICES ASSUME Init PROVE IInv
  OBVIOUS
<1>0. Owned = {}
  BY DEF Init, Owned
<1>1. TypeOK
  <2>1. 0 \in Frame
    BY SizeAssumption DEF Frame
  <2>2. NoHint \in Hint
    BY SizeAssumption DEF NoHint, Hint
  <2> QED
    BY <2>1, <2>2, SizeAssumption, LayoutAssumption
       DEF Init, TypeOK, PMM_NO_FRAME_AVAILABLE
<1>2. ExclusiveOwnership
  BY <1>0 DEF Init, ExclusiveOwnership
<1>3. BitmapExact
  BY <1>0 DEF Init, BitmapExact
<1>4. HintIsFree
  BY DEF Init, HintIsFree, HintIsSet, NoHint
<1> QED
  BY <1>1, <1>2, <1>3, <1>4 DEF IInv

(* Every call of pmm_alloc_frame and pmm_free_frame preserves the          *)
(* invariant.                                                              *)
LEMMA NextIInv == IInv /\ [Next]_vars => IInv'
<1> SUFFICES ASSUME IInv, [Next]_vars PROVE IInv'
  OBVIOUS
<1>1. ASSUME NEW c \in Clients, AllocReuse(c) PROVE IInv'
  <2> DEFINE f == calc_frame_addr(last_free_frame.index,
                                  last_free_frame.offset)
  <2>1. f \in Pool \ Owned /\ Give(c, f)
    BY <1>1 DEF AllocReuse, IInv, HintIsFree
  <2> HIDE DEF f
  <2>2. /\ pmm_bitmap' \subseteq Frame
        /\ held' \in [Clients -> SUBSET Frame]
        /\ last' \in [op : {"init", "alloc", "free"}, frame : Frame]
        /\ ExclusiveOwnership'
        /\ BitmapExact'
    BY <2>1, GivePreserves
  <2>3. last_free_frame' = NoHint /\ last_alloc_index' = last_alloc_index
    BY <1>1 DEF AllocReuse, ClearHint
  <2>4. NoHint \in Hint
    BY SizeAssumption DEF NoHint, Hint
  <2>5. TypeOK'
    BY <2>2, <2>3, <2>4 DEF IInv, TypeOK, Hint, Frame
  <2>6. HintIsFree'
    BY <2>3 DEF HintIsFree, HintIsSet, NoHint
  <2> QED
    BY <2>2, <2>5, <2>6 DEF IInv
<1>2. ASSUME NEW c \in Clients, AllocNextFit(c) PROVE IInv'
  <2>1. PICK f \in Frame : /\ FirstFree(Forward, f) \/ FirstFree(Wrapped, f)
                           /\ Give(c, f)
                           /\ last_alloc_index' = get_bitmap_index(f)
    BY <1>2 DEF AllocNextFit
  <2>2. f \in Pool \ Owned
    BY <2>1, ScanFindsPool
  <2>3. /\ pmm_bitmap' \subseteq Frame
        /\ held' \in [Clients -> SUBSET Frame]
        /\ last' \in [op : {"init", "alloc", "free"}, frame : Frame]
        /\ ExclusiveOwnership'
        /\ BitmapExact'
    BY <2>1, <2>2, GivePreserves
  <2>4. last_free_frame' = last_free_frame /\ ~HintIsSet
    BY <1>2 DEF AllocNextFit
  <2>5. last_alloc_index' \in 1 .. PMM_BITMAP_SIZE - 1
    BY <2>1, <2>2, AddressRoundTrip, SizeAssumption DEF Pool
  <2>6. TypeOK'
    BY <2>3, <2>4, <2>5 DEF IInv, TypeOK, Hint, Frame
  <2>7. HintIsFree'
    BY <2>4 DEF HintIsFree, HintIsSet
  <2> QED
    BY <2>3, <2>6, <2>7 DEF IInv
<1>3. ASSUME NEW c \in Clients, AllocFail(c) PROVE IInv'
  <2>1. 0 \in Frame
    BY SizeAssumption DEF Frame
  <2> QED
    BY <1>3, <2>1 DEF AllocFail, PMM_NO_FRAME_AVAILABLE, IInv, TypeOK,
         ExclusiveOwnership, BitmapExact, HintIsFree, HintIsSet, Owned, Pool,
         Frame, Hint, Reserved, HeapBase, calc_frame_addr
<1>4. ASSUME NEW c \in Clients, FreeFrame(c) PROVE IInv'
  <2>1. PICK f \in held[c] :
          /\ pmm_bitmap' = pmm_bitmap \ {f}
          /\ last_free_frame' = [index |-> get_bitmap_index(f),
                                 offset |-> get_bitmap_offset(f)]
          /\ held' = [held EXCEPT ![c] = held[c] \ {f}]
          /\ last' = [op |-> "free", frame |-> f]
          /\ last_alloc_index' = last_alloc_index
    BY <1>4 DEF FreeFrame, pmm_mark_free
  <2>2. held \in [Clients -> SUBSET Frame] /\ f \in Owned
    BY <2>1 DEF IInv, TypeOK, Owned
  <2>3. f \in Pool /\ f \in Frame
    BY <2>2 DEF IInv, ExclusiveOwnership, Pool
  <2>4. Owned' = Owned \ {f}
    BY <2>1, <2>2 DEF Owned, IInv, ExclusiveOwnership
  <2>5. TypeOK'
    <3>1. last_free_frame' \in Hint'
      BY <2>1, <2>3, AddressRoundTrip, SizeAssumption DEF Hint
    <3> QED
      BY <2>1, <2>2, <2>3, <3>1 DEF IInv, TypeOK, Frame
  <2>6. ExclusiveOwnership'
    <3>1. ASSUME NEW a \in Clients, NEW b \in Clients, a # b
          PROVE  held'[a] \cap held'[b] = {}
      BY <3>1, <2>1, <2>2 DEF IInv, ExclusiveOwnership
    <3> QED
      BY <3>1, <2>4 DEF IInv, ExclusiveOwnership, Pool, Frame, Reserved,
                        HeapBase
  <2>7. BitmapExact'
    BY <2>1, <2>3, <2>4 DEF IInv, BitmapExact, Pool, Reserved, HeapBase
  <2>8. HintIsFree'
    <3>1. /\ last_free_frame'.index = get_bitmap_index(f)
          /\ last_free_frame'.offset = get_bitmap_offset(f)
      BY <2>1
    <3>2. /\ last_free_frame'.index >= 0 /\ last_free_frame'.offset >= 0
          /\ calc_frame_addr(last_free_frame'.index,
                             last_free_frame'.offset) = f
      BY <3>1, <2>3, AddressRoundTrip, SizeAssumption
    <3> QED
      BY <3>2, <2>3, <2>4 DEF HintIsFree, Pool, Frame, Reserved, HeapBase,
                              calc_frame_addr
  <2> QED
    BY <2>5, <2>6, <2>7, <2>8 DEF IInv
<1>5. CASE UNCHANGED vars
  BY <1>5 DEF vars, IInv, TypeOK, ExclusiveOwnership, BitmapExact, HintIsFree,
              HintIsSet, Owned, Pool, Frame, Hint, Reserved, HeapBase,
              calc_frame_addr
<1> QED
  BY <1>1, <1>2, <1>3, <1>4, <1>5 DEF Next

(* The bitmap, the hint and the next-fit index keep their types, and the   *)
(* whole inductive invariant holds, in every reachable state.              *)
THEOREM InductiveInvariant == Spec => []IInv
<1>1. Init => IInv
  BY InitIInv
<1>2. IInv /\ [Next]_vars => IInv'
  BY NextIInv
<1> QED
  BY <1>1, <1>2, PTL DEF Spec

(* Every variable of pmm.c keeps its type. *)
THEOREM TypeCorrect == Spec => []TypeOK
<1>1. IInv => TypeOK
  BY DEF IInv
<1> QED
  BY <1>1, InductiveInvariant, PTL

(* No frame pmm_alloc_frame returns ever has two owners or overlaps memory *)
(* pmm_init reserved.                                                      *)
THEOREM Exclusive == Spec => []ExclusiveOwnership
<1>1. IInv => ExclusiveOwnership
  BY DEF IInv
<1> QED
  BY <1>1, InductiveInvariant, PTL

(* No call leaks a frame or forgets an owner. *)
THEOREM NoLeak == Spec => []BitmapExact
<1>1. IInv => BitmapExact
  BY DEF IInv
<1> QED
  BY <1>1, InductiveInvariant, PTL

(* The hint pmm_alloc_frame hands out unread is always a free frame.       *)
THEOREM HintSound == Spec => []HintIsFree
<1>1. IInv => HintIsFree
  BY DEF IInv
<1> QED
  BY <1>1, InductiveInvariant, PTL

(* memory/pmm.c implements the abstract frame allocator.                   *)
THEOREM Refinement == Spec => ImplementsFrameAllocator
<1>1. Init => FA!Init
  BY DEF Init, FA!Init
<1>2. IInv /\ [Next]_vars => [FA!Next]_(FA!vars)
  <2> SUFFICES ASSUME IInv, [Next]_vars PROVE [FA!Next]_(FA!vars)
    OBVIOUS
  <2>0. FA!Owned = Owned
    BY DEF FA!Owned, Owned
  <2>1. ASSUME NEW c \in Clients, AllocReuse(c) PROVE FA!Alloc(c)
    <3> DEFINE f == calc_frame_addr(last_free_frame.index,
                                    last_free_frame.offset)
    <3>1. f \in Pool \ Owned /\ Give(c, f)
      BY <2>1 DEF AllocReuse, IInv, HintIsFree
    <3> HIDE DEF f
    <3> QED
      BY <2>0, <3>1 DEF FA!Alloc, Give
  <2>2. ASSUME NEW c \in Clients, AllocNextFit(c) PROVE FA!Alloc(c)
    <3>1. PICK f \in Frame : /\ FirstFree(Forward, f) \/ FirstFree(Wrapped, f)
                             /\ Give(c, f)
      BY <2>2 DEF AllocNextFit
    <3>2. f \in Pool \ Owned
      BY <3>1, ScanFindsPool
    <3> QED
      BY <2>0, <3>1, <3>2 DEF FA!Alloc, Give
  <2>3. ASSUME NEW c \in Clients, AllocFail(c) PROVE FA!Refuse(c)
    <3>1. {f \in Frame : f >= 8} \subseteq pmm_bitmap
      BY <2>3, ScanCoversPool DEF AllocFail, NothingFound, IInv
    <3>2. Pool \subseteq Owned
      BY <3>1 DEF Pool, IInv, BitmapExact
    <3> QED
      BY <2>0, <2>3, <3>2 DEF FA!Refuse, AllocFail
  <2>4. ASSUME NEW c \in Clients, FreeFrame(c) PROVE FA!Free(c)
    BY <2>4 DEF FreeFrame, FA!Free
  <2>5. CASE UNCHANGED vars
    BY <2>5 DEF vars, FA!vars
  <2> QED
    BY <2>1, <2>2, <2>3, <2>4, <2>5 DEF Next, FA!Next
<1> QED
  BY <1>1, <1>2, InductiveInvariant, PTL
     DEF Spec, FA!Spec, ImplementsFrameAllocator
=============================================================================
