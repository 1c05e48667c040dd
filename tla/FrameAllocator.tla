--------------------------- MODULE FrameAllocator ---------------------------
(* What the rest of the kernel relies on in memory/pmm.c: an allocator of  *)
(* indivisible frames.  A client (the page-table code, the swappable       *)
(* pages, the page directories) owns the frames it was given until it      *)
(* frees them; no frame has two owners; a request is refused only when     *)
(* every frame of the pool is owned.                                       *)
EXTENDS Naturals

CONSTANTS Clients,  \* callers of the allocator
          Pool,     \* frames the allocator may hand out
          NoFrame   \* the value returned when it has none

VARIABLES held,     \* held[c]: the frames client c owns
          last      \* the last call and the frame it returned or was given

vars == <<held, last>>

Owned == UNION {held[c] : c \in Clients}

Init == /\ held = [c \in Clients |-> {}]
        /\ last = [op |-> "init", frame |-> NoFrame]

Alloc(c) == \E f \in Pool \ Owned :
               /\ held' = [held EXCEPT ![c] = @ \cup {f}]
               /\ last' = [op |-> "alloc", frame |-> f]

Refuse(c) == /\ Pool \subseteq Owned
             /\ last' = [op |-> "alloc", frame |-> NoFrame]
             /\ UNCHANGED held

Free(c) == \E f \in held[c] :
              /\ held' = [held EXCEPT ![c] = @ \ {f}]
              /\ last' = [op |-> "free", frame |-> f]

Next == \E c \in Clients : Alloc(c) \/ Refuse(c) \/ Free(c)

Spec == Init /\ [][Next]_vars
=============================================================================
