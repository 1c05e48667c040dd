----------------------------- MODULE Scheduler -----------------------------
(* The round-robin scheduler, processes/scheduler.c: a circular list of    *)
(* queue nodes with head and tail pointers, a cursor on the current node,  *)
(* and a tick counter driven by the timer interrupt.  Every operation is   *)
(* one step.                                                               *)
(*                                                                         *)
(* Nodes are numbered in the order they are allocated; 0 is NULL.  Each    *)
(* process is queued once, so node n also stands for its process.  kfree   *)
(* never reuses the memory of a small object (module Kmalloc), so a        *)
(* destroyed node keeps its fields and a stale pointer to it still reads   *)
(* them.                                                                   *)
EXTENDS Integers, FiniteSets

CONSTANTS TICKS_UNTIL_SWITCH,
          MaxNodes,      \* bound: processes ever added
          RemoveInit     \* whether the first process may be removed

ASSUME SchedulerAssumption == /\ TICKS_UNTIL_SWITCH \in Nat \ {0}
                              /\ MaxNodes \in Nat \ {0}
                              /\ RemoveInit \in BOOLEAN

NULL == 0
Node == 1 .. MaxNodes

VARIABLES next,                 \* next[n], kept after n is destroyed
          allocated,            \* nodes 1 .. allocated were created
          live,                 \* nodes created and not destroyed
          head, tail, count,    \* ready_queue
          current_process_node,
          current_process,
          tick_count,
          panicked              \* panic() was called; the kernel has halted

queue == <<next, allocated, live, head, tail, count>>
vars == <<queue, current_process_node, current_process, tick_count, panicked>>

(* scheduler_init on the empty queue: the first process is head, tail and  *)
(* current.                                                                *)
Init == /\ next = [n \in Node |-> IF n = 1 THEN 1 ELSE NULL]
        /\ allocated = 1
        /\ live = {1}
        /\ head = 1 /\ tail = 1 /\ count = 1
        /\ current_process_node = 1
        /\ current_process = 1
        /\ tick_count = 0
        /\ panicked = FALSE

(* Mutant of LinkLast: the new tail is not linked back to the head. *)
LinkLastOpen(n) == [next EXCEPT ![tail] = n, ![n] = n]

(* The links of scheduler_add_process when the queue is not empty. *)
LinkLast(n) == [next EXCEPT ![tail] = n, ![n] = head]

scheduler_add_process ==
  LET n == allocated + 1 IN
  /\ ~panicked
  /\ allocated < MaxNodes
  /\ IF tail = NULL
       THEN /\ head' = n
            /\ next' = [next EXCEPT ![n] = n]
       ELSE /\ next' = LinkLast(n)
            /\ UNCHANGED head
  /\ tail' = n
  /\ allocated' = n
  /\ live' = live \cup {n}
  /\ count' = count + 1
  /\ UNCHANGED <<current_process_node, current_process, tick_count, panicked>>

MayRemove(n) == n # 1 \/ RemoveInit

(* The single-element case: the cursor is left on the destroyed node. *)
RemoveOnly(n) ==
  /\ ~panicked
  /\ head = n /\ tail = n /\ MayRemove(n)
  /\ head' = NULL /\ tail' = NULL /\ count' = 0
  /\ live' = live \ {n}
  /\ UNCHANGED <<next, allocated, current_process_node, current_process,
                 tick_count, panicked>>

(* The node before n in the search from head, NULL when n is the head.     *)
IsPrev(p, n) == \/ n = head /\ p = NULL
                \/ n # head /\ p \in live /\ next[p] = n

(* Mutant of Unlink: the predecessor keeps its link. *)
UnlinkForgotten(p, n) == next

Unlink(p, n) == IF p = NULL THEN next ELSE [next EXCEPT ![p] = next[n]]

NewTail(p, n) == IF n # tail THEN tail ELSE IF p # NULL THEN p ELSE head'

(* Mutant of NewCurrent: the cursor stays on the destroyed node. *)
CursorNotMoved(n) == current_process_node

(* Mutant of NewCurrent: the cursor is cleared whatever the count. *)
CursorCleared(n) == IF n # current_process_node THEN current_process_node
                                                ELSE NULL

NewCurrent(n) ==
  IF n # current_process_node THEN current_process_node
  ELSE IF count > 1 THEN next[n]
  ELSE IF count = 1 THEN NULL
  ELSE current_process_node

(* The multi-element case.  Removing the head leaves tail->next on it.     *)
RemoveOneOf(n) ==
  /\ ~panicked
  /\ head # tail /\ MayRemove(n)
  /\ \E p \in live \cup {NULL} :
       /\ IsPrev(p, n)
       /\ head' = IF p = NULL THEN next[n] ELSE head
       /\ next' = Unlink(p, n)
       /\ tail' = NewTail(p, n)
  /\ current_process_node' = NewCurrent(n)
  /\ live' = live \ {n}
  /\ count' = count - 1
  /\ UNCHANGED <<allocated, current_process, tick_count, panicked>>

scheduler_remove_process == \E n \in live : RemoveOnly(n) \/ RemoveOneOf(n)

(* scheduler_handle_tick before the time slice ends. *)
Tick == /\ ~panicked
        /\ tick_count + 1 < TICKS_UNTIL_SWITCH
        /\ tick_count' = tick_count + 1
        /\ UNCHANGED <<queue, current_process_node, current_process, panicked>>

(* scheduler_get_next_process panics on a NULL cursor or a NULL link.      *)
CursorBroken == current_process_node = NULL \/ next[current_process_node] = NULL

(* Mutant of NextNode: the search restarts at the head. *)
AlwaysHead == head

NextNode == next[current_process_node]

(* The end of the slice: scheduler_get_next_process, then process_switch,  *)
(* which stores the process it switches to in current_process.             *)
Switch ==
  LET selects == head # NULL /\ ~CursorBroken IN
  /\ ~panicked
  /\ tick_count + 1 >= TICKS_UNTIL_SWITCH
  /\ tick_count' = 0
  /\ panicked' = (head # NULL /\ CursorBroken)
  /\ current_process_node' = IF selects THEN NextNode
                                        ELSE current_process_node
  /\ current_process' = IF selects THEN current_process_node'
                                   ELSE current_process
  /\ UNCHANGED queue

scheduler_handle_tick == Tick \/ Switch

Next == \/ scheduler_add_process
        \/ scheduler_remove_process
        \/ scheduler_handle_tick

Spec == Init /\ [][Next]_vars

(* The PIT interrupts forever, so ticks keep coming.                       *)
FairSpec == Spec /\ WF_vars(scheduler_handle_tick)

-----------------------------------------------------------------------------
(* Every pointer is NULL or a node that was created. *)
TypeOK == /\ allocated \in Node
          /\ next \in [Node -> 0 .. allocated]
          /\ live \subseteq 1 .. allocated
          /\ {head, tail} \subseteq live \cup {NULL}
          /\ count \in Nat
          /\ current_process_node \in 0 .. allocated
          /\ current_process \in 1 .. allocated
          /\ tick_count \in 0 .. TICKS_UNTIL_SWITCH - 1
          /\ panicked \in BOOLEAN

(* The list from head to tail visits exactly the queued processes, in the  *)
(* order they were added, and ends there (tail->next is the head or a      *)
(* destroyed node), and count is their number, after any sequence of       *)
(* additions and removals at the tail or in the middle, and, with          *)
(* RemoveInit, at the head.                                                *)
ListIntact ==
  /\ head = NULL <=> live = {}
  /\ tail = NULL <=> live = {}
  /\ \A n \in live : head <= n /\ n <= tail
  /\ \A n \in live \ {tail} :
        next[n] \in live /\ n < next[n]
          /\ \A m \in live : m <= n \/ next[n] <= m
  /\ live # {} => next[tail] \notin live \ {head}
  /\ count = Cardinality(live)

(* While the first process stays, the list is a ring and the cursor is on  *)
(* a node of it: every tick selects a queued process.                      *)
RingClosed == ~RemoveInit => /\ 1 \in live
                             /\ next[tail] = head
                             /\ current_process_node \in live

(* "this should never happen": no sequence of operations leads             *)
(* scheduler_get_next_process to one of its two panics; with RemoveInit,   *)
(* not one that empties and refills the queue either.                      *)
NeverPanics == ~panicked

RR == INSTANCE RoundRobin WITH queued <- live, turn <- current_process_node,
                               running <- current_process

(* The list, the cursor and the tick counter implement round robin: a      *)
(* switch goes to the queued process after the one whose turn it was, in   *)
(* the order of addition, and never to one that was removed, also when the *)
(* cursor's own process or the tail was removed in between.  Only while    *)
(* the first process stays: it is the head, and once the head is removed   *)
(* the tail still links to its destroyed node, where the next turn goes    *)
(* (with RemoveInit the property does not hold).                           *)
ImplementsRoundRobin == RR!Spec

(* Every queued process eventually runs or is removed.                     *)
EveryProcessRuns ==
  \A n \in Node : (n \in live) ~> (current_process = n \/ n \notin live)
=============================================================================
