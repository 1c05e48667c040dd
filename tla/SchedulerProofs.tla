-------------------------- MODULE SchedulerProofs --------------------------
(* Proofs about processes/scheduler.c for any number of processes and any  *)
(* length of the time slice.                                               *)
EXTENDS Scheduler, FiniteSetTheorems, TLAPS

-----------------------------------------------------------------------------
(* What makes NeverPanics inductive: every created node, even a destroyed  *)
(* one, links to a created node.                                           *)
LinksSet == /\ \A n \in 1 .. allocated : next[n] \in 1 .. allocated
            /\ current_process_node \in 1 .. allocated

(* The inductive invariant. *)
IInv == TypeOK /\ ListIntact /\ RingClosed /\ LinksSet /\ NeverPanics

-----------------------------------------------------------------------------
(* The queued nodes are finitely many. *)
LEMMA LiveFinite ==
  ASSUME TypeOK
  PROVE  IsFiniteSet(live) /\ Cardinality(live) \in Nat
<1>1. IsFiniteSet(1 .. allocated)
  BY FS_Interval DEF TypeOK, Node
<1>2. IsFiniteSet(live)
  BY <1>1, FS_Subset DEF TypeOK
<1> QED
  BY <1>2, FS_CardinalityType

(* Queuing the new node adds one to the number of queued nodes, removing a *)
(* queued one takes one away.                                              *)
LEMMA CardinalityStep ==
  ASSUME TypeOK
  PROVE  /\ \A n : n \notin live
                     => Cardinality(live \cup {n}) = Cardinality(live) + 1
         /\ \A n \in live :
              Cardinality(live \ {n}) = Cardinality(live) - 1
<1>1. IsFiniteSet(live)
  BY LiveFinite
<1> QED
  BY <1>1, FS_AddElement, FS_RemoveElement

(* scheduler_init establishes the invariant. *)
LEMMA InitIInv == Init => IInv
<1> SUFFICES ASSUME Init PROVE IInv
  OBVIOUS
<1>1. TypeOK
  <2>1. 1 \in Node /\ 0 \in 0 .. TICKS_UNTIL_SWITCH - 1
    BY SchedulerAssumption DEF Node
  <2>2. next \in [Node -> 0 .. allocated]
    BY DEF Init, NULL
  <2>3. /\ allocated = 1 /\ live = {1} /\ {head, tail} = {1} /\ count = 1
        /\ current_process_node = 1 /\ current_process = 1
        /\ tick_count = 0 /\ panicked = FALSE
    BY DEF Init
  <2>4. 1 \in 1 .. allocated /\ 1 \in 0 .. allocated /\ 1 \in Nat
    BY <2>3
  <2> QED
    BY <2>1, <2>2, <2>3, <2>4, Zenon DEF TypeOK
<1>2. ListIntact
  <2>1. Cardinality({1}) = 1
    BY FS_Singleton
  <2> QED
    BY <2>1 DEF Init, ListIntact, NULL
<1>3. RingClosed /\ LinksSet /\ NeverPanics
  BY SchedulerAssumption DEF Init, RingClosed, LinksSet, NeverPanics, Node
<1> QED
  BY <1>1, <1>2, <1>3 DEF IInv

(* scheduler_add_process preserves the invariant. *)
LEMMA AddIInv == IInv /\ scheduler_add_process => IInv'
<1> SUFFICES ASSUME IInv, scheduler_add_process PROVE IInv'
  OBVIOUS
<1> DEFINE n == allocated + 1
<1> USE DEF IInv, NULL
<1>1. /\ n \in Node /\ allocated \in Node /\ allocated \in Nat
      /\ Node \subseteq Nat /\ MaxNodes \in Nat /\ n <= MaxNodes
  BY SchedulerAssumption DEF scheduler_add_process, TypeOK, Node
<1>2. /\ allocated' = n /\ live' = live \cup {n} /\ tail' = n
      /\ count' = count + 1
      /\ UNCHANGED <<current_process_node, current_process, tick_count,
                     panicked>>
  BY DEF scheduler_add_process
<1>3. n \notin live
  BY <1>1 DEF TypeOK
<1>4. CASE tail = NULL
  <2>1. live = {} /\ head' = n /\ next' = [next EXCEPT ![n] = n]
    BY <1>4 DEF scheduler_add_process, ListIntact
  <2>2. TypeOK'
    BY <1>1, <1>2, <2>1 DEF TypeOK, Node
  <2>3. ListIntact'
    <3>1. count' = Cardinality(live')
      BY <1>2, <1>3, CardinalityStep DEF ListIntact
    <3>2. live' = {n} /\ next'[n] = n /\ n # 0
      BY <1>1, <1>2, <2>1 DEF TypeOK
    <3> QED
      BY <1>1, <1>2, <2>1, <3>1, <3>2 DEF ListIntact
  <2>4. RingClosed' /\ LinksSet' /\ NeverPanics'
    BY <1>1, <1>2, <2>1 DEF RingClosed, LinksSet, NeverPanics, TypeOK
  <2> QED
    BY <2>2, <2>3, <2>4
<1>5. CASE tail # NULL
  <2>1. head' = head /\ next' = [next EXCEPT ![tail] = n, ![n] = head]
    BY <1>5 DEF scheduler_add_process, LinkLast
  <2>2. /\ tail \in live /\ head \in live /\ tail \in Node /\ head \in Node
        /\ tail \in Nat /\ head \in Nat /\ tail < n /\ head < n
        /\ head \in 1 .. allocated /\ tail \in 1 .. allocated
    <3>1. tail \in live /\ head \in live
      BY <1>5 DEF ListIntact, TypeOK
    <3>2. live \subseteq 1 .. allocated /\ 1 .. allocated \subseteq Node
      BY <1>1 DEF TypeOK, Node
    <3> QED
      BY <1>1, <3>1, <3>2
  <2>3. /\ next'[tail] = n /\ next'[n] = head
        /\ \A m \in Node : m # tail /\ m # n => next'[m] = next[m]
    BY <1>1, <2>1, <2>2 DEF TypeOK
  <2>4. TypeOK'
    <3>1. next' \in [Node -> 0 .. allocated']
      BY <1>1, <1>2, <2>1, <2>2 DEF TypeOK
    <3> QED
      BY <1>1, <1>2, <2>1, <2>2, <3>1 DEF TypeOK
  <2>5. ListIntact'
    <3>1. count' = Cardinality(live')
      BY <1>2, <1>3, CardinalityStep DEF ListIntact
    <3>2. \A m \in live' : head' <= m /\ m <= tail'
      BY <1>1, <1>2, <2>1, <2>2 DEF ListIntact, TypeOK
    <3>3. ASSUME NEW m \in live' \ {tail'}
          PROVE  /\ next'[m] \in live' /\ m < next'[m]
                 /\ \A k \in live' : k <= m \/ next'[m] <= k
      <4>1. m \in live /\ m \in Node /\ m # n /\ m \in Nat
        <5>1. m \in live /\ m # n
          BY <1>2, <3>3
        <5>2. m \in 1 .. allocated
          BY <5>1 DEF TypeOK
        <5> QED
          BY <1>1, <5>1, <5>2 DEF Node
      <4>2. CASE m = tail
        BY <4>1, <4>2, <1>1, <1>2, <2>2, <2>3 DEF ListIntact
      <4>3. CASE m # tail
        BY <4>1, <4>3, <1>1, <1>2, <2>2, <2>3 DEF ListIntact, TypeOK
      <4> QED
        BY <4>2, <4>3
    <3>4. head' # NULL /\ tail' # NULL /\ live' # {} /\ next'[tail'] = head'
      BY <1>1, <1>2, <2>1, <2>2, <2>3
    <3> QED
      BY <3>1, <3>2, <3>3, <3>4 DEF ListIntact
  <2>6. RingClosed'
    BY <1>2, <2>1, <2>3 DEF RingClosed
  <2>7. LinksSet'
    <3>1. ASSUME NEW m \in 1 .. allocated' PROVE next'[m] \in 1 .. allocated'
      <4>1. m \in Node /\ (m = n \/ m \in 1 .. allocated)
        <5>1. m \in Nat /\ 1 <= m /\ m <= n
          BY <1>1, <1>2
        <5> QED
          BY <1>1, <5>1 DEF Node
      <4> QED
        BY <4>1, <1>1, <1>2, <2>2, <2>3 DEF LinksSet
    <3> QED
      BY <3>1, <1>1, <1>2 DEF LinksSet
  <2> QED
    BY <1>2, <2>4, <2>5, <2>6, <2>7 DEF NeverPanics
<1> QED
  BY <1>4, <1>5

(* Removing the only process preserves the invariant. *)
LEMMA RemoveOnlyIInv ==
  ASSUME IInv, NEW n \in live, RemoveOnly(n)
  PROVE  IInv'
<1> USE DEF IInv, NULL
<1>1. /\ head = n /\ tail = n /\ head' = 0 /\ tail' = 0 /\ count' = 0
      /\ live' = live \ {n} /\ (n # 1 \/ RemoveInit)
      /\ UNCHANGED <<next, allocated, current_process_node, current_process,
                     tick_count, panicked>>
  BY DEF RemoveOnly, MayRemove
<1>2. live' = {}
  BY <1>1 DEF ListIntact, TypeOK, Node
<1>3. Cardinality(live') = 0
  BY <1>2, FS_EmptySet
<1>4. TypeOK' /\ ListIntact'
  BY <1>1, <1>2, <1>3 DEF TypeOK, ListIntact, Node
<1>5. RingClosed' /\ LinksSet' /\ NeverPanics'
  BY <1>1, SchedulerAssumption
     DEF RingClosed, LinksSet, NeverPanics, ListIntact, TypeOK, Node
<1> QED
  BY <1>4, <1>5

(* Removing one of several processes preserves the invariant. *)
LEMMA RemoveOneOfIInv ==
  ASSUME IInv, NEW n \in live, RemoveOneOf(n)
  PROVE  IInv'
<1> USE DEF IInv, NULL
<1>1. PICK p \in live \cup {NULL} :
        /\ IsPrev(p, n)
        /\ head' = IF p = NULL THEN next[n] ELSE head
        /\ next' = Unlink(p, n)
        /\ tail' = NewTail(p, n)
  BY DEF RemoveOneOf
<1>2. /\ head # tail /\ MayRemove(n) /\ current_process_node' = NewCurrent(n)
      /\ live' = live \ {n} /\ count' = count - 1
      /\ UNCHANGED <<allocated, current_process, tick_count, panicked>>
  BY DEF RemoveOneOf
<1>3. /\ Node \subseteq Nat /\ live \subseteq Node /\ live \subseteq Nat
      /\ live \subseteq 1 .. allocated /\ 0 \notin live
      /\ allocated \in Nat
  BY SchedulerAssumption DEF TypeOK, Node
<1>4. head \in live /\ tail \in live
  BY DEF ListIntact, TypeOK
<1>5. count' = Cardinality(live') /\ count' \in Nat
  BY <1>2, CardinalityStep, LiveFinite, FS_RemoveElement,
     FS_CardinalityType, FS_Subset DEF ListIntact
<1>6. count > 1
  <2>1. Cardinality({head, tail}) = 2
    <3>1. IsFiniteSet({head}) /\ Cardinality({head}) = 1
      BY FS_Singleton
    <3>2. Cardinality({head} \cup {tail}) = Cardinality({head}) + 1
      BY <1>2, <3>1, FS_AddElement
    <3>3. {head} \cup {tail} = {head, tail}
      OBVIOUS
    <3> QED
      BY <3>1, <3>2, <3>3
  <2>2. Cardinality({head, tail}) <= Cardinality(live)
    BY <1>4, LiveFinite, FS_Subset
  <2> QED
    BY <2>1, <2>2, LiveFinite DEF ListIntact
<1>7. /\ current_process_node' \in 1 .. allocated
      /\ current_process_node' = IF n = current_process_node
                                   THEN next[n] ELSE current_process_node
  BY <1>2, <1>3, <1>6 DEF NewCurrent, LinksSet
<1>8. CASE n = head
  <2>1. p = NULL /\ next' = next /\ head' = next[n] /\ n # tail
        /\ tail' = tail
    BY <1>1, <1>2, <1>3, <1>8 DEF IsPrev, Unlink, NewTail
  <2>2. next[n] \in live /\ n < next[n] /\ next[n] \in Nat
        /\ \A m \in live : m <= n \/ next[n] <= m
    BY <2>1, <1>3 DEF ListIntact
  <2>3. TypeOK'
    BY <1>2, <1>3, <1>4, <1>5, <1>7, <2>1, <2>2 DEF TypeOK
  <2>4. ListIntact'
    <3>1. \A m \in live' : head' <= m /\ m <= tail'
      BY <1>2, <1>3, <1>8, <2>1, <2>2 DEF ListIntact
    <3>2. \A m \in live' \ {tail'} :
             next'[m] \in live' /\ m < next'[m]
               /\ \A k \in live' : k <= m \/ next'[m] <= k
      BY <1>2, <1>3, <1>8, <2>1, <2>2 DEF ListIntact
    <3>3. head' # NULL /\ tail' # NULL /\ live' # {}
      BY <1>2, <1>3, <1>4, <2>1, <2>2
    <3>4. next'[tail'] \notin live' \ {head'}
      BY <1>2, <1>8, <2>1 DEF ListIntact
    <3> QED
      BY <1>5, <3>1, <3>2, <3>3, <3>4 DEF ListIntact
  <2>5. RingClosed'
    BY <1>2, <1>3, <1>8, SchedulerAssumption
       DEF RingClosed, MayRemove, ListIntact, TypeOK
  <2>6. LinksSet' /\ NeverPanics'
    BY <1>2, <1>7, <2>1 DEF LinksSet, NeverPanics
  <2> QED
    BY <2>3, <2>4, <2>5, <2>6
<1>9. CASE n # head
  <2>1. /\ p \in live /\ p \in Node /\ next[p] = n /\ p # NULL
        /\ head' = head /\ next' = [next EXCEPT ![p] = next[n]]
        /\ tail' = IF n # tail THEN tail ELSE p
    BY <1>1, <1>3, <1>9 DEF IsPrev, Unlink, NewTail
  <2>2. /\ next'[p] = next[n]
        /\ \A m \in Node : m # p => next'[m] = next[m]
    BY <2>1 DEF TypeOK
  <2>3. p # tail /\ p < n /\ \A m \in live : m <= p \/ n <= m
    BY <2>1, <1>9 DEF ListIntact
  <2>4. n # tail => /\ next[n] \in live /\ n < next[n]
                    /\ \A m \in live : m <= n \/ next[n] <= m
    BY DEF ListIntact
  <2>5. /\ {n, p, head, tail} \subseteq Nat
        /\ next[n] \in 1 .. allocated /\ n # p
        /\ n \in Node /\ n \in 1 .. allocated
    BY <1>3, <1>4, <2>1, <2>3 DEF LinksSet
  <2>6. TypeOK'
    <3>1. next' \in [Node -> 0 .. allocated]
      BY <1>3, <2>1, <2>5 DEF TypeOK
    <3>2. {head', tail'} \subseteq live' \cup {NULL}
      BY <1>2, <1>4, <1>9, <2>1, <2>5
    <3> QED
      BY <1>2, <1>3, <1>5, <1>7, <3>1, <3>2 DEF TypeOK
  <2>7. ListIntact'
    <3>1. \A m \in live' : head' <= m /\ m <= tail'
      BY <1>2, <1>3, <2>1, <2>3, <2>5 DEF ListIntact
    <3>2. ASSUME NEW m \in live' \ {tail'}
          PROVE  /\ next'[m] \in live' /\ m < next'[m]
                 /\ \A k \in live' : k <= m \/ next'[m] <= k
      <4>1. m \in live /\ m # n /\ m \in Nat /\ m \in Node
        BY <1>2, <1>3, <3>2
      <4>2. CASE m = p
        <5>1. n # tail /\ next'[m] = next[n]
          BY <2>1, <2>2, <3>2, <4>2
        <5>2. next[n] \in live /\ n < next[n] /\ next[n] \in Nat
          BY <1>3, <2>4, <5>1
        <5>3. next[n] \in live' /\ p < next[n]
          BY <1>2, <1>3, <2>3, <2>5, <5>2
        <5>4. ASSUME NEW k \in live' PROVE k <= p \/ next[n] <= k
          BY <1>2, <1>3, <2>3, <2>4, <2>5, <5>1, <5>2
        <5> QED
          BY <4>2, <5>1, <5>3, <5>4
      <4>3. CASE m # p
        <5>1. m # tail /\ next'[m] = next[m]
          <6>1. m # tail
            BY <2>1, <3>2, <4>1, <4>3
          <6> QED
            BY <2>2, <4>1, <4>3, <6>1
        <5>2. /\ next[m] \in live /\ m < next[m]
              /\ \A k \in live : k <= m \/ next[m] <= k
          BY <4>1, <5>1 DEF ListIntact
        <5>3. next[m] # n
          BY <1>3, <2>1, <2>3, <2>5, <4>1, <4>3, <5>2
        <5> QED
          BY <1>2, <5>1, <5>2, <5>3
      <4> QED
        BY <4>2, <4>3
    <3>3. head' # NULL /\ tail' # NULL /\ live' # {}
      BY <1>2, <1>3, <1>4, <1>9, <2>1
    <3>4. next'[tail'] \notin live' \ {head'}
      <4>1. CASE n = tail
        BY <1>2, <2>1, <2>2, <4>1 DEF ListIntact
      <4>2. CASE n # tail
        BY <1>2, <1>3, <1>4, <2>1, <2>2, <2>3, <4>2 DEF ListIntact
      <4> QED
        BY <4>1, <4>2
    <3> QED
      BY <1>5, <3>1, <3>2, <3>3, <3>4 DEF ListIntact
  <2>8. RingClosed'
    <3> SUFFICES ASSUME ~RemoveInit
                 PROVE  /\ 1 \in live' /\ next'[tail'] = head'
                        /\ current_process_node' \in live'
      BY DEF RingClosed
    <3>1. /\ 1 \in live /\ next[tail] = head /\ n # 1
          /\ current_process_node \in live
      BY <1>2 DEF RingClosed, MayRemove
    <3>2. next'[tail'] = head'
      BY <1>3, <1>4, <2>1, <2>2, <2>3, <3>1
    <3>3. next[n] \in live \ {n}
      BY <1>3, <1>4, <1>9, <2>4, <2>5, <3>1
    <3> QED
      BY <1>2, <1>7, <3>1, <3>2, <3>3
  <2>9. LinksSet' /\ NeverPanics'
    <3>1. \A m \in 1 .. allocated : next'[m] \in 1 .. allocated
      <4>1. 1 .. allocated \subseteq Node
        BY SchedulerAssumption DEF TypeOK, Node
      <4> QED
        BY <2>2, <2>5, <4>1 DEF LinksSet
    <3> QED
      BY <1>2, <1>7, <3>1 DEF LinksSet, NeverPanics
  <2> QED
    BY <2>6, <2>7, <2>8, <2>9
<1> QED
  BY <1>8, <1>9

(* The timer tick preserves the invariant: the cursor it advances is never *)
(* NULL and never on a node without a link.                                *)
LEMMA TickIInv == IInv /\ scheduler_handle_tick => IInv'
<1> SUFFICES ASSUME IInv, scheduler_handle_tick PROVE IInv'
  OBVIOUS
<1> USE DEF IInv
<1>1. CASE Tick
  <2>1. /\ UNCHANGED <<next, allocated, live, head, tail, count>>
        /\ UNCHANGED <<current_process_node, current_process, panicked>>
        /\ tick_count' \in 0 .. TICKS_UNTIL_SWITCH - 1
    BY <1>1, SchedulerAssumption DEF Tick, TypeOK, queue
  <2> QED
    BY <2>1 DEF TypeOK, ListIntact, RingClosed, LinksSet, NeverPanics
<1>2. CASE Switch
  <2>1. /\ UNCHANGED <<next, allocated, live, head, tail, count>>
        /\ tick_count' \in 0 .. TICKS_UNTIL_SWITCH - 1
    BY <1>2, SchedulerAssumption DEF Switch, queue
  <2>2. ~CursorBroken
    BY DEF LinksSet, CursorBroken, NULL, TypeOK, Node
  <2>3. /\ panicked' = FALSE
        /\ \/ /\ current_process_node' = next[current_process_node]
              /\ current_process' = next[current_process_node]
           \/ UNCHANGED <<current_process_node, current_process>>
    BY <1>2, <2>2 DEF Switch, NextNode
  <2>4. next[current_process_node] \in 1 .. allocated
    BY DEF LinksSet
  <2>5. TypeOK' /\ ListIntact' /\ LinksSet' /\ NeverPanics'
    <3>1. /\ current_process_node' \in 1 .. allocated
          /\ current_process' \in 1 .. allocated
          /\ panicked' = FALSE
      BY <2>3, <2>4 DEF TypeOK, LinksSet
    <3>2. 1 .. allocated \subseteq 0 .. allocated
      BY DEF TypeOK, Node
    <3>3. TypeOK'
      BY <2>1, <3>1, <3>2 DEF TypeOK
    <3>4. ListIntact'
      BY <2>1 DEF ListIntact
    <3> QED
      BY <2>1, <3>1, <3>3, <3>4 DEF LinksSet, NeverPanics
  <2>6. RingClosed'
    <3>1. ~RemoveInit => next[current_process_node] \in live
      BY DEF RingClosed, ListIntact, TypeOK
    <3> QED
      BY <2>1, <2>3, <3>1 DEF RingClosed
  <2> QED
    BY <2>5, <2>6
<1> QED
  BY <1>1, <1>2 DEF scheduler_handle_tick

(* Every operation of the scheduler preserves the invariant. *)
LEMMA NextIInv == IInv /\ [Next]_vars => IInv'
<1> SUFFICES ASSUME IInv, [Next]_vars PROVE IInv'
  OBVIOUS
<1>1. CASE scheduler_add_process
  BY <1>1, AddIInv
<1>2. CASE scheduler_remove_process
  BY <1>2, RemoveOnlyIInv, RemoveOneOfIInv DEF scheduler_remove_process
<1>3. CASE scheduler_handle_tick
  BY <1>3, TickIInv
<1>4. CASE UNCHANGED vars
  BY <1>4 DEF vars, queue, IInv, TypeOK, ListIntact, RingClosed, LinksSet,
              NeverPanics
<1> QED
  BY <1>1, <1>2, <1>3, <1>4 DEF Next

(* The whole inductive invariant holds in every reachable state. *)
THEOREM InductiveInvariant == Spec => []IInv
<1> QED
  BY InitIInv, NextIInv, PTL DEF Spec

(* The ready queue stays a well-formed list of exactly the queued          *)
(* processes.                                                              *)
THEOREM QueueWellFormed == Spec => []ListIntact
<1>1. IInv => ListIntact
  BY DEF IInv
<1> QED
  BY <1>1, InductiveInvariant, PTL

(* If the first process is never removed the queue is always a ring and    *)
(* the cursor always on it.                                                *)
THEOREM RingStaysClosed == Spec => []RingClosed
<1>1. IInv => RingClosed
  BY DEF IInv
<1> QED
  BY <1>1, InductiveInvariant, PTL

(* The two panics of scheduler_get_next_process are unreachable when no    *)
(* operation is interrupted.                                               *)
THEOREM NoPanic == Spec => []NeverPanics
<1>1. IInv => NeverPanics
  BY DEF IInv
<1> QED
  BY <1>1, InductiveInvariant, PTL

(* Removing one of several processes moves the cursor only when it is on   *)
(* the process removed, and then to the next one in the list.              *)
LEMMA CursorAfterRemoval ==
  ASSUME IInv, NEW n \in live, RemoveOneOf(n)
  PROVE  current_process_node' = IF n = current_process_node
                                   THEN next[n] ELSE current_process_node
<1>1. head # tail /\ current_process_node' = NewCurrent(n)
  BY DEF RemoveOneOf
<1>2. head \in live /\ tail \in live
  BY DEF IInv, ListIntact, TypeOK, NULL
<1>3. TypeOK /\ count = Cardinality(live)
  BY DEF IInv, ListIntact
<1>4. Cardinality({head, tail}) = 2
  <2>1. IsFiniteSet({head}) /\ Cardinality({head}) = 1
    BY FS_Singleton
  <2>2. Cardinality({head} \cup {tail}) = Cardinality({head}) + 1
    BY <1>1, <2>1, FS_AddElement
  <2>3. {head} \cup {tail} = {head, tail}
    OBVIOUS
  <2> QED
    BY <2>1, <2>2, <2>3
<1>5. Cardinality({head, tail}) <= Cardinality(live) /\ Cardinality(live) \in Nat
  BY <1>2, <1>3, LiveFinite, FS_Subset
<1>6. count > 1
  BY <1>3, <1>4, <1>5
<1> QED
  BY <1>1, <1>6 DEF NewCurrent

(* The link of a queued node leads to the process after it in the circle,  *)
(* also when the node itself no longer counts.                             *)
LEMMA NextIsAfter ==
  ASSUME IInv, ~RemoveInit, NEW n \in live
  PROVE  /\ RR!After(live, n, next[n])
         /\ head # tail => RR!After(live \ {n}, n, next[n])
<1>1. live \subseteq Nat /\ head \in live /\ tail \in live /\ next[tail] = head
  BY SchedulerAssumption DEF IInv, TypeOK, Node, ListIntact, RingClosed, NULL
<1>2. CASE n # tail
  <2>1. next[n] \in live /\ n < next[n] /\ \A m \in live : m <= n \/ next[n] <= m
    BY <1>2 DEF IInv, ListIntact
  <2>2. next[n] # n
    BY <1>1, <2>1
  <2> QED
    BY <2>1, <2>2 DEF RR!After
<1>3. CASE n = tail
  <2>1. next[n] = head /\ \A m \in live : m <= n /\ head <= m
    BY <1>1, <1>3 DEF IInv, ListIntact
  <2> QED
    BY <1>1, <1>3, <2>1 DEF RR!After
<1> QED
  BY <1>2, <1>3

(* While the first process stays, the scheduler is a round robin over the  *)
(* queued processes, for any number of them and any time slice.            *)
THEOREM IsRoundRobin ==
  ASSUME ~RemoveInit
  PROVE  Spec => ImplementsRoundRobin
<1>1. Init => RR!Init
  BY DEF Init, RR!Init
<1>2. IInv /\ [Next]_vars => [RR!Next]_(RR!vars)
  <2> SUFFICES ASSUME IInv, [Next]_vars
               PROVE  RR!Next \/ UNCHANGED RR!vars
    OBVIOUS
  <2>1. CASE scheduler_add_process
    <3> DEFINE n == allocated + 1
    <3>1. /\ live' = live \cup {n}
          /\ UNCHANGED <<current_process_node, current_process>>
      BY <2>1 DEF scheduler_add_process
    <3>2. \A q \in live : q < n
      BY SchedulerAssumption DEF IInv, TypeOK, Node
    <3> HIDE DEF n
    <3>3. n \in live'
      BY <3>1
    <3> QED
      BY <3>1, <3>2, <3>3 DEF RR!Next, RR!Arrive
  <2>2. CASE \E n \in live : RemoveOnly(n)
    <3>1. PICK n \in live : RemoveOnly(n)
      BY <2>2
    <3>2. head = n /\ tail = n /\ n # 1
      BY <3>1 DEF RemoveOnly, MayRemove
    <3>3. 1 \in live /\ \A m \in live : head <= m /\ m <= tail
      BY DEF IInv, RingClosed, ListIntact
    <3>4. live \subseteq Nat
      BY SchedulerAssumption DEF IInv, TypeOK, Node
    <3> QED
      BY <3>2, <3>3, <3>4
  <2>3. CASE \E n \in live : RemoveOneOf(n)
    <3>1. PICK n \in live : RemoveOneOf(n)
      BY <2>3
    <3>2. live' = live \ {n} /\ current_process' = current_process /\ head # tail
      BY <3>1 DEF RemoveOneOf
    <3>3. current_process_node' = IF n = current_process_node
                                    THEN next[n] ELSE current_process_node
      BY <3>1, CursorAfterRemoval
    <3>4. RR!After(live \ {n}, n, next[n])
      BY <3>2, NextIsAfter
    <3> QED
      BY <3>2, <3>3, <3>4 DEF RR!Next, RR!Leave
  <2>4. CASE Tick
    BY <2>4 DEF Tick, queue, RR!vars
  <2>5. CASE Switch
    <3>1. current_process_node \in live /\ head # NULL /\ ~CursorBroken
      BY DEF IInv, RingClosed, ListIntact, LinksSet, CursorBroken, NULL, TypeOK, Node
    <3>2. /\ current_process_node' = next[current_process_node]
          /\ current_process' = current_process_node' /\ live' = live
      BY <2>5, <3>1 DEF Switch, NextNode, queue
    <3>3. RR!After(live, current_process_node, current_process_node')
      BY <3>1, <3>2, NextIsAfter
    <3> QED
      BY <3>2, <3>3 DEF RR!Next, RR!Switch
  <2>6. CASE UNCHANGED vars
    BY <2>6 DEF vars, queue, RR!vars
  <2> QED
    BY <2>1, <2>2, <2>3, <2>4, <2>5, <2>6
       DEF Next, scheduler_remove_process, scheduler_handle_tick
<1> QED
  BY <1>1, <1>2, InductiveInvariant, PTL DEF Spec, ImplementsRoundRobin, RR!Spec
=============================================================================
