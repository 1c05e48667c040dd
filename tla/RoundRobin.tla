----------------------------- MODULE RoundRobin -----------------------------
(* What a user of processes/scheduler.c relies on: the queued processes    *)
(* take turns in the order they were added.  Processes are numbered in     *)
(* that order.  When the one whose turn it is leaves, the turn passes to   *)
(* the one after it, and the next switch goes past that one: it loses a    *)
(* turn.                                                                   *)
EXTENDS Naturals

VARIABLES queued,   \* the processes that take turns
          turn,     \* whose turn it is
          running   \* the process the last switch went to

vars == <<queued, turn, running>>

(* s is the process of S after p, in a circle. *)
After(S, p, s) ==
  /\ s \in S
  /\ \/ p < s /\ \A q \in S : q <= p \/ s <= q
     \/ \A q \in S : q <= p /\ s <= q

Init == queued = {1} /\ turn = 1 /\ running = 1

Arrive == /\ \E p \in queued' : /\ queued' = queued \cup {p}
                                /\ \A q \in queued : q < p
          /\ UNCHANGED <<turn, running>>

Leave == /\ \E p \in queued : /\ queued' = queued \ {p}
                              /\ IF p = turn THEN After(queued', p, turn')
                                             ELSE turn' = turn
         /\ UNCHANGED running

Switch == /\ After(queued, turn, turn')
          /\ running' = turn'
          /\ UNCHANGED queued

Next == Arrive \/ Leave \/ Switch

Spec == Init /\ [][Next]_vars
=============================================================================
