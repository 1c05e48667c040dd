----------------------------- MODULE CharQueue -----------------------------
(* What the keyboard driver promises the shell: the characters typed and   *)
(* not yet read form a queue, Backspace takes back the last one, and a     *)
(* read returns the oldest.                                                *)
EXTENDS Naturals, Sequences

CONSTANT Char

VARIABLES q,      \* typed and not yet read
          typed,  \* the last character typed
          got     \* the last character read

vars == <<q, typed, got>>

Init == q = <<>> /\ typed \in Char /\ got \in Char

Put == \E ch \in Char : /\ typed' = ch
                        /\ q' = Append(q, ch)
                        /\ UNCHANGED got

Erase == /\ q # <<>>
         /\ q' = SubSeq(q, 1, Len(q) - 1)
         /\ UNCHANGED <<typed, got>>

Get == /\ q # <<>>
       /\ got' = Head(q)
       /\ q' = Tail(q)
       /\ UNCHANGED typed

Next == Put \/ Erase \/ Get

Spec == Init /\ [][Next]_vars
=============================================================================
