------------------------------- MODULE MCVmm -------------------------------
(* A page table with words of every kind the firmware may have left in it: *)
(* clear, present (one of them naming a frame of the pool), swapped, both, *)
(* and a word that is neither but not clear.                               *)
EXTENDS Vmm

CONSTANT NamedFrame

ASSUME NamedFrame \in Pool

MCFirmware ==
  [t \in Pt |-> CASE t = 0 -> [p |-> TRUE, s |-> TRUE, frame |-> 9]
                   [] t = 1 -> [p |-> TRUE, s |-> FALSE, frame |-> NamedFrame]
                   [] t = 3 -> [p |-> FALSE, s |-> FALSE, frame |-> 5]
                   [] t = 4 -> [p |-> FALSE, s |-> TRUE, frame |-> 9]
                   [] t = 5 -> [p |-> TRUE, s |-> TRUE, frame |-> 9]
                   [] OTHER -> Zero]
=============================================================================
