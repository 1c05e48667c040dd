---------------------------- MODULE Interrupts ----------------------------
(* The interrupt path: the gates of interupts/idt.c, the controller as     *)
(* interupts/pic.c programs it, and the dispatch of interupts_handler.c.   *)
(* What a handler does on the stack of the process it interrupts is in     *)
(* module Processes, which extends this one.                               *)
EXTENDS Naturals, FiniteSets, FiniteSetsExt

TimerIrq == 0
KeyboardIrq == 1
Irq == 0 .. 15

PIT_ISR == 32
KEYBOARD_ISR == 33
PAGE_FAULT_ISR == 14
CPU_EXCEPTIONS == 32

VARIABLES gates,       \* vectors with a gate in the IDT
          offset,      \* vector of IRQ 0
          masked,      \* IRQs the controller holds back
          in_service,  \* IRQs delivered and not acknowledged
          ifl          \* the interrupt flag of the processor

interrupt_vars == <<gates, offset, masked, in_service, ifl>>

BiosOffset == 8

(* start clears the interrupt flag before the kernel runs; the controller  *)
(* is as the firmware left it, with any IRQs masked.                       *)
InterruptsInit ==
  /\ gates = {} /\ offset = BiosOffset
  /\ masked \in {{}, Irq \ {KeyboardIrq}}
  /\ in_service = {} /\ ifl = FALSE

init_idt_entries == 0 .. KEYBOARD_ISR

init_idt == /\ gates' = init_idt_entries
            /\ UNCHANGED <<offset, masked, in_service, ifl>>

PIC1_VECTOR_OFFSET == 32

(* Mutant of mask_all_except_keyboard: the saved masks stay in force. *)
SavedMasks == masked

mask_all_except_keyboard == Irq \ {KeyboardIrq}

(* remap_pic ends with interrupts enabled, before memory is set up. *)
remap_pic == /\ offset' = PIC1_VECTOR_OFFSET
             /\ masked' = mask_all_except_keyboard
             /\ ifl' = TRUE
             /\ UNCHANGED <<gates, in_service>>

unmask_irq(irq) == masked \ {irq}

(* The controller offers the processor an IRQ that is not masked, unless   *)
(* one of the same or a higher priority is still in service.               *)
Deliverable(irq) ==
  ifl /\ irq \notin masked /\ \A j \in in_service : irq < j

(* pic_send_ack: an end of interrupt takes the most urgent IRQ out of      *)
(* service.                                                                *)
pic_send_ack == IF in_service = {} THEN {} ELSE in_service \ {Min(in_service)}

isr_handler(int_no) ==
  CASE int_no = KEYBOARD_ISR   -> "keyboard_handler"
    [] int_no = PAGE_FAULT_ISR -> "page_fault_handler"
    [] int_no = PIT_ISR        -> "pit_handler"
    [] int_no < CPU_EXCEPTIONS /\ int_no # PAGE_FAULT_ISR -> "cpu_handler"
    [] OTHER                   -> "unknown"

(* Whenever the controller may deliver an IRQ, its vector has a gate and   *)
(* leads to the handler of that device: never, at any point of kernel_main *)
(* after interrupts are enabled, to an empty gate or to the handler of a   *)
(* processor exception, which halts the system.                            *)
InterruptsReachTheirHandler ==
  \A irq \in Irq : Deliverable(irq) =>
     /\ offset + irq \in gates
     /\ isr_handler(offset + irq)
          = CASE irq = TimerIrq -> "pit_handler"
              [] irq = KeyboardIrq -> "keyboard_handler"
              [] OTHER -> "unexpected"
=============================================================================
