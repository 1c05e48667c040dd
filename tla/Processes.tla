----------------------------- MODULE Processes -----------------------------
(* Processes under the timer: kernel_main's start-up, process_create with  *)
(* its stack, the interrupt stubs, the tick and process_switch             *)
(* (kernel.c, processes/process.c, processes/pcb.c, processes/pid.c,       *)
(* processes/context_switch.asm, interupts/isr_stubs.asm, drivers/pit.c).  *)
(*                                                                         *)
(* kernel_main has its call of processes_init commented out and nothing    *)
(* calls pit_init; the model makes both calls, which is the configuration  *)
(* the process code is written for.                                        *)
(*                                                                         *)
(* One register r stands for the general registers.  A stack is a memory   *)
(* area of slots, each holding one interrupt frame or one frame of         *)
(* process_switch; a stack pointer is an area and a slot.  All processes   *)
(* made by process_create have the same stack addresses, and all           *)
(* directories refer to the same page table (module Vmm): they share one   *)
(* area.  The ready queue is the one of module Scheduler, without          *)
(* removals.                                                               *)
EXTENDS Interrupts, Sequences

CONSTANTS MaxCreated,          \* bound: calls of process_create
          Frames,              \* frames pmm has for stacks and directories
          StackPages,          \* pages of a stack
          TICKS_UNTIL_SWITCH,
          PidSpace             \* values of pid_t

Proc == 0 .. MaxCreated        \* 0 is the kernel's own process
Depth == 4                     \* slots of a stack

ASSUME ProcessesAssumption ==
  /\ MaxCreated \in Nat /\ Frames \in Nat /\ StackPages \in Nat \ {0}
  /\ TICKS_UNTIL_SWITCH \in Nat \ {0} /\ PidSpace \in Nat \ {0}

VARIABLES boot,        \* calls of kernel_main made so far
          pc,          \* what the processor executes
          r,           \* the general registers
          sp,          \* the stack pointer
          mem,         \* mem[area][slot]
          esp,         \* esp[p]: the stack pointer in p's context
          created,     \* processes made so far, with their pids
          next_pid,
          frames,      \* frames left in pmm
          queue,       \* the ready queue, from head to tail
          cursor,      \* current_process_node
          current,     \* current_process
          tick_count,
          stopped,     \* "no", or why the kernel does not go on
          work         \* work[p]: what p's registers should hold

process_vars == <<mem, esp, created, next_pid, frames, queue, cursor, current,
                  tick_count>>
cpu_vars == <<pc, r, sp>>
vars == <<interrupt_vars, process_vars, cpu_vars, boot, stopped, work>>

Code(p) == <<"code", p>>
Junk == 2                      \* what a handler leaves in the registers

Areas == {"kernel", "user"}
Area(p) == IF p = 0 THEN "kernel" ELSE "user"
NoFrame == [kind |-> "none"]

Init ==
  /\ InterruptsInit
  /\ boot = 0 /\ pc = Code(0) /\ r = 0
  /\ sp = [area |-> "kernel", slot |-> 0]
  /\ mem = [a \in Areas |-> [i \in 1 .. Depth |-> NoFrame]]
  /\ esp = [p \in Proc |-> [area |-> "kernel", slot |-> 0]]
  /\ created = <<>> /\ next_pid = 1 /\ frames = Frames
  /\ queue = <<>> /\ cursor = 0 /\ current = 0 /\ tick_count = 0
  /\ stopped = "no" /\ work = [p \in Proc |-> 0]

Running == stopped = "no"
InCode(p) == Running /\ pc = Code(p)

-----------------------------------------------------------------------------
(* kernel_main, one call at a time; interrupts may come in between. *)
Booting(step) == InCode(0) /\ boot = step /\ boot' = step + 1

pid_alloc == next_pid' = (next_pid + 1) % PidSpace

BootIdt == /\ Booting(0) /\ init_idt
           /\ UNCHANGED <<process_vars, cpu_vars, stopped, work>>

BootPic == /\ Booting(1) /\ remap_pic
           /\ UNCHANGED <<process_vars, cpu_vars, stopped, work>>

(* init_disk_driver, pmm_init, vmm_init and init_kmalloc *)
BootMemory == /\ Booting(2)
              /\ UNCHANGED <<interrupt_vars, process_vars, cpu_vars, stopped,
                             work>>

(* The running code becomes process 0, with a directory of its own. *)
processes_init ==
  /\ Booting(3) /\ frames > 0
  /\ pid_alloc /\ frames' = frames - 1
  /\ created' = <<next_pid>>
  /\ queue' = <<0>> /\ cursor' = 1 /\ current' = 0 /\ tick_count' = 0
  /\ UNCHANGED <<interrupt_vars, cpu_vars, mem, esp, stopped, work>>

BootSti == /\ Booting(4) /\ ifl' = TRUE
           /\ UNCHANGED <<gates, offset, masked, in_service, process_vars,
                          cpu_vars, stopped, work>>

pit_init == /\ Booting(5) /\ masked' = unmask_irq(TimerIrq)
            /\ UNCHANGED <<gates, offset, in_service, ifl, process_vars,
                           cpu_vars, stopped, work>>

Boot == BootIdt \/ BootPic \/ BootMemory \/ processes_init \/ BootSti \/ pit_init

-----------------------------------------------------------------------------
(* Mutant of InitialFrame: the first flags leave interrupts off. *)
FlagsWithoutIf(p) == [i \in 0 .. 10 |-> CASE i = 8  -> FALSE
                                          [] i = 10 -> Code(p)
                                          [] OTHER  -> 0]

(* The frame process_create_stack builds, word by word as process_switch   *)
(* takes it apart: 0 to 7 the registers (7 is eax), 8 the flags with       *)
(* interrupts enabled, 9 ebp, 10 the address ret jumps to.                 *)
InitialFrame(p) == [i \in 0 .. 10 |-> CASE i = 8  -> TRUE
                                        [] i = 10 -> Code(p)
                                        [] OTHER  -> 0]

(* The frame process_switch pushes on the stack of the process it leaves.  *)
SavedFrame == [i \in 0 .. 10 |-> CASE i = 7  -> r
                                   [] i = 8  -> ifl
                                   [] i = 10 -> <<"unwind">>
                                   [] OTHER  -> 0]

(* The page with the top of the stack is not among the pages mapped: the   *)
(* first write to it is a page fault, which takes a frame.                 *)
TopFrames == IF Len(created) > 1 THEN 0 ELSE 1

(* process_create: a directory, StackPages frames mapped over the stack    *)
(* addresses and cleared, and the first frame at the top.                  *)
process_create(q) ==
  LET p == Len(created) IN
  /\ InCode(q) /\ boot = 6 /\ p <= MaxCreated
  /\ frames >= 1 + StackPages + TopFrames
  /\ frames' = frames - (1 + StackPages + TopFrames)
  /\ mem' = [mem EXCEPT ![Area(p)] =
               [i \in 1 .. Depth |->
                  IF i = 1 THEN [kind |-> "switch", f |-> InitialFrame(p)]
                           ELSE NoFrame]]
  /\ esp' = [esp EXCEPT ![p] = [area |-> Area(p), slot |-> 1]]
  /\ created' = Append(created, next_pid)
  /\ pid_alloc
  /\ UNCHANGED <<interrupt_vars, cpu_vars, boot, queue, cursor, current,
                 tick_count, stopped, work>>

(* Without a frame for the directory its entries are copied over a page of *)
(* the heap; without one for the stack the kernel panics.                  *)
process_create_fails(q) ==
  /\ InCode(q) /\ boot = 6 /\ Len(created) <= MaxCreated
  /\ frames < 1 + StackPages + TopFrames
  /\ stopped' = IF frames = 0 THEN "heap overwritten" ELSE "panic"
  /\ UNCHANGED <<interrupt_vars, process_vars, cpu_vars, boot, work>>

(* scheduler_add_process *)
scheduler_add_process(q, p) ==
  /\ InCode(q) /\ p < Len(created)
  /\ \A i \in 1 .. Len(queue) : queue[i] # p
  /\ queue' = Append(queue, p)
  /\ UNCHANGED <<interrupt_vars, cpu_vars, boot, mem, esp, created, next_pid,
                 frames, cursor, current, tick_count, stopped, work>>

(* A process computes. *)
Work(p) ==
  /\ InCode(p) /\ boot = 6
  /\ r' = (r + 1) % 2
  /\ work' = [work EXCEPT ![current] = (@ + 1) % 2]
  /\ UNCHANGED <<interrupt_vars, process_vars, pc, sp, boot, stopped>>

-----------------------------------------------------------------------------
Push(frame) ==
  /\ sp' = [sp EXCEPT !.slot = @ + 1]
  /\ mem' = [mem EXCEPT ![sp.area][sp.slot + 1] = frame]

Top == mem[sp.area][sp.slot]

(* The processor and the stub: flags, address and registers are pushed and *)
(* interrupts are off.                                                     *)
Enter(int_no) ==
  /\ Push([kind |-> "isr", pc |-> pc, r |-> r, ifl |-> ifl])
  /\ pc' = <<"isr", int_no>> /\ r' = Junk /\ ifl' = FALSE

Interruptible == Running /\ sp.slot < Depth

Deliver(irq) ==
  /\ Interruptible /\ Deliverable(irq) /\ offset + irq \in gates
  /\ Enter(offset + irq)
  /\ in_service' = in_service \cup {irq}
  /\ UNCHANGED <<gates, offset, masked, boot, esp, created, next_pid, frames,
                 queue, cursor, current, tick_count, stopped, work>>

(* A process raises an exception; cpu_handler prints it and halts. *)
Exception(p) ==
  /\ InCode(p) /\ boot = 6 /\ Interruptible
  /\ Enter(0)
  /\ UNCHANGED <<gates, offset, masked, in_service, boot, esp, created,
                 next_pid, frames, queue, cursor, current, tick_count, stopped,
                 work>>

Handling(handler) == Running /\ pc[1] = "isr" /\ isr_handler(pc[2]) = handler

cpu_handler == /\ Handling("cpu_handler")
               /\ stopped' = "exception"
               /\ UNCHANGED <<interrupt_vars, process_vars, cpu_vars, boot,
                              work>>

keyboard_handler == /\ Handling("keyboard_handler")
                    /\ in_service' = pic_send_ack
                    /\ pc' = <<"unwind">>
                    /\ UNCHANGED <<gates, offset, masked, ifl, process_vars, r,
                                   sp, boot, stopped, work>>

(* Mutant of AckBeforeTick: the acknowledgement follows the tick. *)
AckAfterTick(returns) == IF returns THEN pic_send_ack ELSE in_service

(* pit_handler acknowledges first, whether or not the call of              *)
(* scheduler_handle_tick returns to it.                                    *)
AckBeforeTick(returns) == pic_send_ack

SwitchDue == tick_count + 1 >= TICKS_UNTIL_SWITCH
NextNode == IF queue = <<>> THEN 0 ELSE (cursor % Len(queue)) + 1
Stays == queue = <<>> \/ queue[NextNode] = current

(* The tick leads to no switch: too early, or the next process is this one. *)
TickReturns ==
  /\ Handling("pit_handler")
  /\ ~SwitchDue \/ Stays
  /\ in_service' = AckBeforeTick(TRUE)
  /\ tick_count' = IF SwitchDue THEN 0 ELSE tick_count + 1
  /\ cursor' = IF SwitchDue THEN NextNode ELSE cursor
  /\ pc' = <<"unwind">>
  /\ UNCHANGED <<gates, offset, masked, ifl, mem, esp, created, next_pid,
                 frames, queue, current, r, sp, boot, stopped, work>>

(* Mutant of SavedSp: the pointer is taken before the registers are pushed. *)
SpBeforePush == sp

(* The stack pointer process_switch stores in the context it leaves. *)
SavedSp == [sp EXCEPT !.slot = @ + 1]

(* process_switch up to popfd: the frame of the process left is complete,  *)
(* the registers and flags of the next one are loaded from its stack.      *)
process_switch ==
  /\ Handling("pit_handler") /\ sp.slot < Depth
  /\ SwitchDue /\ ~Stays
  /\ in_service' = AckBeforeTick(FALSE)
  /\ tick_count' = 0 /\ cursor' = NextNode
  /\ current' = queue[NextNode]
  /\ mem' = [mem EXCEPT ![sp.area][sp.slot + 1] =
                          [kind |-> "switch", f |-> SavedFrame]]
  /\ esp' = [esp EXCEPT ![current] = SavedSp]
  /\ sp' = esp[current']
  /\ LET next == mem'[sp'.area][sp'.slot] IN
       IF next.kind = "switch"
         THEN /\ r' = next.f[7] /\ ifl' = next.f[8] /\ pc' = <<"ret">>
              /\ UNCHANGED stopped
         ELSE stopped' = "wild jump" /\ UNCHANGED <<r, ifl, pc>>
  /\ UNCHANGED <<gates, offset, masked, created, next_pid, frames, queue, boot,
                 work>>

(* pop ebp and ret. *)
SwitchReturns ==
  /\ Running /\ pc = <<"ret">>
  /\ IF Top.kind = "switch" THEN pc' = Top.f[10] /\ UNCHANGED stopped
                            ELSE stopped' = "wild jump" /\ UNCHANGED pc
  /\ sp' = [sp EXCEPT !.slot = @ - 1]
  /\ UNCHANGED <<interrupt_vars, process_vars, r, boot, work>>

(* The end of the stub: registers, then flags and address, come from the   *)
(* interrupt frame.  sti takes effect after iret, which loads the flags.   *)
Iret ==
  /\ Running /\ pc = <<"unwind">>
  /\ IF Top.kind = "isr"
       THEN pc' = Top.pc /\ r' = Top.r /\ ifl' = Top.ifl /\ UNCHANGED stopped
       ELSE stopped' = "wild jump" /\ UNCHANGED <<pc, r, ifl>>
  /\ sp' = [sp EXCEPT !.slot = @ - 1]
  /\ UNCHANGED <<gates, offset, masked, in_service, process_vars, boot, work>>

Stopped == ~Running /\ UNCHANGED vars

Handlers == \/ cpu_handler \/ keyboard_handler
            \/ TickReturns \/ process_switch \/ SwitchReturns \/ Iret

Next == \/ Boot
        \/ \E q \in Proc : \/ process_create(q) \/ process_create_fails(q)
                           \/ \E p \in Proc : scheduler_add_process(q, p)
                           \/ Work(q) \/ Exception(q)
        \/ \E irq \in Irq : Deliver(irq)
        \/ Handlers \/ Stopped

(* The processor keeps executing; the timer keeps ticking, its request     *)
(* stays pending while interrupts are off and is the most urgent one; and  *)
(* its period of 10 ms leaves time for a ret to be executed between ticks. *)
Fairness == /\ WF_vars(Boot) /\ WF_vars(Handlers)
            /\ \A p \in Proc : SF_vars(SwitchReturns /\ ifl /\ current = p)
            /\ SF_vars(Deliver(TimerIrq))

Spec == Init /\ [][Next]_vars /\ Fairness
-----------------------------------------------------------------------------
InProcess == Running /\ pc[1] = "code"

TypeOK ==
  /\ boot \in 0 .. 6 /\ next_pid \in 0 .. PidSpace - 1 /\ frames \in 0 .. Frames
  /\ gates \subseteq 0 .. 255 /\ masked \subseteq Irq /\ in_service \subseteq Irq
  /\ ifl \in BOOLEAN /\ r \in 0 .. 2
  /\ sp.slot \in 0 .. Depth /\ \A p \in Proc : esp[p].slot \in 0 .. Depth
  /\ current \in Proc /\ cursor \in 0 .. Len(queue)
  /\ tick_count \in 0 .. TICKS_UNTIL_SWITCH - 1

(* A second process was created: its stack has the addresses of the first  *)
(* one's, and the one page table maps them to one memory.                  *)
StackShared == Len(created) > 2

(* Whenever process code executes, it is the code of current_process with  *)
(* the register values that process last computed, on its own stack, with  *)
(* nothing left on it; and no return takes an address or a frame from      *)
(* something that is not one: what the stub and process_switch push, and   *)
(* what process_create_stack lays out, is what popad, popfd, ret and iret  *)
(* take off, whichever interrupts interleave.  It holds until a second     *)
(* process is created, which builds its frame over the first one's stack.  *)
ContextIntact ==
  ~StackShared =>
    /\ stopped # "wild jump"
    /\ InProcess => /\ pc = Code(current) /\ r = work[current]
                    /\ sp = [area |-> Area(current), slot |-> 0]

(* While process code executes no interrupt is in service: each one was    *)
(* acknowledged, also when process_switch left its handler and returned    *)
(* into the code of another process (pit_handler acknowledges first).      *)
TimerAlive == InProcess => in_service = {}

(* Every process in the ready queue is executed again and again until the  *)
(* kernel stops or a second process is created: a fresh process enables    *)
(* interrupts, so it can be left.  Of what happens once the second process *)
(* has overwritten the first one's stack nothing is said.                  *)
EveryProcessRuns ==
  \A p \in Proc :
    (p \in {queue[i] : i \in 1 .. Len(queue)}) ~> (InCode(p) \/ ~Running \/ StackShared)
=============================================================================
