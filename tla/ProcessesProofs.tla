-------------------------- MODULE ProcessesProofs --------------------------
(* Proofs about module Processes: for every number of processes, every     *)
(* slice and every amount of memory, interrupts are acknowledged and reach *)
(* the handler of their device; and until two processes share a stack,     *)
(* each one resumes with the registers and the stack it was left with.     *)
EXTENDS Processes, TLAPS

-----------------------------------------------------------------------------
(* While a handler executes interrupts are off and at most its own one is  *)
(* in service; everywhere else none is.                                    *)
OneInService ==
  IF pc[1] = "isr"
    THEN ~ifl /\ (in_service = {} \/ \E irq \in Irq : in_service = {irq})
    ELSE in_service = {}

(* No return leads into a handler, and the lowest frame of a stack returns *)
(* to the code of a process.                                               *)
FramesSound ==
  \A a \in Areas : \A i \in 1 .. Depth :
    LET frame == mem[a][i] IN
    /\ frame.kind = "isr" => /\ frame.pc[1] # "isr"
                             /\ i = 1 => frame.pc[1] = "code"
    /\ frame.kind = "switch" => /\ frame.f[10][1] # "isr"
                                /\ i = 1 => frame.f[10][1] = "code"

(* Whoever is not in the code of a process stands on a frame, and so does  *)
(* every process that was left.                                            *)
OnAFrame ==
  /\ Running /\ pc[1] # "code" => sp.slot > 0
  /\ \A p \in Proc : p # current /\ p < Len(created) => esp[p].slot > 0

StackTypes ==
  /\ DOMAIN mem = Areas /\ \A a \in Areas : DOMAIN mem[a] = 1 .. Depth
  /\ sp \in [area : Areas, slot : 0 .. Depth]
  /\ esp \in [Proc -> [area : Areas, slot : 0 .. Depth]]
  /\ current \in Proc /\ created \in Seq(Nat) /\ next_pid \in Nat
  /\ queue \in Seq(Proc) /\ cursor \in 0 .. Len(queue)
  /\ \A i \in 1 .. Len(queue) : queue[i] < Len(created)
  /\ (boot < 4) = (created = <<>>)
  /\ created = <<>> => current = 0

(* How far kernel_main has come fixes the gates, the vectors and the masks; *)
(* before remap_pic nothing but kernel_main executes.                      *)
BootOrder ==
  /\ boot \in 0 .. 6
  /\ boot < 2 => pc = Code(0) /\ ~ifl
  /\ boot >= 1 => gates = init_idt_entries
  /\ boot >= 2 => /\ offset = PIC1_VECTOR_OFFSET
                  /\ Irq \ {TimerIrq, KeyboardIrq} \subseteq masked

(* The inductive invariant. *)
IInv == /\ StackTypes /\ OneInService /\ FramesSound /\ OnAFrame /\ BootOrder

(* What a stack of p, whose registers should hold w, holds up to slot i,   *)
(* as long as no stack is shared: the frame process_create_stack built,    *)
(* from which nothing has run yet; or an interrupt frame over the code of  *)
(* p, or over the ret that enters it; or the frame process_switch left on  *)
(* one of those.                                                           *)
FreshStack(stack, w, p) ==
  stack[1] = [kind |-> "switch", f |-> InitialFrame(p)] /\ w = 0

Interrupted(stack, w, p, i) ==
  /\ stack[i].kind = "isr" /\ stack[i].r = w
  /\ \/ i = 1 /\ stack[i].pc = Code(p)
     \/ /\ i = 2 /\ stack[i].pc = <<"ret">> /\ stack[i].ifl = TRUE
        /\ FreshStack(stack, w, p)

SwitchedOut(stack, w, p, i) ==
  \/ i = 1 /\ FreshStack(stack, w, p)
  \/ /\ i \in 2 .. Depth
     /\ stack[i].kind = "switch" /\ stack[i].f[8] = FALSE
     /\ stack[i].f[10] = <<"unwind">>
     /\ Interrupted(stack, w, p, i - 1)

(* The process that executes: in its code, in a handler or the end of its  *)
(* stub, or at the ret of process_switch.                                  *)
CurrentSound ==
  LET stack == mem[Area(current)]  w == work[current] IN
  /\ sp.area = Area(current)
  /\ \/ pc = Code(current) /\ sp.slot = 0 /\ r = w
     \/ /\ pc[1] = "isr" \/ pc = <<"unwind">>
        /\ ifl = FALSE /\ Interrupted(stack, w, current, sp.slot)
     \/ /\ pc = <<"ret">> /\ SwitchedOut(stack, w, current, sp.slot)
        /\ sp.slot = 1 => ifl = TRUE /\ r = 0
        /\ sp.slot # 1 => ifl = FALSE

OthersSound ==
  \A p \in Proc \ {current} :
    p < Len(created) =>
      /\ esp[p].area = Area(p)
      /\ SwitchedOut(mem[Area(p)], work[p], p, esp[p].slot)

WorkSound ==
  /\ work \in [Proc -> Nat]
  /\ \A p \in Proc : p > 0 /\ p >= Len(created) => work[p] = 0
  /\ current = 0 \/ current < Len(created)

StackInv ==
  ~StackShared =>
    /\ stopped # "wild jump"
    /\ Running => CurrentSound /\ OthersSound /\ WorkSound

-----------------------------------------------------------------------------
(* One acknowledgement is enough for the handler that executes. *)
LEMMA AckEmpties ==
  ASSUME OneInService, pc[1] = "isr"
  PROVE  pic_send_ack = {}
<1>1. CASE in_service = {}
  BY <1>1 DEF pic_send_ack
<1>2. ASSUME NEW irq \in Irq, in_service = {irq}
      PROVE  pic_send_ack = {}
  <2>1. irq \in {irq} /\ \A y \in {irq} : irq =< y
    BY DEF Irq
  <2>2. Min({irq}) \in {irq}
    BY <2>1 DEF Min
  <2> QED
    BY <1>2, <2>2 DEF pic_send_ack
<1> QED
  BY <1>1, <1>2 DEF OneInService

(* The node after the cursor is in the queue. *)
LEMMA NextNodeInQueue ==
  ASSUME StackTypes
  PROVE  /\ queue # <<>> => NextNode \in 1 .. Len(queue)
         /\ NextNode \in 0 .. Len(queue)
<1>1. CASE queue = <<>>
  BY <1>1 DEF NextNode, StackTypes
<1>2. CASE queue # <<>>
  <2>1. Len(queue) \in Nat \ {0} /\ cursor \in Nat
    BY <1>2 DEF StackTypes
  <2>2. \A n \in Nat \ {0} : \A c \in Nat : c % n \in 0 .. n - 1
    OBVIOUS
  <2>3. cursor % Len(queue) \in 0 .. Len(queue) - 1
    BY <2>1, <2>2
  <2> QED
    BY <1>2, <2>1, <2>3 DEF NextNode
<1> QED
  BY <1>1, <1>2

(* The initial states satisfy the invariant. *)
LEMMA InitIInv == Init => IInv
<1> SUFFICES ASSUME Init PROVE IInv
  OBVIOUS
<1>1. StackTypes
  BY ProcessesAssumption DEF Init, StackTypes, Proc, Depth, Areas
<1>2. OneInService /\ BootOrder
  BY DEF Init, InterruptsInit, OneInService, BootOrder, Code
<1>3. OnAFrame
  BY ProcessesAssumption DEF Init, OnAFrame, Code, Proc
<1>4. FramesSound
  BY DEF Init, FramesSound, NoFrame, Depth
<1> QED
  BY <1>1, <1>2, <1>3, <1>4 DEF IInv

(* The calls of kernel_main keep the invariant. *)
LEMMA BootKeeps ==
  ASSUME IInv, Boot
  PROVE  IInv'
<1> USE DEF IInv, Booting, InCode, interrupt_vars, process_vars, cpu_vars
<1>1. /\ UNCHANGED <<mem, esp, sp, pc, current, in_service, stopped>>
      /\ pc = Code(0)
  <2>1. CASE processes_init
    BY <2>1 DEF processes_init, StackTypes
  <2>2. CASE BootIdt \/ BootPic
    BY <2>2 DEF BootIdt, BootPic, init_idt, remap_pic
  <2>3. CASE BootMemory \/ BootSti \/ pit_init
    BY <2>3 DEF BootMemory, BootSti, pit_init
  <2> QED
    BY <2>1, <2>2, <2>3 DEF Boot
<1>2. FramesSound' /\ OneInService'
  BY <1>1 DEF FramesSound, OneInService, Code
<1>3. CASE processes_init
  <2>1. StackTypes'
    <3>1. created' = <<next_pid>> /\ queue' = <<0>> /\ cursor' = 1 /\ boot' = 4
      BY <1>3 DEF processes_init
    <3>2. next_pid' \in Nat
      BY <1>3, ProcessesAssumption DEF processes_init, pid_alloc, StackTypes
    <3>3. 0 \in Proc
      BY ProcessesAssumption DEF Proc
    <3> QED
      BY <1>1, <1>3, <3>1, <3>2, <3>3 DEF StackTypes, processes_init
  <2>2. OnAFrame'
    BY <1>1, <1>3, ProcessesAssumption
    DEF OnAFrame, processes_init, StackTypes, BootOrder, Code, Running, Proc
  <2>3. BootOrder'
    BY <1>1, <1>3 DEF BootOrder, processes_init
  <2> QED
    BY <1>2, <2>1, <2>2, <2>3
<1>4. CASE BootIdt \/ BootPic \/ BootMemory \/ BootSti \/ pit_init
  <2>1. UNCHANGED process_vars
    BY <1>4 DEF BootIdt, BootPic, BootMemory, BootSti, pit_init
  <2>2. StackTypes'
    BY <1>1, <1>4, <2>1
    DEF StackTypes, BootIdt, BootPic, BootMemory, BootSti, pit_init
  <2>3. OnAFrame'
    BY <1>1, <2>1 DEF OnAFrame, Code, Running
  <2>4. BootOrder'
    <3>1. CASE BootIdt
      BY <1>1, <3>1 DEF BootOrder, BootIdt, init_idt
    <3>2. CASE BootPic
      BY <1>1, <3>2
      DEF BootOrder, BootPic, remap_pic, mask_all_except_keyboard
    <3>3. CASE BootMemory
      BY <1>1, <3>3 DEF BootOrder, BootMemory
    <3>4. CASE BootSti
      BY <1>1, <3>4 DEF BootOrder, BootSti
    <3>5. CASE pit_init
      BY <1>1, <3>5 DEF BootOrder, pit_init, unmask_irq
    <3> QED
      BY <1>4, <3>1, <3>2, <3>3, <3>4, <3>5
  <2> QED
    BY <1>2, <2>2, <2>3, <2>4
<1> QED
  BY <1>3, <1>4 DEF Boot

(* So does what a process does by itself. *)
LEMMA ProcessKeeps ==
  ASSUME IInv, NEW q \in Proc,
         \/ process_create(q) \/ process_create_fails(q)
         \/ \E p \in Proc : scheduler_add_process(q, p)
         \/ Work(q)
  PROVE  IInv'
<1> USE DEF IInv, InCode, interrupt_vars, process_vars, cpu_vars
<1>1. UNCHANGED <<pc, sp, boot, current, interrupt_vars, cursor>> /\ Running
  BY DEF process_create, process_create_fails, scheduler_add_process, Work
<1>2. OneInService' /\ BootOrder'
  BY <1>1 DEF OneInService, BootOrder
<1>3. CASE process_create(q)
  <2> DEFINE new == Len(created)
  <2>1. new \in Proc /\ created' = Append(created, next_pid) /\ boot = 6
    BY <1>3, ProcessesAssumption DEF process_create, StackTypes, Proc
  <2>2. next_pid' \in Nat
    BY <1>3, ProcessesAssumption DEF process_create, pid_alloc, StackTypes
  <2>3. Len(created') = new + 1 /\ created' \in Seq(Nat) /\ created' # <<>>
    <3>1. created \in Seq(Nat) /\ next_pid \in Nat /\ new \in Nat
      BY DEF StackTypes
    <3>2. Len(created') = new + 1 /\ created' \in Seq(Nat)
      BY <2>1, <3>1
    <3>3. Len(<<>>) = 0 /\ new + 1 # 0
      BY <3>1
    <3> QED
      BY <3>2, <3>3
  <2>4. esp' = [esp EXCEPT ![new] = [area |-> Area(new), slot |-> 1]]
    BY <1>3 DEF process_create
  <2>5. mem' = [mem EXCEPT ![Area(new)] =
                 [i \in 1 .. Depth |->
                    IF i = 1 THEN [kind |-> "switch", f |-> InitialFrame(new)]
                             ELSE NoFrame]]
    BY <1>3 DEF process_create
  <2>6. Area(new) \in Areas
    BY DEF Area, Areas
  <2>7. StackTypes'
    <3>1. DOMAIN mem' = Areas /\ \A a \in Areas : DOMAIN mem'[a] = 1 .. Depth
      BY <2>5, <2>6 DEF StackTypes
    <3>2. esp' \in [Proc -> [area : Areas, slot : 0 .. Depth]]
      BY <2>1, <2>4, <2>6 DEF StackTypes, Depth
    <3>3. queue' = queue
      BY <1>3 DEF process_create
    <3>4. \A i \in 1 .. Len(queue') : queue'[i] < Len(created')
      <4>1. \A i \in 1 .. Len(queue) : queue[i] \in Nat
        <5>1. queue \in Seq(Proc)
          BY DEF StackTypes
        <5>2. Proc \subseteq Nat
          BY ProcessesAssumption DEF Proc
        <5>3. ASSUME NEW i \in 1 .. Len(queue) PROVE queue[i] \in Proc
          BY <5>1
        <5> QED
          BY <5>2, <5>3
      <4>2. new \in Nat /\ \A i \in 1 .. Len(queue) : queue[i] < new
        BY DEF StackTypes
      <4> HIDE DEF new
      <4> QED
        BY <2>3, <3>3, <4>1, <4>2
    <3>5. (boot' < 4) = (created' = <<>>)
      BY <1>1, <2>1, <2>3
    <3> QED
      BY <1>1, <2>2, <2>3, <3>1, <3>2, <3>3, <3>4, <3>5 DEF StackTypes
  <2>8. FramesSound'
    <3>1. InitialFrame(new)[10] = Code(new)
      BY DEF InitialFrame
    <3>2. Code(new)[1] = "code"
      BY DEF Code
    <3>3. SUFFICES ASSUME NEW a \in Areas, NEW i \in 1 .. Depth
                   PROVE  LET frame == mem'[a][i] IN
                          /\ frame.kind = "isr" => /\ frame.pc[1] # "isr"
                                                   /\ i = 1 => frame.pc[1] = "code"
                          /\ frame.kind = "switch" => /\ frame.f[10][1] # "isr"
                                                      /\ i = 1 => frame.f[10][1] = "code"
      BY DEF FramesSound
    <3>4. CASE a # Area(new)
      BY <2>5, <2>6, <3>4 DEF FramesSound, StackTypes
    <3>5. CASE a = Area(new) /\ i = 1
      <4>1. mem'[a][i] = [kind |-> "switch", f |-> InitialFrame(new)]
        BY <2>5, <2>6, <3>5 DEF StackTypes
      <4> QED
        BY <3>1, <3>2, <4>1
    <3>6. CASE a = Area(new) /\ i # 1
      <4>1. mem'[a][i] = NoFrame
        BY <2>5, <2>6, <3>6 DEF StackTypes
      <4> QED
        BY <4>1 DEF NoFrame
    <3> QED
      BY <3>4, <3>5, <3>6
  <2>9. OnAFrame'
    <3>1. ASSUME NEW p \in Proc, p # current', p < Len(created')
          PROVE  esp'[p].slot > 0
      <4>1. CASE p = new
        BY <2>1, <2>4, <4>1 DEF StackTypes
      <4>2. CASE p # new
        <5>1. p \in Nat /\ new \in Nat
          BY ProcessesAssumption DEF StackTypes, Proc
        <5>2. p < new
          BY <2>3, <3>1, <4>2, <5>1
        <5>3. esp'[p] = esp[p]
          BY <2>4, <4>2 DEF StackTypes
        <5> QED
          BY <1>1, <3>1, <5>2, <5>3 DEF OnAFrame
      <4> QED
        BY <4>1, <4>2
    <3>2. pc[1] = "code"
      BY <1>3 DEF process_create, Code
    <3> QED
      BY <1>1, <3>1, <3>2 DEF OnAFrame
  <2> QED
    BY <1>2, <2>7, <2>8, <2>9
<1>4. CASE process_create_fails(q) \/ Work(q)
  <2>1. UNCHANGED <<mem, esp, created, queue, next_pid>>
    BY <1>4 DEF process_create_fails, Work
  <2>2. StackTypes' /\ FramesSound'
    BY <1>1, <2>1 DEF StackTypes, FramesSound
  <2>3. OnAFrame'
    BY <1>1, <1>4, <2>1
    DEF OnAFrame, process_create_fails, Work, Running
  <2> QED
    BY <1>2, <2>2, <2>3
<1>5. ASSUME NEW p \in Proc, scheduler_add_process(q, p)
      PROVE  IInv'
  <2>1. /\ UNCHANGED <<mem, esp, created, next_pid, stopped>>
        /\ queue' = Append(queue, p) /\ p < Len(created)
    BY <1>5 DEF scheduler_add_process
  <2>2. StackTypes'
    BY <1>1, <2>1, SMTT(30) DEF StackTypes
  <2>3. FramesSound' /\ OnAFrame'
    BY <1>1, <2>1 DEF FramesSound, OnAFrame, Running
  <2> QED
    BY <1>2, <2>2, <2>3
<1> QED
  BY <1>3, <1>4, <1>5

(* An interrupt or an exception pushes a frame and enters its handler. *)
LEMMA EnterKeeps ==
  ASSUME IInv, NEW n, Interruptible, Enter(n), pc[1] # "isr", boot >= 2,
         UNCHANGED <<gates, offset, masked, boot, esp, created, next_pid, queue,
                     cursor, current, stopped>>,
         \/ in_service' = in_service
         \/ \E irq \in Irq : in_service' = in_service \cup {irq}
  PROVE  IInv'
<1> USE DEF IInv
<1> DEFINE pushed == [kind |-> "isr", pc |-> pc, r |-> r, ifl |-> ifl]
<1>1. /\ sp' = [sp EXCEPT !.slot = @ + 1]
      /\ mem' = [mem EXCEPT ![sp.area][sp.slot + 1] = pushed]
      /\ pc' = <<"isr", n>> /\ ifl' = FALSE
  BY DEF Enter, Push
<1>2. sp.area \in Areas /\ sp.slot + 1 \in 1 .. Depth /\ sp.slot \in Nat
  BY DEF StackTypes, Interruptible, Depth
<1>3. sp' \in [area : Areas, slot : 1 .. Depth]
  BY <1>1, <1>2 DEF StackTypes
<1>4. StackTypes'
  <2>1. DOMAIN mem' = Areas /\ \A a \in Areas : DOMAIN mem'[a] = 1 .. Depth
    BY <1>1, <1>2 DEF StackTypes
  <2>2. sp' \in [area : Areas, slot : 0 .. Depth]
    BY <1>3 DEF Depth
  <2> QED
    BY <2>1, <2>2 DEF StackTypes
<1>5. FramesSound'
  <2>1. SUFFICES ASSUME NEW a \in Areas, NEW i \in 1 .. Depth
                 PROVE  LET frame == mem'[a][i] IN
                        /\ frame.kind = "isr" => /\ frame.pc[1] # "isr"
                                                 /\ i = 1 => frame.pc[1] = "code"
                        /\ frame.kind = "switch" => /\ frame.f[10][1] # "isr"
                                                    /\ i = 1 => frame.f[10][1] = "code"
    BY DEF FramesSound
  <2>2. CASE a = sp.area /\ i = sp.slot + 1
    <3>1. mem'[a][i] = pushed
      BY <1>1, <1>2, <2>2 DEF StackTypes
    <3>2. i = 1 => pc[1] = "code"
      BY <1>2, <2>2 DEF OnAFrame, Interruptible
    <3> QED
      BY <3>1, <3>2
  <2>3. CASE ~(a = sp.area /\ i = sp.slot + 1)
    <3>1. mem'[a][i] = mem[a][i]
      BY <1>1, <1>2, <2>3 DEF StackTypes
    <3> QED
      BY <3>1 DEF FramesSound
  <2> QED
    BY <2>2, <2>3
<1>6. OneInService'
  <2>1. in_service = {} /\ pc'[1] = "isr"
    BY <1>1 DEF OneInService
  <2>2. in_service' = {} \/ \E irq \in Irq : in_service' = {irq}
    BY <2>1
  <2> QED
    BY <1>1, <2>1, <2>2 DEF OneInService
<1>7. OnAFrame'
  BY <1>3 DEF OnAFrame, Depth
<1>8. BootOrder'
  BY DEF BootOrder
<1> QED
  BY <1>4, <1>5, <1>6, <1>7, <1>8

(* A handler that ends without a switch acknowledges its interrupt. *)
LEMMA HandlerKeeps ==
  ASSUME IInv, cpu_handler \/ keyboard_handler \/ TickReturns
  PROVE  IInv'
<1> USE DEF IInv, Handling, interrupt_vars, process_vars, cpu_vars
<1>1. UNCHANGED <<gates, offset, masked, ifl, mem, esp, created, next_pid,
                  queue, current, sp, boot>> /\ Running /\ pc[1] = "isr"
  BY DEF cpu_handler, keyboard_handler, TickReturns
<1>2. FramesSound'
  BY <1>1 DEF FramesSound
<1>3. StackTypes'
  <2>1. cursor' \in 0 .. Len(queue)
    BY NextNodeInQueue
    DEF cpu_handler, keyboard_handler, TickReturns, StackTypes
  <2> QED
    BY <1>1, <2>1 DEF StackTypes
<1>4. OnAFrame'
  BY <1>1 DEF OnAFrame
<1>5. OneInService'
  <2>1. CASE cpu_handler
    BY <1>1, <2>1 DEF cpu_handler, OneInService
  <2>2. CASE keyboard_handler \/ TickReturns
    <3>1. in_service' = pic_send_ack /\ pc' = <<"unwind">>
      BY <2>2 DEF keyboard_handler, TickReturns, AckBeforeTick
    <3>2. in_service' = {}
      BY <1>1, <3>1, AckEmpties
    <3> QED
      BY <3>1, <3>2 DEF OneInService
  <2> QED
    BY <2>1, <2>2
<1>6. BootOrder'
  <2>1. boot >= 2
    BY <1>1 DEF BootOrder, Code
  <2> QED
    BY <1>1, <2>1 DEF BootOrder
<1> QED
  BY <1>2, <1>3, <1>4, <1>5, <1>6

(* process_switch leaves a frame behind and stands on another one. *)
LEMMA SwitchKeeps ==
  ASSUME IInv, process_switch
  PROVE  IInv'
<1> USE DEF IInv, Handling
<1> DEFINE to == queue[NextNode]
           saved == [kind |-> "switch", f |-> SavedFrame]
<1>1. /\ UNCHANGED <<gates, offset, masked, created, next_pid, queue, boot>>
      /\ Running /\ pc[1] = "isr" /\ cursor' = NextNode /\ current' = to
      /\ mem' = [mem EXCEPT ![sp.area][sp.slot + 1] = saved]
      /\ esp' = [esp EXCEPT ![current] = SavedSp]
      /\ sp' = esp[to] /\ in_service' = pic_send_ack
  BY DEF process_switch, AckBeforeTick
<1>2. NextNode \in 1 .. Len(queue) /\ to # current
  BY NextNodeInQueue DEF process_switch, Stays
<1>3. to \in Proc /\ to < Len(created)
  BY <1>2 DEF StackTypes
<1>4. esp[to] \in [area : Areas, slot : 0 .. Depth] /\ esp[to].slot > 0
  BY <1>2, <1>3 DEF StackTypes, OnAFrame
<1>5. sp.area \in Areas /\ sp.slot \in 1 .. Depth - 1
  <2>1. sp.slot < Depth
    BY DEF process_switch
  <2>2. sp.slot > 0
    BY <1>1 DEF OnAFrame
  <2>3. sp \in [area : Areas, slot : 0 .. Depth]
    BY DEF StackTypes
  <2> QED
    BY <2>1, <2>2, <2>3 DEF Depth
<1>6. SavedSp \in [area : Areas, slot : 1 .. Depth]
  <2>1. sp \in [area : Areas, slot : 0 .. Depth]
    BY DEF StackTypes
  <2>2. sp.slot + 1 \in 1 .. Depth
    BY <1>5 DEF Depth
  <2> QED
    BY <2>1, <2>2 DEF SavedSp
<1>7. StackTypes'
  <2>1. DOMAIN mem' = Areas /\ \A a \in Areas : DOMAIN mem'[a] = 1 .. Depth
    BY <1>1, <1>5 DEF StackTypes, Depth
  <2>2. esp' \in [Proc -> [area : Areas, slot : 0 .. Depth]]
    BY <1>1, <1>6 DEF StackTypes, Depth
  <2>3. (boot' < 4) = (created' = <<>>) /\ created # <<>>
    BY <1>1, <1>3, ProcessesAssumption, SMTT(30) DEF StackTypes, Proc
  <2> HIDE DEF to, saved
  <2> QED
    BY <1>1, <1>2, <1>3, <1>4, <2>1, <2>2, <2>3, SMTT(30) DEF StackTypes
<1>8. FramesSound'
  <2>1. saved.kind = "switch" /\ saved.f[10] = <<"unwind">>
    BY DEF SavedFrame
  <2> HIDE DEF saved
  <2>2. SUFFICES ASSUME NEW a \in Areas, NEW i \in 1 .. Depth
                 PROVE  LET frame == mem'[a][i] IN
                        /\ frame.kind = "isr" => /\ frame.pc[1] # "isr"
                                                 /\ i = 1 => frame.pc[1] = "code"
                        /\ frame.kind = "switch" => /\ frame.f[10][1] # "isr"
                                                    /\ i = 1 => frame.f[10][1] = "code"
    BY DEF FramesSound
  <2>3. CASE a = sp.area /\ i = sp.slot + 1
    <3>1. i # 1
      BY <1>5, <2>3 DEF Depth
    <3>2. mem'[a][i] = saved
      BY <1>1, <2>3 DEF StackTypes
    <3> QED
      BY <2>1, <3>1, <3>2
  <2>4. CASE ~(a = sp.area /\ i = sp.slot + 1)
    <3>1. mem'[a][i] = mem[a][i]
      BY <1>1, <1>5, <2>4 DEF StackTypes, Depth
    <3> QED
      BY <3>1 DEF FramesSound
  <2> QED
    BY <2>3, <2>4
<1>9. in_service' = {}
  BY <1>1, AckEmpties
<1>10. pc' = <<"ret">> \/ (pc' = pc /\ ifl' = ifl)
  BY DEF process_switch
<1>11. OneInService'
  BY <1>1, <1>9, <1>10 DEF OneInService
<1>12. OnAFrame'
  <2>1. sp'.slot > 0
    BY <1>1, <1>4
  <2>2. ASSUME NEW p \in Proc, p # current', p < Len(created')
        PROVE  esp'[p].slot > 0
    <3>1. CASE p = current
      BY <1>1, <1>6, <3>1 DEF StackTypes, Depth
    <3>2. CASE p # current
      BY <1>1, <2>2, <3>2 DEF StackTypes, OnAFrame
    <3> QED
      BY <3>1, <3>2
  <2> QED
    BY <2>1, <2>2 DEF OnAFrame
<1>13. BootOrder'
  <2>1. boot >= 2
    BY <1>1 DEF BootOrder, Code
  <2> QED
    BY <1>1, <2>1 DEF BootOrder
<1> QED
  BY <1>7, <1>8, <1>11, <1>12, <1>13

(* ret and iret take a frame off the stack. *)
LEMMA ReturnKeeps ==
  ASSUME IInv, SwitchReturns \/ Iret
  PROVE  IInv'
<1> USE DEF IInv, interrupt_vars, process_vars
<1>1. /\ UNCHANGED <<gates, offset, masked, in_service, process_vars, boot>>
      /\ Running /\ pc[1] \in {"ret", "unwind"}
      /\ sp' = [sp EXCEPT !.slot = @ - 1]
  <2>1. CASE SwitchReturns
    BY <2>1 DEF SwitchReturns
  <2>2. CASE Iret
    BY <2>2 DEF Iret
  <2> QED
    BY <2>1, <2>2
<1>2. sp \in [area : Areas, slot : 0 .. Depth] /\ sp.slot > 0
  BY <1>1 DEF StackTypes, OnAFrame
<1>3. /\ sp' \in [area : Areas, slot : 0 .. Depth]
      /\ sp'.slot = sp.slot - 1 /\ sp.slot \in 1 .. Depth
  BY <1>1, <1>2 DEF Depth
<1>4. StackTypes' /\ FramesSound'
  BY <1>1, <1>3 DEF StackTypes, FramesSound
<1>5. \/ pc' = pc /\ stopped' = "wild jump"
      \/ pc'[1] # "isr" /\ (sp.slot = 1 => pc'[1] = "code")
  <2>1. /\ Top.kind = "isr" => /\ Top.pc[1] # "isr"
                               /\ sp.slot = 1 => Top.pc[1] = "code"
        /\ Top.kind = "switch" => /\ Top.f[10][1] # "isr"
                                  /\ sp.slot = 1 => Top.f[10][1] = "code"
    BY <1>2, <1>3 DEF Top, FramesSound
  <2>2. CASE SwitchReturns
    <3>1. IF Top.kind = "switch" THEN pc' = Top.f[10]
                                 ELSE stopped' = "wild jump" /\ pc' = pc
      BY <2>2 DEF SwitchReturns
    <3> QED
      BY <2>1, <3>1
  <2>3. CASE Iret
    <3>1. IF Top.kind = "isr" THEN pc' = Top.pc
                              ELSE stopped' = "wild jump" /\ pc' = pc
      BY <2>3 DEF Iret
    <3> QED
      BY <2>1, <3>1
  <2> QED
    BY <2>2, <2>3
<1>6. OneInService'
  BY <1>1, <1>5 DEF OneInService
<1>7. OnAFrame'
  <2>1. Running' /\ pc'[1] # "code" => sp'.slot > 0
    BY <1>3, <1>5 DEF Running, Depth
  <2> QED
    BY <1>1, <2>1 DEF OnAFrame
<1>8. BootOrder'
  <2>1. boot >= 2
    BY <1>1 DEF BootOrder, Code
  <2> QED
    BY <1>1, <2>1 DEF BootOrder
<1> QED
  BY <1>4, <1>6, <1>7, <1>8

(* Every step keeps the invariant. *)
LEMMA NextIInv == IInv /\ [Next]_vars => IInv'
<1> SUFFICES ASSUME IInv, [Next]_vars PROVE IInv'
  OBVIOUS
<1>1. CASE Boot
  BY <1>1, BootKeeps
<1>2. ASSUME NEW q \in Proc,
             \/ process_create(q) \/ process_create_fails(q)
             \/ \E p \in Proc : scheduler_add_process(q, p)
             \/ Work(q)
      PROVE  IInv'
  BY <1>2, ProcessKeeps
<1>3. ASSUME NEW q \in Proc, Exception(q)
      PROVE  IInv'
  <2>1. pc[1] # "isr" /\ boot >= 2
    BY <1>3 DEF Exception, InCode, Code
  <2> QED
    BY <1>3, <2>1, EnterKeeps DEF Exception
<1>4. ASSUME NEW irq \in Irq, Deliver(irq)
      PROVE  IInv'
  <2>1. ifl
    BY <1>4 DEF Deliver, Deliverable
  <2>2. pc[1] # "isr" /\ boot >= 2
    BY <2>1 DEF IInv, OneInService, BootOrder
  <2> QED
    BY <1>4, <2>2, EnterKeeps DEF Deliver
<1>5. CASE Handlers
  BY <1>5, HandlerKeeps, SwitchKeeps, ReturnKeeps DEF Handlers
<1>6. CASE Stopped \/ UNCHANGED vars
  <2>1. UNCHANGED <<gates, offset, masked, in_service, ifl, mem, esp, created,
                    next_pid, queue, cursor, current, pc, sp, boot, stopped>>
    BY <1>6 DEF Stopped, vars, interrupt_vars, process_vars, cpu_vars
  <2>2. StackTypes' /\ FramesSound' /\ OnAFrame'
    BY <2>1 DEF IInv, StackTypes, FramesSound, OnAFrame, Running
  <2>3. OneInService' /\ BootOrder'
    BY <2>1 DEF IInv, OneInService, BootOrder
  <2> QED
    BY <2>2, <2>3 DEF IInv
<1> QED
  BY <1>1, <1>2, <1>3, <1>4, <1>5, <1>6 DEF Next

(* What kernel_main, the interrupt stubs and process_switch keep at every  *)
(* step: see IInv of module Processes.                                     *)
THEOREM InductiveInvariant == Spec => []IInv
<1>1. Init => IInv
  BY InitIInv
<1>2. IInv /\ [Next]_vars => IInv'
  BY NextIInv
<1> QED
  BY <1>1, <1>2, PTL DEF Spec

(* Process code never executes with an interrupt in service: pit_handler   *)
(* acknowledges before the tick, which may not return to it.               *)
THEOREM TimerStaysAlive == Spec => []TimerAlive
<1>1. IInv => TimerAlive
  BY DEF IInv, OneInService, TimerAlive, InProcess
<1> QED
  BY <1>1, InductiveInvariant, PTL

(* At every point of kernel_main and of the processes, an interrupt that   *)
(* may be delivered has its gate and the handler of its device.            *)
THEOREM HandlersReached == Spec => []InterruptsReachTheirHandler
<1>1. IInv => InterruptsReachTheirHandler
  <2> SUFFICES ASSUME IInv, NEW irq \in Irq, Deliverable(irq)
               PROVE  /\ offset + irq \in gates
                      /\ isr_handler(offset + irq)
                           = CASE irq = TimerIrq -> "pit_handler"
                               [] irq = KeyboardIrq -> "keyboard_handler"
                               [] OTHER -> "unexpected"
    BY DEF InterruptsReachTheirHandler
  <2>1. ifl /\ irq \notin masked
    BY DEF Deliverable
  <2>2. boot \in 0 .. 6 /\ boot >= 2
    BY <2>1 DEF IInv, BootOrder
  <2>3. /\ offset = 32 /\ gates = 0 .. 33
        /\ irq = TimerIrq \/ irq = KeyboardIrq
    BY <2>1, <2>2 DEF IInv, BootOrder, init_idt_entries, PIC1_VECTOR_OFFSET,
                      KEYBOARD_ISR
  <2>4. CASE irq = TimerIrq
    <3>1. offset + irq = 32
      BY <2>3, <2>4 DEF TimerIrq
    <3>2. isr_handler(32) = "pit_handler"
      BY DEF isr_handler, KEYBOARD_ISR, PAGE_FAULT_ISR, PIT_ISR, CPU_EXCEPTIONS
    <3> QED
      BY <2>3, <2>4, <3>1, <3>2 DEF TimerIrq, KeyboardIrq
  <2>5. CASE irq = KeyboardIrq
    BY <2>3, <2>5 DEF TimerIrq, KeyboardIrq, isr_handler, KEYBOARD_ISR,
                      PAGE_FAULT_ISR, PIT_ISR, CPU_EXCEPTIONS
  <2> QED
    BY <2>3, <2>4, <2>5
<1> QED
  BY <1>1, InductiveInvariant, PTL

-----------------------------------------------------------------------------
(* What a stack holds up to a slot depends on those slots only. *)
LEMMA SameBelow ==
  ASSUME NEW s, NEW t, NEW w, NEW p, NEW i \in 0 .. Depth,
         \A j \in 1 .. i : t[j] = s[j]
  PROVE  /\ Interrupted(s, w, p, i) => Interrupted(t, w, p, i)
         /\ SwitchedOut(s, w, p, i) => SwitchedOut(t, w, p, i)
<1>1. ASSUME NEW k \in 1 .. Depth, k <= i, Interrupted(s, w, p, k)
      PROVE  Interrupted(t, w, p, k)
  <2>1. t[k] = s[k] /\ t[1] = s[1]
    BY <1>1 DEF Depth
  <2> QED
    BY <1>1, <2>1 DEF Interrupted, FreshStack
<1>2. ASSUME Interrupted(s, w, p, i) PROVE Interrupted(t, w, p, i)
  <2>1. i \in 1 .. Depth /\ i <= i
    BY <1>2 DEF Interrupted, Depth
  <2> QED
    BY <1>1, <1>2, <2>1
<1>3. ASSUME SwitchedOut(s, w, p, i) PROVE SwitchedOut(t, w, p, i)
  <2>1. CASE i = 1 /\ FreshStack(s, w, p)
    BY <2>1 DEF SwitchedOut, FreshStack
  <2>2. CASE ~(i = 1 /\ FreshStack(s, w, p))
    <3>1. /\ i \in 2 .. Depth /\ s[i].kind = "switch" /\ s[i].f[8] = FALSE
          /\ s[i].f[10] = <<"unwind">> /\ Interrupted(s, w, p, i - 1)
      BY <1>3, <2>2 DEF SwitchedOut
    <3>2. i - 1 \in 1 .. Depth /\ i - 1 <= i /\ t[i] = s[i]
      BY <3>1 DEF Depth
    <3>3. Interrupted(t, w, p, i - 1)
      BY <1>1, <3>1, <3>2
    <3> QED
      BY <3>1, <3>2, <3>3 DEF SwitchedOut
  <2> QED
    BY <2>1, <2>2
<1> QED
  BY <1>2, <1>3

(* Up to one process_create, the process that executes and a process that  *)
(* was left have stacks of their own.                                      *)
LEMMA StacksApart ==
  ASSUME StackTypes, WorkSound, ~StackShared,
         NEW p \in Proc, p # current, p < Len(created)
  PROVE  /\ Area(p) # Area(current) /\ Area(p) \in Areas
         /\ Area(current) \in Areas
<1>1. p \in Nat /\ current \in Nat /\ Len(created) \in Nat /\ Len(created) <= 2
  BY ProcessesAssumption DEF StackTypes, StackShared, Proc
<1>2. p \in {0, 1} /\ current \in {0, 1}
  BY <1>1 DEF WorkSound
<1> QED
  BY <1>2 DEF Area, Areas

(* The initial states satisfy the invariant of the stacks. *)
LEMMA InitStack == Init => StackInv
<1> SUFFICES ASSUME Init PROVE StackInv
  OBVIOUS
<1>1. stopped # "wild jump" /\ Len(created) = 0
  BY DEF Init
<1>2. CurrentSound
  BY ProcessesAssumption DEF Init, CurrentSound, Area, Code, Proc
<1>3. OthersSound /\ WorkSound
  BY <1>1, ProcessesAssumption DEF Init, OthersSound, WorkSound, Proc
<1> QED
  BY <1>1, <1>2, <1>3 DEF StackInv

(* Where nothing but the flag and the program's place in kernel_main       *)
(* changes while code executes, the stacks stay sound.                     *)
LEMMA BootStack ==
  ASSUME IInv, StackInv, Boot
  PROVE  StackInv'
<1> USE DEF Booting, InCode, process_vars, cpu_vars
<1> SUFFICES ASSUME ~StackShared'
             PROVE  stopped' # "wild jump" /\ CurrentSound' /\ OthersSound' /\ WorkSound'
  BY DEF StackInv
<1>1. pc = Code(0) /\ Running /\ UNCHANGED <<pc, r, sp, mem, esp, stopped, work>>
  <2>1. CASE processes_init
    BY <2>1 DEF processes_init
  <2>2. CASE BootIdt \/ BootPic \/ BootMemory
    BY <2>2 DEF BootIdt, BootPic, BootMemory
  <2>3. CASE BootSti \/ pit_init
    BY <2>3 DEF BootSti, pit_init
  <2> QED
    BY <2>1, <2>2, <2>3 DEF Boot
<1>2. CASE processes_init
  <2>1. created = <<>> /\ created' = <<next_pid>> /\ current' = 0 /\ current = 0
    BY <1>2 DEF processes_init, IInv, StackTypes
  <2>2. ~StackShared /\ Len(created) = 0 /\ Len(created') = 1
    BY <2>1 DEF StackShared
  <2>3. CurrentSound /\ WorkSound
    BY <1>1, <2>2 DEF StackInv
  <2>4. CurrentSound'
    BY <1>1, <2>1, <2>3 DEF CurrentSound, Code
  <2>5. OthersSound' /\ WorkSound'
    BY <1>1, <2>1, <2>2, <2>3, ProcessesAssumption DEF OthersSound, WorkSound, Proc
  <2> QED
    BY <1>1, <2>4, <2>5 DEF Running
<1>3. CASE ~processes_init
  <2>1. UNCHANGED <<created, current>>
    BY <1>3 DEF Boot, BootIdt, BootPic, BootMemory, BootSti, pit_init
  <2>2. CurrentSound /\ OthersSound /\ WorkSound
    BY <1>1, <2>1 DEF StackInv, StackShared
  <2>3. CurrentSound'
    BY <1>1, <2>1, <2>2 DEF CurrentSound, Code
  <2>4. OthersSound' /\ WorkSound'
    BY <1>1, <2>1, <2>2 DEF OthersSound, WorkSound
  <2> QED
    BY <1>1, <2>3, <2>4 DEF Running
<1> QED
  BY <1>2, <1>3

(* The first process_create lays out the stack of process 1, of which      *)
(* nothing is running.                                                     *)
LEMMA CreateStack ==
  ASSUME IInv, StackInv, NEW q \in Proc, process_create(q)
  PROVE  StackInv'
<1> SUFFICES ASSUME ~StackShared'
             PROVE  stopped' # "wild jump" /\ CurrentSound' /\ OthersSound' /\ WorkSound'
  BY DEF StackInv
<1> DEFINE new == Len(created)
           first == [kind |-> "switch", f |-> InitialFrame(new)]
<1>1. /\ Running /\ pc = Code(q) /\ boot = 6 /\ new <= MaxCreated
      /\ mem' = [mem EXCEPT ![Area(new)] =
                   [i \in 1 .. Depth |-> IF i = 1 THEN first ELSE NoFrame]]
      /\ esp' = [esp EXCEPT ![new] = [area |-> Area(new), slot |-> 1]]
      /\ created' = Append(created, next_pid)
      /\ UNCHANGED <<pc, r, sp, ifl, current, stopped, work>>
  BY DEF process_create, InCode, cpu_vars, interrupt_vars
<1>2. Len(created') = Len(created) + 1 /\ Len(created) \in Nat /\ created # <<>>
  BY <1>1 DEF IInv, StackTypes
<1>3. Len(created) = 1 /\ ~StackShared
  <2>1. Len(created) # 0
    BY <1>2 DEF IInv, StackTypes
  <2>2. Len(created) + 1 <= 2
    BY <1>2 DEF StackShared
  <2>3. \A n \in Nat : n # 0 /\ n + 1 <= 2 => n = 1
    OBVIOUS
  <2>4. Len(created) = 1
    BY <1>2, <2>1, <2>2, <2>3
  <2> QED
    BY <2>4 DEF StackShared
<1>4. CurrentSound /\ OthersSound /\ WorkSound
  BY <1>1, <1>3 DEF StackInv
<1>5. current = 0 /\ 1 \in Proc
  BY <1>1, <1>3, <1>4, ProcessesAssumption DEF WorkSound, IInv, StackTypes, Proc
<1>6. Area(new) = "user" /\ Area(current) = "kernel"
  BY <1>3, <1>5 DEF Area
<1>7. CurrentSound'
  <2>1. mem'[Area(current)] = mem[Area(current)]
    BY <1>1, <1>6 DEF IInv, StackTypes, Areas
  <2> QED
    BY <1>1, <1>4, <2>1 DEF CurrentSound
<1>8. OthersSound'
  <2>1. SUFFICES ASSUME NEW p \in Proc, p # current', p < Len(created')
                 PROVE  /\ esp'[p].area = Area(p)
                        /\ SwitchedOut(mem'[Area(p)], work'[p], p, esp'[p].slot)
    BY DEF OthersSound
  <2>2. p = 1
    BY <1>1, <1>2, <1>3, <1>5, <2>1 DEF Proc
  <2>3. esp'[p] = [area |-> Area(new), slot |-> 1]
    BY <1>1, <1>3, <2>2 DEF IInv, StackTypes
  <2>4. work'[p] = 0
    BY <1>1, <1>3, <1>4, <2>2 DEF WorkSound
  <2>5. mem'[Area(p)][1] = first
    BY <1>1, <1>3, <1>6, <2>2 DEF IInv, StackTypes, Areas, Depth
  <2> QED
    BY <1>3, <2>2, <2>3, <2>4, <2>5 DEF SwitchedOut, FreshStack
<1>9. WorkSound'
  BY <1>1, <1>2, <1>4, <1>5 DEF WorkSound, Proc
<1> QED
  BY <1>1, <1>7, <1>8, <1>9 DEF Running

(* The other things a process does by itself leave the stacks alone. *)
LEMMA ProcessStack ==
  ASSUME IInv, StackInv, NEW q \in Proc,
         \/ process_create_fails(q) \/ Work(q)
         \/ \E p \in Proc : scheduler_add_process(q, p)
  PROVE  StackInv'
<1> USE DEF InCode, interrupt_vars, process_vars, cpu_vars
<1> SUFFICES ASSUME ~StackShared'
             PROVE  /\ stopped' # "wild jump"
                    /\ Running' => CurrentSound' /\ OthersSound' /\ WorkSound'
  BY DEF StackInv
<1>1. /\ Running /\ pc = Code(q)
      /\ UNCHANGED <<pc, sp, ifl, mem, esp, created, current>>
  BY DEF process_create_fails, Work, scheduler_add_process
<1>2. CurrentSound /\ OthersSound /\ WorkSound
  BY <1>1 DEF StackInv, StackShared
<1>3. /\ sp.area = Area(current) /\ sp.slot = 0 /\ r = work[current]
      /\ pc = Code(current)
  BY <1>1, <1>2 DEF CurrentSound, Code
<1>4. CASE process_create_fails(q)
  BY <1>4 DEF process_create_fails, Running
<1>5. CASE Work(q)
  <2>1. /\ r' = (r + 1) % 2 /\ UNCHANGED stopped
        /\ work' = [work EXCEPT ![current] = (work[current] + 1) % 2]
    BY <1>5 DEF Work
  <2>2. work \in [Proc -> Nat] /\ current \in Proc
    BY <1>2 DEF WorkSound, IInv, StackTypes
  <2>3. work'[current] = (work[current] + 1) % 2 /\ work[current] \in Nat
    BY <2>1, <2>2
  <2>4. (work[current] + 1) % 2 \in Nat
    BY <2>3
  <2>5. CurrentSound'
    BY <1>1, <1>3, <2>1, <2>3 DEF CurrentSound
  <2>6. \A p \in Proc : p # current => work'[p] = work[p]
    BY <2>1, <2>2
  <2>7. OthersSound'
    BY <1>1, <1>2, <2>6 DEF OthersSound
  <2>8. current = 0 \/ current < Len(created)
    BY <1>2 DEF WorkSound
  <2>9. current \in Nat /\ Len(created) \in Nat
    BY <2>2, ProcessesAssumption DEF IInv, StackTypes, Proc
  <2>10. WorkSound'
    <3>1. work' \in [Proc -> Nat]
      BY <2>1, <2>2, <2>4
    <3>2. ASSUME NEW p \in Proc, p > 0, p >= Len(created) PROVE work'[p] = 0
      <4>1. p # current
        BY <2>8, <2>9, <3>2 DEF Proc
      <4> QED
        BY <1>2, <2>6, <3>2, <4>1 DEF WorkSound
    <3> QED
      BY <1>1, <2>8, <3>1, <3>2 DEF WorkSound
  <2> QED
    BY <1>1, <2>1, <2>5, <2>7, <2>10 DEF Running
<1>6. CASE \E p \in Proc : scheduler_add_process(q, p)
  <2>1. UNCHANGED <<r, stopped, work>>
    BY <1>6 DEF scheduler_add_process
  <2>2. CurrentSound' /\ OthersSound' /\ WorkSound'
    BY <1>1, <1>2, <2>1 DEF CurrentSound, OthersSound, WorkSound
  <2> QED
    BY <1>1, <2>1, <2>2 DEF Running
<1> QED
  BY <1>4, <1>5, <1>6

(* An interrupt or an exception pushes its frame over the code of the      *)
(* process, or over the ret into it: nowhere else are interrupts on.       *)
LEMMA EnterStack ==
  ASSUME IInv, StackInv, NEW n, Interruptible, Enter(n),
         pc[1] = "code" \/ ifl,
         UNCHANGED <<esp, created, current, stopped, work>>
  PROVE  StackInv'
<1> SUFFICES ASSUME ~StackShared'
             PROVE  stopped' # "wild jump" /\ CurrentSound' /\ OthersSound' /\ WorkSound'
  BY DEF StackInv
<1> DEFINE pushed == [kind |-> "isr", pc |-> pc, r |-> r, ifl |-> ifl]
           i == sp.slot
           s == mem[Area(current)]
           t == mem'[Area(current)]
           w == work[current]
<1>1. /\ sp' = [sp EXCEPT !.slot = @ + 1]
      /\ mem' = [mem EXCEPT ![sp.area][sp.slot + 1] = pushed]
      /\ pc' = <<"isr", n>> /\ ifl' = FALSE
  BY DEF Enter, Push
<1>2. sp \in [area : Areas, slot : 0 .. Depth] /\ i \in 0 .. Depth - 1 /\ Running
  BY DEF IInv, StackTypes, Interruptible, Depth
<1>3. CurrentSound /\ OthersSound /\ WorkSound
  BY <1>2 DEF StackInv, StackShared
<1>4. sp.area = Area(current) /\ Area(current) \in Areas
  BY <1>2, <1>3 DEF CurrentSound
<1>5. sp'.area = Area(current) /\ sp'.slot = i + 1
  BY <1>1, <1>2, <1>4
<1>6. t[i + 1] = pushed /\ \A j \in 1 .. i : t[j] = s[j]
  BY <1>1, <1>2, <1>4 DEF IInv, StackTypes, Depth
<1>7. \A a \in Areas : a # Area(current) => mem'[a] = mem[a]
  BY <1>1, <1>2, <1>4 DEF IInv, StackTypes
<1>8. Interrupted(t, w, current, i + 1)
  <2>1. CASE pc = Code(current) /\ i = 0 /\ r = w
    BY <1>6, <2>1 DEF Interrupted
  <2>2. CASE ~(pc = Code(current) /\ i = 0 /\ r = w)
    <3>1. ifl = TRUE /\ pc = <<"ret">>
      BY <1>3, <2>2 DEF CurrentSound, Code, IInv, OneInService
    <3>2. SwitchedOut(s, w, current, i) /\ i = 1 /\ r = 0
      BY <1>3, <3>1 DEF CurrentSound, Code
    <3>3. FreshStack(s, w, current)
      BY <3>2 DEF SwitchedOut
    <3>4. FreshStack(t, w, current)
      BY <1>6, <3>2, <3>3 DEF FreshStack
    <3> QED
      BY <1>6, <3>1, <3>2, <3>4 DEF Interrupted, FreshStack
  <2> QED
    BY <2>1, <2>2
<1>9. CurrentSound'
  BY <1>1, <1>5, <1>8 DEF CurrentSound
<1>10. OthersSound'
  <2>1. SUFFICES ASSUME NEW p \in Proc, p # current, p < Len(created)
                 PROVE  /\ esp'[p].area = Area(p)
                        /\ SwitchedOut(mem'[Area(p)], work'[p], p, esp'[p].slot)
    BY DEF OthersSound
  <2>2. ~StackShared
    BY DEF StackShared
  <2>3. Area(p) # Area(current) /\ Area(p) \in Areas
    BY <1>3, <2>1, <2>2, StacksApart DEF IInv
  <2>4. mem'[Area(p)] = mem[Area(p)]
    BY <1>7, <2>3
  <2> QED
    BY <1>3, <2>1, <2>4 DEF OthersSound
<1>11. WorkSound'
  BY <1>3 DEF WorkSound
<1> QED
  BY <1>2, <1>9, <1>10, <1>11 DEF Running

(* A handler that ends without a switch leaves the frame it stands on. *)
LEMMA HandlerStack ==
  ASSUME IInv, StackInv, cpu_handler \/ keyboard_handler \/ TickReturns
  PROVE  StackInv'
<1> USE DEF Handling, interrupt_vars, process_vars, cpu_vars
<1> SUFFICES ASSUME ~StackShared'
             PROVE  /\ stopped' # "wild jump"
                    /\ Running' => CurrentSound' /\ OthersSound' /\ WorkSound'
  BY DEF StackInv
<1>1. /\ Running /\ pc[1] = "isr"
      /\ UNCHANGED <<sp, ifl, mem, esp, created, current, work>>
  BY DEF cpu_handler, keyboard_handler, TickReturns
<1>2. CurrentSound /\ OthersSound /\ WorkSound
  BY <1>1 DEF StackInv, StackShared
<1>3. CASE cpu_handler
  BY <1>3 DEF cpu_handler, Running
<1>4. CASE keyboard_handler \/ TickReturns
  <2>1. pc' = <<"unwind">> /\ UNCHANGED stopped
    BY <1>4 DEF keyboard_handler, TickReturns
  <2>2. /\ sp.area = Area(current) /\ ifl = FALSE
        /\ Interrupted(mem[Area(current)], work[current], current, sp.slot)
    BY <1>1, <1>2 DEF CurrentSound, Code
  <2>3. CurrentSound'
    BY <1>1, <2>1, <2>2 DEF CurrentSound
  <2>4. OthersSound' /\ WorkSound'
    BY <1>1, <1>2 DEF OthersSound, WorkSound
  <2> QED
    BY <1>1, <2>1, <2>3, <2>4 DEF Running
<1> QED
  BY <1>3, <1>4

(* process_switch completes the frame of the process it leaves, on that    *)
(* process's own stack, and finds one to return from on the other's.       *)
LEMMA SwitchStack ==
  ASSUME IInv, StackInv, process_switch
  PROVE  StackInv'
<1> SUFFICES ASSUME ~StackShared'
             PROVE  stopped' # "wild jump" /\ CurrentSound' /\ OthersSound' /\ WorkSound'
  BY DEF StackInv
<1> DEFINE to == queue[NextNode]
           saved == [kind |-> "switch", f |-> SavedFrame]
           i == sp.slot
           s == mem[Area(current)]
           t == mem'[Area(current)]
           w == work[current]
           next == mem'[sp'.area][sp'.slot]
<1>1. /\ Running /\ pc[1] = "isr" /\ current' = to /\ i < Depth
      /\ mem' = [mem EXCEPT ![sp.area][sp.slot + 1] = saved]
      /\ esp' = [esp EXCEPT ![current] = SavedSp]
      /\ UNCHANGED <<created, work>>
  BY DEF process_switch, Handling
<1>2. /\ sp' = esp[to]
      /\ IF next.kind = "switch"
           THEN /\ r' = next.f[7] /\ ifl' = next.f[8] /\ pc' = <<"ret">>
                /\ UNCHANGED stopped
           ELSE stopped' = "wild jump"
  BY DEF process_switch
<1>3. NextNode \in 1 .. Len(queue) /\ to # current
  BY NextNodeInQueue DEF process_switch, Stays, IInv
<1>4. to \in Proc /\ to < Len(created) /\ current \in Proc
  BY <1>3 DEF IInv, StackTypes
<1> HIDE DEF to
<1>5. CurrentSound /\ OthersSound /\ WorkSound /\ ~StackShared
  BY <1>1 DEF StackInv, StackShared
<1>6. /\ Area(to) # Area(current) /\ Area(to) \in Areas
      /\ Area(current) \in Areas
  BY <1>3, <1>4, <1>5, StacksApart DEF IInv
<1>7. sp.area = Area(current) /\ ifl = FALSE /\ Interrupted(s, w, current, i)
  BY <1>1, <1>5 DEF CurrentSound, Code
<1>8. i \in 1 .. Depth - 1 /\ sp \in [area : Areas, slot : 0 .. Depth]
  BY <1>1, <1>7 DEF Interrupted, Depth, IInv, StackTypes
<1>9. t[i + 1] = saved /\ \A j \in 1 .. i : t[j] = s[j]
  BY <1>1, <1>6, <1>7, <1>8 DEF IInv, StackTypes, Depth
<1>10. mem'[Area(to)] = mem[Area(to)]
  BY <1>1, <1>6, <1>7, <1>8 DEF IInv, StackTypes
<1>11. saved.kind = "switch" /\ saved.f[8] = ifl /\ saved.f[10] = <<"unwind">>
  BY DEF SavedFrame
<1> HIDE DEF saved
<1>12. SwitchedOut(t, w, current, i + 1)
  <2>1. Interrupted(t, w, current, i)
    BY <1>7, <1>8, <1>9, SameBelow DEF Depth
  <2>2. i + 1 \in 2 .. Depth /\ (i + 1) - 1 = i
    BY <1>8 DEF Depth
  <2> QED
    BY <1>7, <1>9, <1>11, <2>1, <2>2 DEF SwitchedOut
<1>13. /\ esp[to].area = Area(to)
       /\ SwitchedOut(mem[Area(to)], work[to], to, esp[to].slot)
  BY <1>3, <1>4, <1>5 DEF OthersSound
<1>14. CurrentSound' /\ stopped' # "wild jump"
  <2> DEFINE u == mem[Area(to)]
             k == esp[to].slot
  <2>1. next = u[k]
    BY <1>2, <1>10, <1>13
  <2> HIDE DEF next
  <2>2. CASE k = 1 /\ FreshStack(u, work[to], to)
    <3>1. u[1].kind = "switch" /\ u[1].f[7] = 0 /\ u[1].f[8] = TRUE
      BY <2>2 DEF FreshStack, InitialFrame
    <3>2. /\ ifl' = TRUE /\ r' = 0 /\ pc' = <<"ret">> /\ stopped' = stopped
      BY <1>2, <2>1, <2>2, <3>1
    <3> QED
      BY <1>1, <1>2, <1>10, <1>13, <2>2, <3>2 DEF CurrentSound, Running
  <2>3. CASE ~(k = 1 /\ FreshStack(u, work[to], to))
    <3>1. k \in 2 .. Depth /\ u[k].kind = "switch" /\ u[k].f[8] = FALSE
      BY <1>13, <2>3 DEF SwitchedOut
    <3>2. /\ ifl' = FALSE /\ pc' = <<"ret">> /\ stopped' = stopped /\ k # 1
      BY <1>2, <2>1, <3>1
    <3> QED
      BY <1>1, <1>2, <1>10, <1>13, <3>2 DEF CurrentSound, Running
  <2> QED
    BY <2>2, <2>3
<1>15. OthersSound'
  <2>1. SUFFICES ASSUME NEW p \in Proc, p # to, p < Len(created)
                 PROVE  /\ esp'[p].area = Area(p)
                        /\ SwitchedOut(mem'[Area(p)], work[p], p, esp'[p].slot)
    BY <1>1 DEF OthersSound
  <2>2. p = current
    <3>1. /\ p \in Nat /\ to \in Nat /\ current \in Nat
          /\ Len(created) \in Nat /\ Len(created) <= 2
      BY <1>4, <1>5, ProcessesAssumption DEF StackShared, IInv, StackTypes, Proc
    <3>2. current = 0 \/ current < Len(created)
      BY <1>5 DEF WorkSound
    <3> QED
      BY <1>3, <1>4, <2>1, <3>1, <3>2
  <2>3. esp'[p] = SavedSp
    BY <1>1, <1>4, <2>2 DEF IInv, StackTypes
  <2>4. esp'[p].area = Area(current) /\ esp'[p].slot = i + 1
    BY <1>7, <1>8, <2>3 DEF SavedSp
  <2> QED
    BY <1>12, <2>2, <2>4
<1>16. WorkSound'
  BY <1>1, <1>4, <1>5 DEF WorkSound
<1> QED
  BY <1>14, <1>15, <1>16

(* ret and iret find the frame they expect and return below it. *)
LEMMA ReturnStack ==
  ASSUME IInv, StackInv, SwitchReturns \/ Iret
  PROVE  StackInv'
<1> USE DEF interrupt_vars, process_vars
<1> SUFFICES ASSUME ~StackShared'
             PROVE  stopped' # "wild jump" /\ CurrentSound' /\ OthersSound' /\ WorkSound'
  BY DEF StackInv
<1> DEFINE i == sp.slot
           s == mem[Area(current)]
           w == work[current]
<1>1. /\ Running /\ sp' = [sp EXCEPT !.slot = @ - 1]
      /\ UNCHANGED <<mem, esp, created, current, work>>
  BY DEF SwitchReturns, Iret
<1>2. CurrentSound /\ OthersSound /\ WorkSound
  BY <1>1 DEF StackInv, StackShared
<1>3. sp.area = Area(current) /\ Top = s[i]
  BY <1>2 DEF CurrentSound, Top
<1>4. sp \in [area : Areas, slot : 0 .. Depth] /\ i \in Nat
  BY DEF IInv, StackTypes, Depth
<1>5. sp'.area = Area(current) /\ sp'.slot = i - 1
  BY <1>1, <1>3, <1>4
<1>6. CASE SwitchReturns
  <2>1. /\ pc = <<"ret">> /\ UNCHANGED <<r, ifl>>
        /\ IF Top.kind = "switch" THEN pc' = Top.f[10] /\ UNCHANGED stopped
                                  ELSE stopped' = "wild jump"
    BY <1>6 DEF SwitchReturns
  <2>2. /\ SwitchedOut(s, w, current, i)
        /\ i = 1 => ifl = TRUE /\ r = 0
        /\ i # 1 => ifl = FALSE
    BY <1>2, <2>1 DEF CurrentSound, Code
  <2>3. CASE i = 1 /\ FreshStack(s, w, current)
    <3>1. Top.kind = "switch" /\ Top.f[10] = Code(current) /\ w = 0
      BY <1>3, <2>3 DEF FreshStack, InitialFrame
    <3>2. pc' = Code(current) /\ stopped' = stopped /\ sp'.slot = 0 /\ r' = w
      BY <1>5, <2>1, <2>2, <2>3, <3>1
    <3> QED
      BY <1>1, <1>2, <1>5, <3>2 DEF CurrentSound, OthersSound, WorkSound, Running
  <2>4. CASE ~(i = 1 /\ FreshStack(s, w, current))
    <3>1. /\ i \in 2 .. Depth /\ Top.kind = "switch" /\ Top.f[10] = <<"unwind">>
          /\ Interrupted(s, w, current, i - 1)
      BY <1>3, <2>2, <2>4 DEF SwitchedOut
    <3>2. pc' = <<"unwind">> /\ stopped' = stopped /\ ifl' = FALSE
      BY <2>1, <2>2, <3>1
    <3>3. CurrentSound'
      BY <1>1, <1>5, <3>1, <3>2 DEF CurrentSound
    <3> QED
      BY <1>1, <1>2, <3>2, <3>3 DEF OthersSound, WorkSound, Running
  <2> QED
    BY <2>3, <2>4
<1>7. CASE Iret
  <2>1. /\ pc = <<"unwind">>
        /\ IF Top.kind = "isr"
             THEN pc' = Top.pc /\ r' = Top.r /\ ifl' = Top.ifl /\ UNCHANGED stopped
             ELSE stopped' = "wild jump"
    BY <1>7 DEF Iret
  <2>2. Interrupted(s, w, current, i)
    BY <1>2, <2>1 DEF CurrentSound, Code
  <2>3. /\ Top.kind = "isr" /\ Top.r = w
        /\ \/ i = 1 /\ Top.pc = Code(current)
           \/ /\ i = 2 /\ Top.pc = <<"ret">> /\ Top.ifl = TRUE
              /\ FreshStack(s, w, current)
    BY <1>3, <2>2 DEF Interrupted
  <2>4. pc' = Top.pc /\ r' = w /\ ifl' = Top.ifl /\ stopped' = stopped
    BY <2>1, <2>3
  <2>5. CurrentSound'
    <3>1. CASE i = 1 /\ Top.pc = Code(current)
      BY <1>1, <1>5, <2>4, <3>1 DEF CurrentSound
    <3>2. CASE /\ i = 2 /\ Top.pc = <<"ret">> /\ Top.ifl = TRUE
               /\ FreshStack(s, w, current)
      <4>1. sp'.slot = 1 /\ w = 0
        BY <1>5, <3>2 DEF FreshStack
      <4>2. SwitchedOut(s, w, current, 1)
        BY <3>2 DEF SwitchedOut
      <4> QED
        BY <1>1, <1>5, <2>4, <3>2, <4>1, <4>2 DEF CurrentSound
    <3> QED
      BY <2>3, <3>1, <3>2
  <2> QED
    BY <1>1, <1>2, <2>4, <2>5 DEF OthersSound, WorkSound, Running
<1> QED
  BY <1>6, <1>7

(* Every step keeps the stacks sound. *)
LEMMA NextStack == IInv /\ StackInv /\ [Next]_vars => StackInv'
<1> SUFFICES ASSUME IInv, StackInv, [Next]_vars PROVE StackInv'
  OBVIOUS
<1>1. CASE Boot
  BY <1>1, BootStack
<1>2. ASSUME NEW q \in Proc,
             \/ process_create(q) \/ process_create_fails(q)
             \/ \E p \in Proc : scheduler_add_process(q, p)
             \/ Work(q)
      PROVE  StackInv'
  BY <1>2, CreateStack, ProcessStack
<1>3. ASSUME NEW q \in Proc, Exception(q)
      PROVE  StackInv'
  <2>1. pc[1] = "code"
    BY <1>3 DEF Exception, InCode, Code
  <2> QED
    BY <1>3, <2>1, EnterStack DEF Exception
<1>4. ASSUME NEW irq \in Irq, Deliver(irq)
      PROVE  StackInv'
  <2>1. ifl
    BY <1>4 DEF Deliver, Deliverable
  <2> QED
    BY <1>4, <2>1, EnterStack DEF Deliver
<1>5. CASE Handlers
  BY <1>5, HandlerStack, SwitchStack, ReturnStack DEF Handlers
<1>6. CASE Stopped \/ UNCHANGED vars
  <2>1. UNCHANGED <<ifl, mem, esp, created, current, pc, r, sp, stopped, work>>
    BY <1>6 DEF Stopped, vars, interrupt_vars, process_vars, cpu_vars
  <2>2. StackShared' = StackShared /\ Running' = Running
    BY <2>1 DEF StackShared, Running
  <2>3. CurrentSound => CurrentSound'
    BY <2>1 DEF CurrentSound
  <2>4. OthersSound /\ WorkSound => OthersSound' /\ WorkSound'
    BY <2>1 DEF OthersSound, WorkSound
  <2> QED
    BY <2>1, <2>2, <2>3, <2>4 DEF StackInv
<1> QED
  BY <1>1, <1>2, <1>3, <1>4, <1>5, <1>6 DEF Next

(* Until a second process is created, whichever interrupts interleave:     *)
(* process code executes as current_process with the registers it last     *)
(* computed, on its own empty stack, and every popad, popfd, ret and iret  *)
(* takes off what the stub, process_switch or process_create_stack put.    *)
THEOREM ContextsKept == Spec => []ContextIntact
<1>1. Init => StackInv
  BY InitStack
<1>2. IInv /\ StackInv /\ [Next]_vars => StackInv'
  BY NextStack
<1>3. IInv /\ StackInv => ContextIntact
  <2> SUFFICES ASSUME IInv, StackInv, ~StackShared
               PROVE  /\ stopped # "wild jump"
                      /\ InProcess => /\ pc = Code(current) /\ r = work[current]
                                      /\ sp = [area |-> Area(current), slot |-> 0]
    BY DEF ContextIntact
  <2>1. stopped # "wild jump"
    BY DEF StackInv
  <2>2. ASSUME InProcess
        PROVE  /\ pc = Code(current) /\ r = work[current]
               /\ sp = [area |-> Area(current), slot |-> 0]
    <3>1. CurrentSound /\ pc[1] = "code"
      BY <2>2 DEF StackInv, InProcess
    <3>2. /\ pc = Code(current) /\ r = work[current]
          /\ sp.area = Area(current) /\ sp.slot = 0
      BY <3>1 DEF CurrentSound
    <3>3. sp \in [area : Areas, slot : 0 .. Depth]
      BY DEF IInv, StackTypes
    <3> QED
      BY <3>2, <3>3
  <2> QED
    BY <2>1, <2>2
<1> QED
  BY <1>1, <1>2, <1>3, InductiveInvariant, PTL DEF Spec
=============================================================================
