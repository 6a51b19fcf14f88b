------------------------------- MODULE Sched -------------------------------
(***************************************************************************)
(* The preemptive scheduler of the bootstrap processor: process and thread *)
(* queues (sched/sched.c, sched/process.c), the path of a timer interrupt  *)
(* through __lapic_timer_isr, trap_entry and trap() (amd64/intr.s,         *)
(* amd64/trapasm.s, amd64/trap.c), the one-shot LAPIC timer that drives it *)
(* (amd64/lapic.c) and the kernel threads that print under a spin lock.    *)
(*                                                                         *)
(* One processor executes everything here: the application processors are *)
(* parked with interrupts off (module Smp).  What interleaves is the code  *)
(* of the threads with the timer interrupt, which may arrive between any   *)
(* two of their steps, and with the interrupt of the network card, when    *)
(* there is one, which may arrive there too and also ends a hlt.           *)
(*                                                                         *)
(* An execution context is a record [stack, pt, left]: whose stack %rsp    *)
(* is on, the program point %rip is at, and how much of its current line   *)
(* printk still has to draw.  trapframe_t has no field for %rbp, and       *)
(* __lapic_timer_isr calls irq_enter and irq_exit while the interrupted    *)
(* code's caller-saved registers are live, so a context interrupted inside *)
(* a callee may resume with registers that are not its own.  `derailed'    *)
(* records that this undefined step was taken (see Iret); nothing is said  *)
(* of what the machine does afterwards.                                    *)
(***************************************************************************)
EXTENDS Integers, Sequences

CONSTANTS
  Processes,    \* process_t control blocks
  Threads,      \* thread_t control blocks
  Boot,         \* the context sched_start() itself runs in
  NULL,         \* the C null pointer
  NCores,       \* smp_get_core_count()
  Script,       \* [proc, thread] in the order sched_start() creates them;
                \*   a workload is any beginning of it
  MinQuantum,   \* steps the processor takes in SCHED_QUANTUM_BASE ms, as
  MaxQuantum,   \*   each calibration measures them: at least and at most
  MaxPrint      \* the most steps one printk line takes, screen clear included

Cores == 0 .. NCores - 1

ASSUME SchedAssumption ==
  /\ NCores \in Nat \ {0}
  /\ MinQuantum \in Nat \ {0}
  /\ MaxQuantum \in Nat
  /\ MinQuantum <= MaxQuantum
  /\ MaxPrint \in Nat \ {0}
  /\ Script \in Seq([proc : Processes, thread : Threads])
  /\ \A i, j \in 1 .. Len(Script) : Script[i].thread = Script[j].thread => i = j
  /\ NULL \notin Processes \cup Threads
  /\ Boot \notin Threads

VARIABLES
  bsp,               \* index of the bootstrap processor in g_corelist
  card,              \* rtl8139_init() found a card and registered its isr()
  made,              \* how many entries of Script sched_start() has created
  current_core_idx,  \* sched.c: where the next process is placed
  processq,          \* cpu_core_t.processq_head of each core
  running_process,   \* cpu_core_t.running_process of each core
  threadq,           \* process_t.threadq_head
  thread_count,      \* process_t.thread_count
  running_thread,    \* process_t.running_thread
  startup,           \* thread_t.flags & THREAD_STARTUP
  tf,                \* thread_t.tf
  cpu,               \* the context the processor executes outside interrupts
  frame,             \* the trapframe on the interrupted stack
  phase,             \* where the interrupt path is, "none" outside it
  p_irq,             \* cpu_core_t.flags & P_IRQ of the bootstrap processor
  trap_lock,         \* trap.c: static mutex_t lock
  lock,              \* sched.c: static mutex_t lock
  count,             \* LAPIC current count: steps to expiry, 0 when stopped
  irr, in_service,   \* LAPIC request and in-service bits of the timer vector
  derailed           \* a context was resumed with foreign registers

queues == <<current_core_idx, processq, running_process, threadq,
            thread_count, running_thread, startup, tf>>
timer  == <<count, irr>>
vars   == <<bsp, card, made, queues, cpu, frame, phase, p_irq, trap_lock, lock,
            timer, in_service, derailed>>

CalleePoints == {"acquire", "print", "release"}
ThreadPoints == {"top", "hlt"} \cup CalleePoints
BootPoints   == {"setup", "sti", "hlt"}
Phases       == {"none", "enter", "exit", "trap", "yield", "eoi", "unlock",
                 "iret", "aborted"}

Contexts == [stack : Threads \cup {Boot},
             pt    : ThreadPoints \cup BootPoints,
             left  : 0 .. MaxPrint]

-----------------------------------------------------------------------------
(* Queues *)

\* The elements of a TAILQ: those a walk from TAILQ_FIRST along TAILQ_NEXT
\* meets.  TAILQ_INSERT_TAIL appends.
Members(q) == {q[i] : i \in 1 .. Len(q)}

\* TAILQ_NEXT, wrapping to TAILQ_FIRST at the tail: next_process, next_thread.
NextIn(q, x) ==
  LET i == CHOOSE j \in 1 .. Len(q) : q[j] = x
  IN  IF i = Len(q) THEN q[1] ELSE q[i + 1]

\* process_create_thread(): the frame a new thread is first loaded from.
EntryFrame(t) == [stack |-> t, pt |-> "top", left |-> 0]

\* Mutant: the round robin over cores does not wrap.
NextCoreNoWrap == current_core_idx + 1

\* sched_core(): where the process after this one is placed.
NextCore == (current_core_idx + 1) % NCores

\* Mutant: a core keeps running_process NULL when it gets its first process.
RunningAfterUnset(core, p) == running_process[core]

\* enqueue_process(): the first process of a core becomes its running one ...
RunningAfter(core, p) ==
  IF running_process[core] = NULL THEN p ELSE running_process[core]

\* Mutant: THREAD_STARTUP is never set.
StartsUpNever(core) == FALSE

\* ... and its thread is marked THREAD_STARTUP.
StartsUp(core) == running_process[core] = NULL

\* The thread this_core()->running_process is on.
Scheduled == running_thread[running_process[bsp]]

-----------------------------------------------------------------------------
(* The LAPIC timer *)

\* One step of the processor lasts one unit of an armed one-shot count; when
\* it runs out the timer vector is requested.
Elapse ==
  /\ count' = IF count > 0 THEN count - 1 ELSE 0
  /\ irr' = (irr \/ count = 1)

\* Mutant: the count is armed for as little as half a quantum.
BeginTimerHalf ==
  /\ count' \in (MinQuantum \div 2) .. MaxQuantum
  /\ irr' = irr

\* sched_begin_timer(): lapic_timer_calibrate() runs the count masked and
\* stops it, lapic_timer_oneshot() then starts it with the vector unmasked.
\* The length in steps follows from the frequency measured just before.
BeginTimer ==
  /\ count' \in MinQuantum .. MaxQuantum
  /\ irr' = irr

\* The interrupt flag is set outside the boot code and outside the gate.
Interruptible == phase = "none" /\ (cpu.stack = Boot => cpu.pt = "hlt")

Deliverable == Interruptible /\ irr /\ ~in_service

-----------------------------------------------------------------------------
(* sched_start() on the boot stack *)

Init ==
  /\ bsp \in Cores
  /\ card \in BOOLEAN
  /\ made = 0
  /\ current_core_idx = 0
  /\ processq = [c \in Cores |-> <<>>]
  /\ running_process = [c \in Cores |-> NULL]
  /\ threadq = [p \in Processes |-> <<>>]
  /\ thread_count = [p \in Processes |-> 0]
  /\ running_thread = [p \in Processes |-> NULL]
  /\ startup = [t \in Threads |-> FALSE]
  /\ tf = [t \in Threads |-> EntryFrame(t)]
  /\ cpu = [stack |-> Boot, pt |-> "setup", left |-> 0]
  /\ frame = cpu
  /\ phase = "none"
  /\ p_irq = FALSE
  /\ trap_lock = FALSE
  /\ lock = FALSE
  /\ count = 0
  /\ irr = FALSE
  /\ in_service = FALSE
  /\ derailed = FALSE

InSetup == phase = "none" /\ cpu.stack = Boot /\ cpu.pt = "setup"

\* The thread sched_start() creates next, and the process it belongs to.
NewProcess == Script[made + 1].proc
NewThread  == Script[made + 1].thread

\* create_kernel_process() with its main thread, then enqueue_process().
CreateKernelProcess ==
  /\ InSetup
  /\ made < Len(Script)
  /\ threadq[NewProcess] = <<>>
  /\ threadq' = [threadq EXCEPT ![NewProcess] = <<NewThread>>]
  /\ thread_count' = [thread_count EXCEPT ![NewProcess] = 1]
  /\ running_thread' = [running_thread EXCEPT ![NewProcess] = NewThread]
  /\ tf' = [tf EXCEPT ![NewThread] = EntryFrame(NewThread)]
  /\ processq' = [processq EXCEPT ![current_core_idx] = Append(@, NewProcess)]
  /\ running_process' =
       [running_process EXCEPT
          ![current_core_idx] = RunningAfter(current_core_idx, NewProcess)]
  /\ startup' = [startup EXCEPT ![NewThread] = StartsUp(current_core_idx)]
  /\ current_core_idx' = NextCore
  /\ made' = made + 1
  /\ UNCHANGED <<bsp, card, cpu, frame, phase, p_irq, trap_lock, lock, timer,
                 in_service, derailed>>

\* Mutant: enqueue_thread() without ++thread_count.
CreateThreadUncounted ==
  /\ InSetup
  /\ made < Len(Script)
  /\ threadq[NewProcess] # <<>>
  /\ tf' = [tf EXCEPT ![NewThread] = EntryFrame(NewThread)]
  /\ startup' = [startup EXCEPT ![NewThread] = FALSE]
  /\ threadq' = [threadq EXCEPT ![NewProcess] = Append(@, NewThread)]
  /\ made' = made + 1
  /\ UNCHANGED <<bsp, card, current_core_idx, processq, running_process,
                 running_thread, thread_count, cpu, frame, phase, p_irq,
                 trap_lock, lock, timer, in_service, derailed>>

\* process_create_thread() then enqueue_thread().
CreateThread ==
  /\ InSetup
  /\ made < Len(Script)
  /\ threadq[NewProcess] # <<>>
  /\ tf' = [tf EXCEPT ![NewThread] = EntryFrame(NewThread)]
  /\ startup' = [startup EXCEPT ![NewThread] = FALSE]
  /\ threadq' = [threadq EXCEPT ![NewProcess] = Append(@, NewThread)]
  /\ thread_count' = [thread_count EXCEPT ![NewProcess] = @ + 1]
  /\ made' = made + 1
  /\ UNCHANGED <<bsp, card, current_core_idx, processq, running_process,
                 running_thread, cpu, frame, phase, p_irq, trap_lock, lock,
                 timer, in_service, derailed>>

\* sched_start() has created its workload and arms the timer, with interrupts
\* still off.
StartTimer ==
  /\ InSetup
  /\ made > 0
  /\ cpu' = [cpu EXCEPT !.pt = "sti"]
  /\ BeginTimer
  /\ UNCHANGED <<bsp, card, made, queues, frame, phase, p_irq, trap_lock, lock,
                 in_service, derailed>>

\* sti, into the hlt loop the boot context never leaves by itself.
Sti ==
  /\ phase = "none" /\ cpu.stack = Boot /\ cpu.pt = "sti"
  /\ cpu' = [cpu EXCEPT !.pt = "hlt"]
  /\ Elapse
  /\ UNCHANGED <<bsp, card, made, queues, frame, phase, p_irq, trap_lock, lock,
                 in_service, derailed>>

-----------------------------------------------------------------------------
(* The loop of idle() and test_func() *)

\* The processor executes thread code at point pt; a deliverable interrupt
\* is taken before the next step.
ThreadAt(pt) ==
  /\ phase = "none" /\ ~derailed /\ ~Deliverable
  /\ cpu.stack \in Threads
  /\ cpu.pt = pt

\* What a step of a thread leaves alone.
ThreadFrame ==
  UNCHANGED <<bsp, card, made, queues, frame, phase, p_irq, trap_lock,
              in_service, derailed>>

\* The call of mutex_acquire(&lock).
CallAcquire ==
  /\ ThreadAt("top")
  /\ cpu' = [cpu EXCEPT !.pt = "acquire"]
  /\ Elapse
  /\ lock' = lock
  /\ ThreadFrame

\* Mutant: mutex_acquire returns whether or not the byte was clear.
MutexAcquireOnce ==
  /\ ThreadAt("acquire")
  /\ lock' = TRUE
  /\ \E n \in 1 .. MaxPrint :
       cpu' = [cpu EXCEPT !.pt = "print", !.left = n]
  /\ Elapse
  /\ ThreadFrame

\* mutex_acquire: one test-and-set.  It returns when the byte was clear, and
\* the thread enters printk; otherwise it tries again.
MutexAcquire ==
  /\ ThreadAt("acquire")
  /\ lock' = TRUE
  /\ IF lock
       THEN cpu' = cpu
       ELSE \E n \in 1 .. MaxPrint :
              cpu' = [cpu EXCEPT !.pt = "print", !.left = n]
  /\ Elapse
  /\ ThreadFrame

\* printk draws; the line is complete when nothing is left.
Printk ==
  /\ ThreadAt("print")
  /\ cpu' = [cpu EXCEPT !.left = @ - 1,
                        !.pt = IF cpu.left = 1 THEN "release" ELSE "print"]
  /\ Elapse
  /\ lock' = lock
  /\ ThreadFrame

\* mutex_release(&lock), then hlt.
MutexRelease ==
  /\ ThreadAt("release")
  /\ lock' = FALSE
  /\ cpu' = [cpu EXCEPT !.pt = "hlt"]
  /\ Elapse
  /\ ThreadFrame

\* hlt: only time passes until an interrupt, the timer's (Deliver) or the
\* card's (DeviceInterrupt).
Halted ==
  /\ phase = "none" /\ ~derailed /\ ~Deliverable
  /\ cpu.pt = "hlt"
  /\ count > 0
  /\ Elapse
  /\ UNCHANGED <<bsp, card, made, queues, cpu, frame, phase, p_irq, trap_lock,
                 lock, in_service, derailed>>

\* isr() of the network card: it saves the registers it uses (__isr), touches
\* nothing of the scheduler, acknowledges the LAPIC and returns to where it
\* came in.  It takes a while: the model lets any number of such steps follow
\* each other.  A thread it finds in hlt resumes behind it and goes round its
\* loop in mid-quantum; the boot context only halts again.  Where the timer's
\* interrupt is deliverable too, either may be taken first.
DeviceInterrupt ==
  /\ card /\ Interruptible /\ ~derailed
  /\ cpu' = IF cpu.pt = "hlt" /\ cpu.stack # Boot
              THEN [cpu EXCEPT !.pt = "top"] ELSE cpu
  /\ Elapse
  /\ lock' = lock
  /\ ThreadFrame

-----------------------------------------------------------------------------
(* The timer interrupt *)

\* The processor enters the interrupt gate: it pushes the interrupted context
\* and clears the interrupt flag.  A hlt that was waiting has completed, so a
\* thread resumes behind it, at the top of its loop.
Deliver ==
  /\ Deliverable /\ ~derailed
  /\ frame' = IF cpu.pt = "hlt" /\ cpu.stack # Boot
                THEN [cpu EXCEPT !.pt = "top"] ELSE cpu
  /\ phase' = "enter"
  /\ in_service' = TRUE
  /\ irr' = FALSE
  /\ UNCHANGED <<bsp, card, made, queues, cpu, p_irq, trap_lock, lock, count,
                 derailed>>

\* One step of the interrupt path, from phase ph to phase ph2.
Path(ph, ph2) ==
  /\ phase = ph /\ ~derailed
  /\ phase' = ph2
  /\ UNCHANGED <<bsp, card, made, lock, cpu>>

\* __lapic_timer_isr: call irq_enter.
IrqEnter ==
  /\ Path("enter", "exit")
  /\ p_irq' = TRUE
  /\ Elapse
  /\ UNCHANGED <<queues, frame, trap_lock, in_service, derailed>>

\* __lapic_timer_isr: push the vector, call irq_exit, jump to trap_entry.
IrqExit ==
  /\ Path("exit", "trap")
  /\ p_irq' = FALSE
  /\ Elapse
  /\ UNCHANGED <<queues, frame, trap_lock, in_service, derailed>>

\* trap(): mutex_acquire(&lock).
TrapAcquire ==
  /\ Path("trap", "yield")
  /\ ~trap_lock
  /\ trap_lock' = TRUE
  /\ Elapse
  /\ UNCHANGED <<queues, frame, p_irq, in_service, derailed>>

\* sched_yield() when the running thread still has THREAD_STARTUP: the
\* interrupted context is the boot context, which is dropped.
YieldStartup ==
  /\ Path("yield", "eoi")
  /\ running_process[bsp] # NULL
  /\ startup[Scheduled]
  /\ startup' = [startup EXCEPT ![Scheduled] = FALSE]
  /\ frame' = tf[Scheduled]
  /\ BeginTimer
  /\ UNCHANGED <<current_core_idx, processq, running_process, threadq,
                 thread_count, running_thread, tf, p_irq, trap_lock,
                 in_service, derailed>>

\* Mutant: sched_yield() advances the thread but not the process.
YieldSwitchThreadOnly ==
  /\ Path("yield", "eoi")
  /\ running_process[bsp] # NULL
  /\ ~startup[Scheduled]
  /\ LET running == running_process[bsp]
     IN  /\ tf' = [tf EXCEPT ![Scheduled] = frame]
         /\ running_thread' = [running_thread EXCEPT
                                 ![running] = NextIn(threadq[running], @)]
         /\ frame' = tf'[running_thread'[running]]
  /\ BeginTimer
  /\ UNCHANGED <<current_core_idx, processq, running_process, threadq,
                 thread_count, startup, p_irq, trap_lock, in_service,
                 derailed>>

\* sched_yield() otherwise: save the running thread's frame, advance the
\* process's thread and the core's process, load what is scheduled then.
YieldSwitch ==
  /\ Path("yield", "eoi")
  /\ running_process[bsp] # NULL
  /\ ~startup[Scheduled]
  /\ LET running == running_process[bsp]
     IN  /\ tf' = [tf EXCEPT ![Scheduled] = frame]
         /\ running_thread' = [running_thread EXCEPT
                                 ![running] = NextIn(threadq[running], @)]
         /\ running_process' = [running_process EXCEPT
                                  ![bsp] = NextIn(processq[bsp], @)]
         /\ frame' = tf'[running_thread'[running_process'[bsp]]]
  /\ BeginTimer
  /\ UNCHANGED <<current_core_idx, processq, threadq, thread_count, startup,
                 p_irq, trap_lock, in_service, derailed>>

\* sched_yield() on a core no process was placed on: running is NULL, its
\* dereference faults and the page fault handler stops the processor.
YieldFault ==
  /\ Path("yield", "aborted")
  /\ running_process[bsp] = NULL
  /\ Elapse
  /\ UNCHANGED <<queues, frame, p_irq, trap_lock, in_service, derailed>>

\* Mutant: the handler returns without lapic_send_eoi().
SendEoiMissing ==
  /\ Path("eoi", "unlock")
  /\ Elapse
  /\ UNCHANGED <<queues, frame, p_irq, trap_lock, in_service, derailed>>

\* lapic_send_eoi().
SendEoi ==
  /\ Path("eoi", "unlock")
  /\ in_service' = FALSE
  /\ Elapse
  /\ UNCHANGED <<queues, frame, p_irq, trap_lock, derailed>>

\* trap(): mutex_release(&lock).
TrapRelease ==
  /\ Path("unlock", "iret")
  /\ trap_lock' = FALSE
  /\ Elapse
  /\ UNCHANGED <<queues, frame, p_irq, in_service, derailed>>

\* trap_end pops the frame and returns to it.  In its thread's own loop a
\* context needs neither %rbp nor a caller-saved register; inside a callee it
\* may need them, and they are lost.
Iret ==
  /\ phase = "iret" /\ ~derailed
  /\ phase' = "none"
  /\ cpu' = frame
  /\ derailed' \in {FALSE, frame.pt \in CalleePoints}
  /\ Elapse
  /\ UNCHANGED <<bsp, card, made, lock, queues, frame, p_irq, trap_lock,
                 in_service>>

-----------------------------------------------------------------------------
SchedStart == CreateKernelProcess \/ CreateThread \/ StartTimer \/ Sti

ThreadStep ==
  \/ CallAcquire \/ MutexAcquire \/ Printk \/ MutexRelease
  \/ Halted \/ DeviceInterrupt

Interrupt ==
  \/ Deliver \/ IrqEnter \/ IrqExit \/ TrapAcquire
  \/ YieldStartup \/ YieldSwitch \/ YieldFault
  \/ SendEoi \/ TrapRelease \/ Iret

Next == SchedStart \/ ThreadStep \/ Interrupt

Spec == Init /\ [][Next]_vars

\* The processor keeps executing, and an armed LAPIC count keeps running
\* down: together one machine that never stops by itself.
FairSpec == Spec /\ WF_vars(Next)

-----------------------------------------------------------------------------
(* Properties *)

TypeOK ==
  /\ bsp \in Cores
  /\ card \in BOOLEAN
  /\ made \in 0 .. Len(Script)
  /\ current_core_idx \in Cores
  /\ processq \in [Cores -> Seq(Processes)]
  /\ running_process \in [Cores -> Processes \cup {NULL}]
  /\ threadq \in [Processes -> Seq(Threads)]
  /\ thread_count \in [Processes -> Nat]
  /\ running_thread \in [Processes -> Threads \cup {NULL}]
  /\ startup \in [Threads -> BOOLEAN]
  /\ tf \in [Threads -> Contexts]
  /\ cpu \in Contexts
  /\ frame \in Contexts
  /\ phase \in Phases
  /\ p_irq \in BOOLEAN
  /\ trap_lock \in BOOLEAN
  /\ lock \in BOOLEAN
  /\ count \in 0 .. MaxQuantum
  /\ irr \in BOOLEAN
  /\ in_service \in BOOLEAN
  /\ derailed \in BOOLEAN

\* The context thread t would continue from: live on the processor, in the
\* frame of the interrupt path, or saved in its control block.
ContextOf(t) ==
  IF phase = "none" /\ cpu.stack = t THEN cpu
  ELSE IF phase # "none" /\ frame.stack = t THEN frame
  ELSE tf[t]

InPrintk(t) == ContextOf(t).pt \in {"print", "release"}

\* The queues agree with the cursors that walk them: thread_count counts the
\* threads of a process ("1 or higher"), running_thread is one of them, a
\* core's running_process is on that core's queue and NULL only while the
\* queue is empty, and no process is on two queues or twice on one.
QueuesAgree ==
  /\ \A p \in Processes :
       /\ thread_count[p] = Len(threadq[p])
       /\ threadq[p] # <<>> => running_thread[p] \in Members(threadq[p])
  /\ \A c \in Cores :
       IF processq[c] = <<>> THEN running_process[c] = NULL
       ELSE running_process[c] \in Members(processq[c])
  /\ \A c, d \in Cores :
       \A i \in 1 .. Len(processq[c]), j \in 1 .. Len(processq[d]) :
         processq[c][i] = processq[d][j] => c = d /\ i = j

\* What a thread's control block holds is always a context of that thread's
\* own stack, and outside the interrupt path the processor executes the boot
\* context or the one thread the queues say is running.  The boot context is
\* never saved over a thread, and no frame goes to the wrong control block.
OwnContexts ==
  /\ \A t \in Threads : tf[t].stack = t
  /\ phase = "none" /\ cpu.stack # Boot =>
       /\ running_process[bsp] # NULL
       /\ cpu.stack = Scheduled
       /\ ~startup[Scheduled]

\* At most one thread is between mutex_acquire and mutex_release, wherever
\* its context is kept, and then the lock byte is set: preemption inside
\* printk never lets a second thread draw.
PrintExclusive ==
  /\ \A t, u \in Threads : InPrintk(t) /\ InPrintk(u) => t = u
  /\ (\E t \in Threads : InPrintk(t)) => lock

\* No tick is lost: from the moment the timer is armed, every state outside
\* the part of the path that re-arms it has a tick outstanding, running or
\* requested, and no stale in-service bit to block it.
TickOutstanding ==
  /\ phase = "none" /\ ~InSetup => (irr \/ count > 0) /\ ~in_service
  /\ phase \in {"eoi", "unlock", "iret"} => irr \/ count > 0

\* The page fault on a NULL running_process stops the bootstrap processor
\* only when enqueue_process() placed every process on other cores.
AbortsOnlyIdle == phase = "aborted" => processq[bsp] = <<>>

\* A quantum covers the tail of the interrupt path (3 steps), the calls of
\* one loop iteration (3 steps) and its longest line.
Timely == MinQuantum >= MaxPrint + 6

\* When a quantum outlasts an iteration of the thread loop and no card is
\* there to end a hlt before the tick does, every tick finds its thread in
\* hlt and no context is ever resumed inside a callee, where the missing %rbp
\* and the clobbered registers would matter.  With a card no quantum is long
\* enough: its interrupt can send the thread into printk just before a tick.
NeverDerailed == Timely /\ ~card => ~derailed

\* A thread of a process placed on the bootstrap processor.
OnBsp(t) == \E p \in Members(processq[bsp]) : t \in Members(threadq[p])

\* Round robin over processes and, within each, over threads leaves nobody
\* out: every thread placed on the bootstrap processor prints, and from any
\* later state prints again.  (A card may interrupt without end.)
EveryThreadPrints ==
  \A t \in Threads :
    ~card /\ OnBsp(t) ~> (phase = "none" /\ cpu.stack = t /\ cpu.pt = "print")

=============================================================================
