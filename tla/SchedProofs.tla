---------------------------- MODULE SchedProofs ----------------------------
(***************************************************************************)
(* Proofs about Sched for every workload, every number of cores and every  *)
(* quantum.  The inductive invariant IInv has one part for each concern:   *)
(* the queues, the contexts, the printk lock, the timer and, when a        *)
(* quantum outlasts a loop iteration and no card ends a hlt early, the      *)
(* time left at each program point.                                        *)
(***************************************************************************)
EXTENDS Sched, TLAPS

BeforeYield == {"enter", "exit", "trap", "yield"}
AfterYield  == {"eoi", "unlock", "iret"}

\* printk has something left to draw while it draws.
WellFormed(c) == c.pt = "print" => c.left > 0

Drawing ==
  /\ WellFormed(cpu)
  /\ WellFormed(frame)
  /\ \A t \in Threads : WellFormed(tf[t])

\* Queue members come from Script, processes are queued once they have a
\* thread, and every cursor is on its queue.
Queued ==
  /\ \A p \in Processes : \A i \in 1 .. Len(threadq[p]) :
       \E k \in 1 .. made : Script[k] = [proc |-> p, thread |-> threadq[p][i]]
  /\ \A c \in Cores : \A i \in 1 .. Len(processq[c]) :
       threadq[processq[c][i]] # <<>>
  /\ QueuesAgree

\* Only the thread a core starts with carries THREAD_STARTUP, and on the
\* bootstrap processor only until the first tick has replaced the boot
\* context.
Startups ==
  \A t \in Threads : startup[t] =>
    \E c \in Cores : running_process[c] # NULL
                     /\ t = running_thread[running_process[c]]

Owned ==
  /\ \A t \in Threads : tf[t].stack = t
  /\ phase \in {"none"} \cup BeforeYield =>
       IF running_process[bsp] = NULL
         THEN cpu.stack = Boot
         ELSE IF startup[Scheduled] THEN cpu.stack = Boot
                                    ELSE cpu.stack = Scheduled
  /\ phase \in BeforeYield => frame.stack = cpu.stack
  /\ phase \in AfterYield =>
       /\ running_process[bsp] # NULL
       /\ ~startup[Scheduled]
       /\ frame = tf[Scheduled]
  /\ phase = "aborted" => running_process[bsp] = NULL

Locked ==
  /\ \A t, u \in Threads : InPrintk(t) /\ InPrintk(u) => t = u
  /\ lock <=> \E t \in Threads : InPrintk(t)
  /\ cpu.stack = Boot => \A t \in Threads : tf[t].pt = "top"

Ticking ==
  /\ irr => count = 0
  /\ InSetup => ~irr /\ count = 0
  /\ phase \in BeforeYield => ~irr /\ count = 0
  /\ phase \in {"none", "unlock", "iret"} => ~in_service
  /\ phase = "none" /\ ~InSetup => irr \/ count > 0
  /\ phase \in AfterYield => irr \/ count > 0

\* What remains of the quantum at each point of the loop.
Slack(pt, left) ==
  IF pt = "top" THEN MaxPrint + 3
  ELSE IF pt = "acquire" THEN MaxPrint + 2
  ELSE IF pt = "print" THEN left + 1
  ELSE IF pt = "release" THEN 1
  ELSE 0

Punctual ==
  /\ ~derailed
  /\ \A t \in Threads : tf[t].pt = "top"
  /\ phase \in BeforeYield /\ frame.stack # Boot => frame.pt = "top"
  /\ phase = "eoi" => count >= MinQuantum
  /\ phase = "unlock" => count >= MinQuantum - 1
  /\ phase = "iret" => count >= MinQuantum - 2
  /\ phase = "none" /\ cpu.stack # Boot => count >= Slack(cpu.pt, cpu.left)
  /\ phase = "none" /\ cpu.stack # Boot /\ cpu.pt # "hlt" => ~irr

IInv ==
  /\ TypeOK
  /\ Drawing
  /\ Queued
  /\ Startups
  /\ Owned
  /\ Locked
  /\ Ticking
  /\ Timely /\ ~card => Punctual

-----------------------------------------------------------------------------
(* Queues *)

\* A walk along a queue from one of its members ends on one of its members:
\* next_process and next_thread never leave the list they walk.
LEMMA NextInMember ==
  ASSUME NEW S, NEW q \in Seq(S), NEW x \in Members(q)
  PROVE  NextIn(q, x) \in Members(q)
<1> DEFINE i == CHOOSE j \in 1 .. Len(q) : q[j] = x
<1>1. i \in 1 .. Len(q) BY DEF Members
<1>2. Len(q) \in Nat OBVIOUS
<1>3. CASE i = Len(q)
  <2>1. NextIn(q, x) = q[1] BY <1>3 DEF NextIn
  <2>2. 1 \in 1 .. Len(q) BY <1>1, <1>2
  <2> QED BY <2>1, <2>2 DEF Members
<1>4. CASE i # Len(q)
  <2>1. NextIn(q, x) = q[i + 1] BY <1>4 DEF NextIn
  <2>2. i + 1 \in 1 .. Len(q) BY <1>1, <1>2, <1>4
  <2> QED BY <2>1, <2>2 DEF Members
<1> QED BY <1>3, <1>4

\* The members of a queue have the type of its elements.
LEMMA MembersType ==
  ASSUME NEW S, NEW q \in Seq(S)
  PROVE  Members(q) \subseteq S
BY DEF Members

\* A queue of one element.
LEMMA Singleton ==
  ASSUME NEW x
  PROVE  /\ Len(<<x>>) = 1
         /\ <<x>>[1] = x
         /\ <<x>> # <<>>
         /\ Members(<<x>>) = {x}
<1>1. Len(<<x>>) = 1 /\ <<x>>[1] = x /\ <<x>> # <<>> OBVIOUS
<1>2. 1 .. 1 = {1} OBVIOUS
<1> QED BY <1>1, <1>2 DEF Members

\* What TAILQ_INSERT_TAIL adds to the members of a queue.
LEMMA MembersAppend ==
  ASSUME NEW S, NEW q \in Seq(S), NEW x \in S
  PROVE  /\ Members(Append(q, x)) = Members(q) \cup {x}
         /\ Append(q, x) # <<>>
         /\ Append(q, x) \in Seq(S)
         /\ Len(Append(q, x)) = Len(q) + 1
<1>1. Len(Append(q, x)) = Len(q) + 1 /\ Append(q, x) \in Seq(S) OBVIOUS
<1>2. \A i \in 1 .. Len(q) : Append(q, x)[i] = q[i] OBVIOUS
<1>3. Append(q, x)[Len(q) + 1] = x OBVIOUS
<1>4. Members(Append(q, x)) \subseteq Members(q) \cup {x}
  BY <1>1, <1>2, <1>3 DEF Members
<1>5. Members(q) \cup {x} \subseteq Members(Append(q, x))
  <2>1. Len(q) + 1 \in 1 .. Len(Append(q, x)) BY <1>1
  <2>2. \A i \in 1 .. Len(q) : i \in 1 .. Len(Append(q, x)) BY <1>1
  <2> QED BY <1>2, <1>3, <2>1, <2>2 DEF Members
<1>6. Append(q, x) # <<>> BY <1>1, Len(<<>>) = 0, Len(q) \in Nat
<1> QED BY <1>1, <1>4, <1>5, <1>6

-----------------------------------------------------------------------------
(* The initial state *)

\* The invariant holds when sched_start() is called: no process, no timer.
LEMMA InitIInv == Init => IInv
<1> SUFFICES ASSUME Init PROVE IInv OBVIOUS
<1> USE SchedAssumption
<1>1. TypeOK
  <2>1. cpu \in Contexts /\ frame \in Contexts
    BY DEF Init, Contexts, BootPoints
  <2>2. \A t \in Threads : EntryFrame(t) \in Contexts
    BY DEF EntryFrame, Contexts, ThreadPoints
  <2>3. 0 \in Cores BY DEF Cores
  <2>4. tf \in [Threads -> Contexts] /\ startup \in [Threads -> BOOLEAN]
    BY <2>2 DEF Init
  <2>5. /\ processq \in [Cores -> Seq(Processes)]
        /\ threadq \in [Processes -> Seq(Threads)]
        /\ running_process \in [Cores -> Processes \cup {NULL}]
        /\ running_thread \in [Processes -> Threads \cup {NULL}]
        /\ thread_count \in [Processes -> Nat]
    BY DEF Init
  <2>6. made \in 0 .. Len(Script) /\ count \in 0 .. MaxQuantum
    BY DEF Init
  <2> QED BY <2>1, <2>3, <2>4, <2>5, <2>6 DEF Init, TypeOK, Phases
<1>2. Drawing BY DEF Init, Drawing, WellFormed, EntryFrame
<1>3. Queued BY DEF Init, Queued, QueuesAgree, Members, Cores
<1>4. Startups /\ Owned
  BY DEF Init, Startups, Owned, EntryFrame, BeforeYield, AfterYield, Cores
<1>5. Locked
  BY DEF Init, Locked, InPrintk, ContextOf, EntryFrame
<1>6. Ticking
  BY DEF Init, Ticking, InSetup, BeforeYield, AfterYield
<1>7. Punctual
  BY DEF Init, Punctual, BeforeYield, EntryFrame
<1> QED BY <1>1, <1>2, <1>3, <1>4, <1>5, <1>6, <1>7 DEF IInv

-----------------------------------------------------------------------------
(* Types *)

\* The entry of Script that sched_start() turns to next.
LEMMA NextEntry ==
  ASSUME TypeOK, made < Len(Script)
  PROVE  /\ made + 1 \in 1 .. Len(Script)
         /\ Script[made + 1] = [proc |-> NewProcess, thread |-> NewThread]
         /\ NewProcess \in Processes
         /\ NewThread \in Threads
<1>1. made \in 0 .. Len(Script) /\ Len(Script) \in Nat
  BY SchedAssumption DEF TypeOK
<1>2. made + 1 \in 1 .. Len(Script) BY <1>1
<1>3. Script[made + 1] \in [proc : Processes, thread : Threads]
  <2> DEFINE R == [proc : Processes, thread : Threads]
  <2>1. Script \in Seq(R) BY SchedAssumption
  <2> HIDE DEF R
  <2>2. Script[made + 1] \in R BY <1>2, <2>1
  <2> QED BY <2>2 DEF R
<1> QED BY <1>2, <1>3 DEF NewProcess, NewThread

\* Unless its core has no process, the scheduled thread is on the queue of
\* the running process, and that process on the core's queue.
LEMMA ScheduledQueued ==
  ASSUME TypeOK, Queued, NEW c \in Cores, running_process[c] # NULL
  PROVE  /\ running_process[c] \in Members(processq[c])
         /\ running_process[c] \in Processes
         /\ running_thread[running_process[c]]
              \in Members(threadq[running_process[c]])
         /\ running_thread[running_process[c]] \in Threads
         /\ c = bsp => Scheduled = running_thread[running_process[c]]
<1>1. running_process[c] \in Processes BY DEF TypeOK
<1>2. running_process[c] \in Members(processq[c])
  BY DEF Queued, QueuesAgree
<1>3. threadq[running_process[c]] # <<>> BY <1>1, <1>2 DEF Queued, Members
<1>4. running_thread[running_process[c]]
        \in Members(threadq[running_process[c]])
  BY <1>1, <1>3 DEF Queued, QueuesAgree
<1>5. threadq[running_process[c]] \in Seq(Threads) BY <1>1 DEF TypeOK
<1>6. running_thread[running_process[c]] \in Threads
  BY <1>4, <1>5, MembersType
<1> QED BY <1>1, <1>2, <1>4, <1>6 DEF Scheduled

\* The process and the thread a switch goes to.
NextProcess == NextIn(processq[bsp], running_process[bsp])
NextThread  == running_thread'[NextProcess]

\* What a switch does to the cursors, and that it ends on queued objects.
LEMMA SwitchFacts ==
  ASSUME TypeOK, Queued, YieldSwitch
  PROVE  /\ running_process[bsp] # NULL /\ bsp \in Cores
         /\ running_process[bsp] \in Processes
         /\ running_process[bsp] \in Members(processq[bsp])
         /\ Scheduled \in Threads
         /\ Scheduled = running_thread[running_process[bsp]]
         /\ Scheduled \in Members(threadq[running_process[bsp]])
         /\ NextProcess \in Processes
         /\ NextProcess \in Members(processq[bsp])
         /\ running_process' = [running_process EXCEPT ![bsp] = NextProcess]
         /\ running_process' \in [Cores -> Processes \cup {NULL}]
         /\ running_thread' \in [Processes -> Threads \cup {NULL}]
         /\ \A p \in Processes : p # running_process[bsp] =>
              running_thread'[p] = running_thread[p]
         /\ running_thread'[running_process[bsp]]
              \in Members(threadq[running_process[bsp]])
         /\ NextThread \in Threads
         /\ NextThread \in Members(threadq[NextProcess])
         /\ tf' = [tf EXCEPT ![Scheduled] = frame]
         /\ tf' \in [Threads -> Contexts]
         /\ frame' = tf'[NextThread]
         /\ frame' \in Contexts
         /\ Scheduled' = NextThread
<1> DEFINE r == running_process[bsp]
<1>0. bsp \in Cores BY DEF TypeOK
<1>1. r # NULL BY DEF YieldSwitch
<1>2. /\ r \in Processes /\ r \in Members(processq[bsp])
      /\ Scheduled \in Threads /\ Scheduled \in Members(threadq[r])
      /\ Scheduled = running_thread[r]
  BY <1>0, <1>1, ScheduledQueued
<1>3. /\ threadq[r] \in Seq(Threads)
      /\ NextIn(threadq[r], Scheduled) \in Members(threadq[r])
  BY <1>2, NextInMember DEF TypeOK
<1>4. /\ processq[bsp] \in Seq(Processes)
      /\ NextProcess \in Members(processq[bsp])
  BY <1>0, <1>2, NextInMember DEF TypeOK, NextProcess
<1>5. NextIn(threadq[r], Scheduled) \in Threads /\ NextProcess \in Processes
  BY <1>3, <1>4, MembersType
<1>6. /\ running_process' = [running_process EXCEPT ![bsp] = NextProcess]
      /\ running_process' \in [Cores -> Processes \cup {NULL}]
  BY <1>5 DEF TypeOK, YieldSwitch, NextProcess
<1>7. running_thread' = [running_thread EXCEPT ![r] = NextIn(threadq[r], Scheduled)]
  BY DEF YieldSwitch, Scheduled
<1>8. /\ running_thread' \in [Processes -> Threads \cup {NULL}]
      /\ \A p \in Processes : p # r => running_thread'[p] = running_thread[p]
      /\ running_thread'[r] \in Members(threadq[r])
  BY <1>2, <1>3, <1>5, <1>7 DEF TypeOK
<1>9. tf' = [tf EXCEPT ![Scheduled] = frame] /\ tf' \in [Threads -> Contexts]
  BY <1>2 DEF TypeOK, YieldSwitch
<1>10. NextThread \in Members(threadq[NextProcess])
  <2>1. CASE NextProcess = r BY <1>8, <2>1 DEF NextThread
  <2>2. CASE NextProcess # r
    <3>1. NextThread = running_thread[NextProcess]
      BY <1>5, <1>8, <2>2 DEF NextThread
    <3>2. threadq[NextProcess] # <<>> BY <1>0, <1>4 DEF Queued, Members
    <3> QED BY <1>5, <3>1, <3>2 DEF Queued, QueuesAgree
  <2> QED BY <2>1, <2>2
<1>11. threadq[NextProcess] \in Seq(Threads) BY <1>5 DEF TypeOK
<1>12. NextThread \in Threads BY <1>10, <1>11, MembersType
<1>13. running_process'[bsp] = NextProcess BY <1>0, <1>6 DEF TypeOK
<1>14. bsp' = bsp BY DEF YieldSwitch, Path
<1>15. Scheduled' = NextThread BY <1>13, <1>14 DEF Scheduled, NextThread
<1>16. frame' = tf'[NextThread]
  BY <1>13 DEF YieldSwitch, NextThread
<1>17. frame' \in Contexts BY <1>9, <1>12, <1>16
<1> HIDE DEF NextProcess, NextThread
<1> QED BY <1>0, <1>1, <1>2, <1>4, <1>5, <1>6, <1>8, <1>9, <1>10, <1>12,
           <1>15, <1>16, <1>17

\* Every step keeps every variable in its type.
LEMMA TypeStep == IInv /\ [Next]_vars => TypeOK'
<1> SUFFICES ASSUME IInv, [Next]_vars PROVE TypeOK' OBVIOUS
<1> USE SchedAssumption
<1>0. TypeOK /\ Drawing /\ Queued BY DEF IInv
<1>t. ASSUME Elapse PROVE count' \in 0 .. MaxQuantum /\ irr' \in BOOLEAN
  BY <1>0, <1>t DEF Elapse, TypeOK
<1>b. ASSUME BeginTimer PROVE count' \in 0 .. MaxQuantum /\ irr' \in BOOLEAN
  BY <1>0, <1>b DEF BeginTimer, TypeOK
<1>p. /\ \A pt \in ThreadPoints \cup BootPoints :
           [cpu EXCEPT !.pt = pt] \in Contexts
      /\ \A pt \in ThreadPoints \cup BootPoints, n \in 0 .. MaxPrint :
           [cpu EXCEPT !.pt = pt, !.left = n] \in Contexts
  BY <1>0 DEF TypeOK, Contexts
<1>1. CASE CreateKernelProcess
  <2>1. NewProcess \in Processes /\ NewThread \in Threads /\ made' \in 0 .. Len(Script)
    BY <1>0, <1>1, NextEntry DEF CreateKernelProcess
  <2>2. EntryFrame(NewThread) \in Contexts
    BY <2>1 DEF EntryFrame, Contexts, ThreadPoints
  <2>3. current_core_idx' \in Cores
    BY <1>0, <1>1 DEF TypeOK, CreateKernelProcess, NextCore, Cores
  <2>4. /\ <<NewThread>> \in Seq(Threads)
        /\ Append(processq[current_core_idx], NewProcess) \in Seq(Processes)
    BY <1>0, <2>1 DEF TypeOK
  <2>5. RunningAfter(current_core_idx, NewProcess) \in Processes \cup {NULL}
    BY <1>0, <2>1 DEF TypeOK, RunningAfter
  <2>6. StartsUp(current_core_idx) \in BOOLEAN BY DEF StartsUp
  <2>7. startup' \in [Threads -> BOOLEAN]
    BY <1>0, <1>1, <2>6 DEF TypeOK, CreateKernelProcess
  <2> QED BY <1>0, <1>1, <2>1, <2>2, <2>3, <2>4, <2>5, <2>7
          DEF TypeOK, CreateKernelProcess, timer
<1>2. CASE CreateThread
  <2>1. NewProcess \in Processes /\ NewThread \in Threads /\ made' \in 0 .. Len(Script)
    BY <1>0, <1>2, NextEntry DEF CreateThread
  <2>2. EntryFrame(NewThread) \in Contexts
    BY <2>1 DEF EntryFrame, Contexts, ThreadPoints
  <2>3. Append(threadq[NewProcess], NewThread) \in Seq(Threads)
    BY <1>0, <2>1 DEF TypeOK
  <2>4. startup' \in [Threads -> BOOLEAN] BY <1>0, <1>2 DEF TypeOK, CreateThread
  <2>5. thread_count' \in [Processes -> Nat]
    BY <1>0, <1>2, <2>1 DEF TypeOK, CreateThread
  <2>6. tf' \in [Threads -> Contexts]
    BY <1>0, <1>2, <2>1, <2>2 DEF TypeOK, CreateThread
  <2>7. threadq' \in [Processes -> Seq(Threads)]
    BY <1>0, <1>2, <2>1, <2>3 DEF TypeOK, CreateThread
  <2> QED BY <1>0, <1>2, <2>1, <2>4, <2>5, <2>6, <2>7
          DEF TypeOK, CreateThread, timer
<1>3. CASE StartTimer
  BY <1>0, <1>b, <1>p, <1>3 DEF TypeOK, StartTimer, queues, BootPoints
<1>4. CASE Sti
  BY <1>0, <1>t, <1>p, <1>4 DEF TypeOK, Sti, queues, BootPoints
<1>5. CASE CallAcquire
  BY <1>0, <1>t, <1>p, <1>5
  DEF TypeOK, CallAcquire, ThreadFrame, queues, ThreadPoints, CalleePoints
<1>6. CASE MutexAcquire
  <2>1. cpu' \in Contexts
    <3>1. CASE lock BY <1>0, <1>6, <3>1 DEF TypeOK, MutexAcquire
    <3>2. CASE ~lock
      <4>1. PICK n \in 1 .. MaxPrint : cpu' = [cpu EXCEPT !.pt = "print", !.left = n]
        BY <1>6, <3>2 DEF MutexAcquire
      <4>2. n \in 0 .. MaxPrint OBVIOUS
      <4> QED BY <1>p, <4>1, <4>2 DEF ThreadPoints, CalleePoints
    <3> QED BY <3>1, <3>2
  <2> QED BY <1>0, <1>t, <1>6, <2>1 DEF TypeOK, MutexAcquire, ThreadFrame, queues
<1>7. CASE Printk
  <2>1. cpu.left - 1 \in 0 .. MaxPrint
    BY <1>0, <1>7 DEF TypeOK, Contexts, Printk, ThreadAt, Drawing, WellFormed
  <2>2. cpu' \in Contexts
    BY <1>0, <1>7, <2>1
    DEF TypeOK, Contexts, Printk, ThreadPoints, CalleePoints
  <2> QED BY <1>0, <1>t, <1>7, <2>2 DEF TypeOK, Printk, ThreadFrame, queues
<1>8. CASE MutexRelease
  BY <1>0, <1>t, <1>p, <1>8
  DEF TypeOK, MutexRelease, ThreadFrame, queues, ThreadPoints
<1>9. CASE Halted
  BY <1>0, <1>t, <1>9 DEF TypeOK, Halted, queues
<1>10. CASE Deliver
  <2>1. frame' \in Contexts
    BY <1>0, <1>p, <1>10 DEF TypeOK, Deliver, ThreadPoints
  <2> QED BY <1>0, <1>10, <2>1 DEF TypeOK, Deliver, Phases, queues
<1>11. CASE IrqEnter
  BY <1>0, <1>t, <1>11 DEF TypeOK, IrqEnter, Path, Phases, queues
<1>12. CASE IrqExit
  BY <1>0, <1>t, <1>12 DEF TypeOK, IrqExit, Path, Phases, queues
<1>13. CASE TrapAcquire
  BY <1>0, <1>t, <1>13 DEF TypeOK, TrapAcquire, Path, Phases, queues
<1>14. CASE YieldStartup
  <2>1. running_process[bsp] # NULL BY <1>14 DEF YieldStartup
  <2>0. bsp \in Cores BY <1>0 DEF TypeOK
  <2>2. Scheduled \in Threads BY <1>0, <2>0, <2>1, ScheduledQueued
  <2>3. tf[Scheduled] \in Contexts BY <1>0, <2>2 DEF TypeOK
  <2> QED BY <1>0, <1>b, <1>14, <2>2, <2>3 DEF TypeOK, YieldStartup, Path, Phases
<1>15. CASE YieldSwitch
  <2>1. /\ tf' \in [Threads -> Contexts]
        /\ running_process' \in [Cores -> Processes \cup {NULL}]
        /\ running_thread' \in [Processes -> Threads \cup {NULL}]
        /\ frame' \in Contexts
    BY <1>0, <1>15, SwitchFacts DEF TypeOK
  <2> QED BY <1>0, <1>b, <1>15, <2>1 DEF TypeOK, YieldSwitch, Path, Phases
<1>16. CASE YieldFault
  BY <1>0, <1>t, <1>16 DEF TypeOK, YieldFault, Path, Phases, queues
<1>17. CASE SendEoi
  BY <1>0, <1>t, <1>17 DEF TypeOK, SendEoi, Path, Phases, queues
<1>18. CASE TrapRelease
  BY <1>0, <1>t, <1>18 DEF TypeOK, TrapRelease, Path, Phases, queues
<1>19. CASE Iret
  <2>1. derailed' = FALSE \/ derailed' = (frame.pt \in CalleePoints)
    BY <1>19 DEF Iret
  <2>2. (frame.pt \in CalleePoints) \in BOOLEAN OBVIOUS
  <2>3. derailed' \in BOOLEAN BY <2>1, <2>2
  <2> QED BY <1>0, <1>t, <1>19, <2>3 DEF TypeOK, Iret, Phases, queues
<1>20. CASE DeviceInterrupt
  <2>1. cpu' \in Contexts
    BY <1>0, <1>p, <1>20 DEF TypeOK, DeviceInterrupt, ThreadPoints
  <2> QED BY <1>0, <1>t, <1>20, <2>1
          DEF TypeOK, DeviceInterrupt, ThreadFrame, queues
<1>21. CASE UNCHANGED vars
  BY <1>0, <1>21 DEF TypeOK, vars, queues, timer
<1> QED BY <1>21, <1>1, <1>2, <1>3, <1>4, <1>5, <1>6, <1>7, <1>8, <1>9, <1>10, <1>11,
           <1>12, <1>13, <1>14, <1>15, <1>16, <1>17, <1>18, <1>19, <1>20
        DEF Next, SchedStart, ThreadStep, Interrupt

-----------------------------------------------------------------------------
(* Queues and startup flags *)

\* Steps that touch neither a queue nor a cursor.
Unqueued == UNCHANGED <<bsp, made, queues>>

\* All steps but four leave the queues alone.
LEMMA UnqueuedSteps ==
  ASSUME [Next]_vars
  PROVE  CreateKernelProcess \/ CreateThread \/ YieldStartup \/ YieldSwitch
         \/ Unqueued
BY DEF Next, SchedStart, ThreadStep, Interrupt, StartTimer, Sti, CallAcquire,
       MutexAcquire, Printk, MutexRelease, Halted, DeviceInterrupt, ThreadFrame,
       Deliver,
       IrqEnter, IrqExit, TrapAcquire, YieldFault, SendEoi, TrapRelease, Iret,
       Path, Unqueued, vars

\* No step adds a card or takes it out.
LEMMA CardStays == [Next]_vars => card' = card
BY DEF Next, SchedStart, ThreadStep, Interrupt, CreateKernelProcess,
       CreateThread, YieldStartup, YieldSwitch, StartTimer, Sti, CallAcquire,
       MutexAcquire, Printk, MutexRelease, Halted, DeviceInterrupt, ThreadFrame,
       Deliver, IrqEnter, IrqExit, TrapAcquire, YieldFault, SendEoi, TrapRelease,
       Iret, Path, vars

\* The queues, their cursors and thread_count stay in agreement.
LEMMA QueuedStep == IInv /\ [Next]_vars => Queued'
<1> SUFFICES ASSUME IInv, [Next]_vars PROVE Queued' OBVIOUS
<1> USE SchedAssumption
<1>0. TypeOK /\ Queued BY DEF IInv
<1>1. CASE CreateKernelProcess
  <2> DEFINE c == current_core_idx
             q == processq[c]
  <2>1. /\ made + 1 \in 1 .. Len(Script)
        /\ Script[made + 1] = [proc |-> NewProcess, thread |-> NewThread]
        /\ NewProcess \in Processes /\ NewThread \in Threads
        /\ made \in Nat /\ made' = made + 1
    BY <1>0, <1>1, NextEntry DEF CreateKernelProcess, TypeOK
  <2>2. c \in Cores /\ q \in Seq(Processes) BY <1>0 DEF TypeOK
  <2>3. /\ threadq'[NewProcess] = <<NewThread>>
        /\ threadq[NewProcess] = <<>>
        /\ \A p \in Processes : p # NewProcess => threadq'[p] = threadq[p]
    BY <1>0, <1>1, <2>1 DEF TypeOK, CreateKernelProcess
  <2>s. /\ Len(threadq'[NewProcess]) = 1
        /\ threadq'[NewProcess][1] = NewThread
        /\ threadq'[NewProcess] # <<>>
        /\ Members(threadq'[NewProcess]) = {NewThread}
    <3>1. Len(<<NewThread>>) = 1 /\ <<NewThread>>[1] = NewThread
          /\ <<NewThread>> # <<>> /\ Members(<<NewThread>>) = {NewThread}
      BY Singleton
    <3> HIDE DEF NewThread
    <3>2. threadq'[NewProcess] = <<NewThread>> BY <2>3
    <3> QED BY <3>1, <3>2, Zenon
  <2>4. /\ processq'[c] = Append(q, NewProcess)
        /\ \A d \in Cores : d # c => processq'[d] = processq[d]
    BY <1>0, <1>1, <2>2 DEF TypeOK, CreateKernelProcess
  <2>5. \A d \in Cores : \A i \in 1 .. Len(processq[d]) :
          processq[d][i] \in Processes /\ processq[d][i] # NewProcess
    <3> SUFFICES ASSUME NEW d \in Cores, NEW i \in 1 .. Len(processq[d])
                 PROVE  processq[d][i] \in Processes /\ processq[d][i] # NewProcess
      OBVIOUS
    <3>1. processq[d] \in Seq(Processes) BY <1>0 DEF TypeOK
    <3>2. processq[d][i] \in Processes BY <3>1
    <3>3. threadq[processq[d][i]] # <<>> BY <1>0 DEF Queued
    <3> HIDE DEF NewProcess
    <3> QED BY <2>3, <3>2, <3>3
  <2>6. \A p \in Processes : \A i \in 1 .. Len(threadq'[p]) :
          \E k \in 1 .. made' :
            Script[k] = [proc |-> p, thread |-> threadq'[p][i]]
    <3> SUFFICES ASSUME NEW p \in Processes, NEW i \in 1 .. Len(threadq'[p])
                 PROVE  \E k \in 1 .. made' :
                          Script[k] = [proc |-> p, thread |-> threadq'[p][i]]
      OBVIOUS
    <3>1. CASE p = NewProcess
      <4>0. Len(threadq'[p]) = 1 BY <2>s, <3>1
      <4>a. i \in 1 .. 1 BY <4>0, Zenon
      <4>b. i = 1 BY <4>a
      <4>1. threadq'[p][i] = NewThread BY <2>s, <3>1, <4>b, Zenon
      <4>2. made + 1 \in 1 .. made' BY <2>1
      <4> QED BY <2>1, <3>1, <4>1, <4>2
    <3>2. CASE p # NewProcess
      <4>1. PICK k \in 1 .. made :
              Script[k] = [proc |-> p, thread |-> threadq[p][i]]
        BY <1>0, <2>3, <3>2 DEF Queued
      <4>2. k \in 1 .. made' BY <2>1
      <4> QED BY <2>3, <3>2, <4>1, <4>2
    <3> QED BY <3>1, <3>2
  <2>7. \A i \in 1 .. Len(processq'[c]) :
          \/ i \in 1 .. Len(q) /\ processq'[c][i] = q[i]
          \/ i = Len(q) + 1 /\ processq'[c][i] = NewProcess
    BY <2>1, <2>2, <2>4
  <2>8. \A d \in Cores : \A i \in 1 .. Len(processq'[d]) :
          threadq'[processq'[d][i]] # <<>>
    <3> SUFFICES ASSUME NEW d \in Cores, NEW i \in 1 .. Len(processq'[d])
                 PROVE  threadq'[processq'[d][i]] # <<>>
      OBVIOUS
    <3>1. \/ i \in 1 .. Len(processq[d]) /\ processq'[d][i] = processq[d][i]
          \/ processq'[d][i] = NewProcess
      BY <2>4, <2>7
    <3>2. CASE processq'[d][i] = NewProcess BY <2>s, <3>2
    <3>3. CASE i \in 1 .. Len(processq[d]) /\ processq'[d][i] = processq[d][i]
      <4>1. processq[d][i] \in Processes /\ processq[d][i] # NewProcess
        BY <2>5, <3>3
      <4>2. threadq[processq[d][i]] # <<>> BY <1>0, <3>3 DEF Queued
      <4> QED BY <2>3, <3>3, <4>1, <4>2
    <3> QED BY <3>1, <3>2, <3>3
  <2>9. \A p \in Processes :
          /\ thread_count'[p] = Len(threadq'[p])
          /\ threadq'[p] # <<>> => running_thread'[p] \in Members(threadq'[p])
    <3> SUFFICES ASSUME NEW p \in Processes
                 PROVE  /\ thread_count'[p] = Len(threadq'[p])
                        /\ threadq'[p] # <<>> =>
                             running_thread'[p] \in Members(threadq'[p])
      OBVIOUS
    <3>1. CASE p = NewProcess
      <4>1. thread_count'[p] = 1 /\ running_thread'[p] = NewThread
        BY <1>0, <1>1, <3>1 DEF TypeOK, CreateKernelProcess
      <4> QED BY <2>s, <3>1, <4>1
    <3>2. CASE p # NewProcess
      <4>1. thread_count'[p] = thread_count[p]
            /\ running_thread'[p] = running_thread[p]
        BY <1>0, <1>1, <3>2 DEF TypeOK, CreateKernelProcess
      <4> QED BY <1>0, <2>3, <3>2, <4>1 DEF Queued, QueuesAgree
    <3> QED BY <3>1, <3>2
  <2>10. \A d \in Cores :
           IF processq'[d] = <<>> THEN running_process'[d] = NULL
           ELSE running_process'[d] \in Members(processq'[d])
    <3> SUFFICES ASSUME NEW d \in Cores
                 PROVE  IF processq'[d] = <<>> THEN running_process'[d] = NULL
                        ELSE running_process'[d] \in Members(processq'[d])
      OBVIOUS
    <3>1. CASE d = c
      <4>1. /\ Members(processq'[c]) = Members(q) \cup {NewProcess}
            /\ processq'[c] # <<>>
        BY <2>1, <2>2, <2>4, MembersAppend
      <4>2. running_process'[c] = RunningAfter(c, NewProcess)
        BY <1>0, <1>1, <2>2 DEF TypeOK, CreateKernelProcess
      <4>3. running_process[c] = NULL \/ running_process[c] \in Members(q)
        BY <1>0, <2>2 DEF Queued, QueuesAgree
      <4> QED BY <3>1, <4>1, <4>2, <4>3 DEF RunningAfter
    <3>2. CASE d # c
      <4>1. running_process'[d] = running_process[d]
        BY <1>0, <1>1, <3>2 DEF TypeOK, CreateKernelProcess
      <4> QED BY <1>0, <2>4, <3>2, <4>1 DEF Queued, QueuesAgree
    <3> QED BY <3>1, <3>2
  <2>11. \A d, e \in Cores :
           \A i \in 1 .. Len(processq'[d]), j \in 1 .. Len(processq'[e]) :
             processq'[d][i] = processq'[e][j] => d = e /\ i = j
    <3> SUFFICES ASSUME NEW d \in Cores, NEW e \in Cores,
                        NEW i \in 1 .. Len(processq'[d]),
                        NEW j \in 1 .. Len(processq'[e]),
                        processq'[d][i] = processq'[e][j]
                 PROVE  d = e /\ i = j
      OBVIOUS
    <3>1. \/ i \in 1 .. Len(processq[d]) /\ processq'[d][i] = processq[d][i]
          \/ d = c /\ i = Len(q) + 1 /\ processq'[d][i] = NewProcess
      BY <2>4, <2>7
    <3>2. \/ j \in 1 .. Len(processq[e]) /\ processq'[e][j] = processq[e][j]
          \/ e = c /\ j = Len(q) + 1 /\ processq'[e][j] = NewProcess
      BY <2>4, <2>7
    <3> QED BY <1>0, <2>5, <3>1, <3>2 DEF Queued, QueuesAgree
  <2> HIDE DEF c, q
  <2> QED BY <2>6, <2>8, <2>9, <2>10, <2>11 DEF Queued, QueuesAgree
<1>2. CASE CreateThread
  <2>1. /\ made + 1 \in 1 .. Len(Script)
        /\ Script[made + 1] = [proc |-> NewProcess, thread |-> NewThread]
        /\ NewProcess \in Processes /\ NewThread \in Threads
        /\ made \in Nat /\ made' = made + 1
    BY <1>0, <1>2, NextEntry DEF CreateThread, TypeOK
  <2>2. /\ threadq'[NewProcess] = Append(threadq[NewProcess], NewThread)
        /\ threadq[NewProcess] # <<>> /\ threadq[NewProcess] \in Seq(Threads)
        /\ \A p \in Processes : p # NewProcess => threadq'[p] = threadq[p]
        /\ thread_count'[NewProcess] = thread_count[NewProcess] + 1
        /\ \A p \in Processes : p # NewProcess => thread_count'[p] = thread_count[p]
        /\ UNCHANGED <<running_thread, processq, running_process>>
    BY <1>0, <1>2, <2>1 DEF TypeOK, CreateThread
  <2>3. /\ Members(threadq'[NewProcess]) = Members(threadq[NewProcess]) \cup {NewThread}
        /\ threadq'[NewProcess] # <<>>
        /\ Len(threadq'[NewProcess]) = Len(threadq[NewProcess]) + 1
    BY <2>1, <2>2, MembersAppend
  <2>4. \A p \in Processes : \A i \in 1 .. Len(threadq'[p]) :
          \E k \in 1 .. made' :
            Script[k] = [proc |-> p, thread |-> threadq'[p][i]]
    <3> SUFFICES ASSUME NEW p \in Processes, NEW i \in 1 .. Len(threadq'[p])
                 PROVE  \E k \in 1 .. made' :
                          Script[k] = [proc |-> p, thread |-> threadq'[p][i]]
      OBVIOUS
    <3>1. CASE p = NewProcess /\ i = Len(threadq[p]) + 1
      <4>1. threadq'[p][i] = NewThread BY <2>1, <2>2, <3>1
      <4>2. made + 1 \in 1 .. made' BY <2>1
      <4> QED BY <2>1, <3>1, <4>1, <4>2
    <3>2. CASE ~(p = NewProcess /\ i = Len(threadq[p]) + 1)
      <4>1. i \in 1 .. Len(threadq[p]) /\ threadq'[p][i] = threadq[p][i]
        <5>1. CASE p # NewProcess BY <2>2, <5>1
        <5>2. CASE p = NewProcess
          <6>1. i \in 1 .. Len(threadq[p]) + 1 /\ Len(threadq[p]) \in Nat
            BY <2>2, <2>3, <5>2
          <6>2. i \in 1 .. Len(threadq[p]) BY <3>2, <5>2, <6>1
          <6> QED BY <2>1, <2>2, <5>2, <6>2
        <5> QED BY <5>1, <5>2
      <4>2. PICK k \in 1 .. made :
              Script[k] = [proc |-> p, thread |-> threadq[p][i]]
        BY <1>0, <4>1 DEF Queued
      <4>3. k \in 1 .. made' BY <2>1
      <4> QED BY <4>1, <4>2, <4>3
    <3> QED BY <3>1, <3>2
  <2>5. \A p \in Processes :
          /\ threadq[p] # <<>> => threadq'[p] # <<>>
          /\ thread_count'[p] = Len(threadq'[p])
          /\ threadq'[p] # <<>> => running_thread'[p] \in Members(threadq'[p])
    BY <1>0, <2>2, <2>3 DEF Queued, QueuesAgree
  <2>6. \A d \in Cores : \A i \in 1 .. Len(processq'[d]) :
          threadq'[processq'[d][i]] # <<>>
    <3> SUFFICES ASSUME NEW d \in Cores, NEW i \in 1 .. Len(processq[d])
                 PROVE  threadq'[processq[d][i]] # <<>>
      BY <2>2
    <3>1. processq[d] \in Seq(Processes) BY <1>0 DEF TypeOK
    <3>2. processq[d][i] \in Processes BY <3>1
    <3>3. threadq[processq[d][i]] # <<>> BY <1>0 DEF Queued
    <3> QED BY <2>5, <3>2, <3>3
  <2> QED BY <1>0, <2>2, <2>4, <2>5, <2>6 DEF Queued, QueuesAgree
<1>3. CASE YieldStartup
  BY <1>0, <1>3 DEF Queued, QueuesAgree, YieldStartup, Path
<1>4. CASE YieldSwitch
  <2>1. UNCHANGED <<made, threadq, processq, thread_count>>
    BY <1>4 DEF YieldSwitch, Path
  <2>2. \A p \in Processes :
          threadq[p] # <<>> => running_thread'[p] \in Members(threadq[p])
    BY <1>0, <1>4, SwitchFacts DEF Queued, QueuesAgree
  <2>3. \A c \in Cores :
          IF processq[c] = <<>> THEN running_process'[c] = NULL
          ELSE running_process'[c] \in Members(processq[c])
    <3> SUFFICES ASSUME NEW c \in Cores
                 PROVE  IF processq[c] = <<>> THEN running_process'[c] = NULL
                        ELSE running_process'[c] \in Members(processq[c])
      OBVIOUS
    <3>1. CASE c = bsp
      <4>1. running_process'[c] = NextProcess BY <1>0, <1>4, <3>1, SwitchFacts DEF TypeOK
      <4>2. NextProcess \in Members(processq[c]) BY <1>0, <1>4, <3>1, SwitchFacts
      <4>3. processq[c] # <<>> BY <4>2 DEF Members
      <4> QED BY <4>1, <4>2, <4>3
    <3>2. CASE c # bsp
      <4>1. running_process'[c] = running_process[c]
        BY <1>0, <1>4, <3>2, SwitchFacts DEF TypeOK
      <4> QED BY <1>0, <4>1 DEF Queued, QueuesAgree
    <3> QED BY <3>1, <3>2
  <2> QED BY <1>0, <2>1, <2>2, <2>3 DEF Queued, QueuesAgree
<1>5. CASE Unqueued
  BY <1>0, <1>5 DEF Queued, QueuesAgree, Unqueued, queues
<1> QED BY <1>1, <1>2, <1>3, <1>4, <1>5, UnqueuedSteps

\* Two processes never share a thread, and two cores never share a process.
LEMMA Unshared ==
  ASSUME TypeOK, Queued
  PROVE  /\ \A p, q \in Processes :
              Members(threadq[p]) \cap Members(threadq[q]) # {} => p = q
         /\ \A c, d \in Cores :
              Members(processq[c]) \cap Members(processq[d]) # {} => c = d
<1>1. ASSUME NEW p \in Processes, NEW q \in Processes,
             Members(threadq[p]) \cap Members(threadq[q]) # {}
      PROVE  p = q
  <2>1. PICK i \in 1 .. Len(threadq[p]), j \in 1 .. Len(threadq[q]) :
          threadq[p][i] = threadq[q][j]
    BY <1>1 DEF Members
  <2>2. PICK k \in 1 .. made :
          Script[k] = [proc |-> p, thread |-> threadq[p][i]]
    BY DEF Queued
  <2>3. PICK l \in 1 .. made :
          Script[l] = [proc |-> q, thread |-> threadq[q][j]]
    BY DEF Queued
  <2>4. made \in 0 .. Len(Script) /\ Len(Script) \in Nat
    BY SchedAssumption DEF TypeOK
  <2>5. k \in 1 .. Len(Script) /\ l \in 1 .. Len(Script) BY <2>4
  <2>6. Script[k].thread = Script[l].thread BY <2>1, <2>2, <2>3
  <2>7. k = l BY <2>5, <2>6, SchedAssumption
  <2>8. Script[k].proc = p /\ Script[l].proc = q BY <2>2, <2>3
  <2> QED BY <2>7, <2>8
<1>2. ASSUME NEW c \in Cores, NEW d \in Cores,
             Members(processq[c]) \cap Members(processq[d]) # {}
      PROVE  c = d
  BY <1>2 DEF Queued, QueuesAgree, Members
<1> QED BY <1>1, <1>2

\* The thread created next is on no queue yet.
LEMMA NewThreadUnqueued ==
  ASSUME TypeOK, Queued, made < Len(Script)
  PROVE  \A p \in Processes : NewThread \notin Members(threadq[p])
<1> SUFFICES ASSUME NEW p \in Processes, NewThread \in Members(threadq[p])
             PROVE  FALSE
  OBVIOUS
<1>1. PICK i \in 1 .. Len(threadq[p]) : threadq[p][i] = NewThread BY DEF Members
<1>2. PICK k \in 1 .. made : Script[k] = [proc |-> p, thread |-> NewThread]
  BY <1>1 DEF Queued
<1>3. made \in 0 .. Len(Script) /\ Len(Script) \in Nat
  BY SchedAssumption DEF TypeOK
<1>4. k \in 1 .. Len(Script) /\ made + 1 \in 1 .. Len(Script) /\ k # made + 1
  BY <1>3
<1>5. Script[k].thread = Script[made + 1].thread
  BY <1>2, NextEntry
<1> QED BY <1>4, <1>5, SchedAssumption

\* THREAD_STARTUP stays on threads that a core starts with.
LEMMA StartupsStep == IInv /\ [Next]_vars => Startups'
<1> SUFFICES ASSUME IInv, [Next]_vars, NEW t \in Threads, startup'[t]
             PROVE  \E c \in Cores :
                      /\ running_process'[c] # NULL
                      /\ t = running_thread'[running_process'[c]]
  BY DEF Startups
<1> USE SchedAssumption
<1>0. TypeOK /\ Queued /\ Startups BY DEF IInv
<1>s. ASSUME startup[t]
      PROVE  \E c \in Cores : running_process[c] # NULL
                               /\ t = running_thread[running_process[c]]
  BY <1>0, <1>s DEF Startups
<1>1. CASE CreateKernelProcess
  <2>1. NewProcess \in Processes /\ NewThread \in Threads
    BY <1>0, <1>1, NextEntry DEF CreateKernelProcess
  <2>2. current_core_idx \in Cores BY <1>0 DEF TypeOK
  <2>3. CASE t = NewThread
    <3>1. startup'[t] = StartsUp(current_core_idx)
      BY <1>0, <1>1, <2>1, <2>3 DEF TypeOK, CreateKernelProcess
    <3>2. running_process[current_core_idx] = NULL BY <3>1 DEF StartsUp
    <3>3. running_process'[current_core_idx] = NewProcess
      BY <1>0, <1>1, <2>2, <3>2 DEF TypeOK, CreateKernelProcess, RunningAfter
    <3>4. running_thread'[NewProcess] = NewThread
      BY <1>0, <1>1, <2>1 DEF TypeOK, CreateKernelProcess
    <3> QED BY <2>1, <2>2, <2>3, <3>3, <3>4
  <2>4. CASE t # NewThread
    <3>1. startup[t] BY <1>0, <1>1, <2>4 DEF TypeOK, CreateKernelProcess
    <3>2. PICK c \in Cores : /\ running_process[c] # NULL
                             /\ t = running_thread[running_process[c]]
      BY <1>s, <3>1
    <3>3. running_process'[c] = running_process[c]
      BY <1>0, <1>1, <3>2 DEF TypeOK, CreateKernelProcess, RunningAfter
    <3>4. /\ running_process[c] \in Processes
          /\ threadq[running_process[c]] # <<>>
      <4>1. /\ running_process[c] \in Processes
            /\ running_process[c] \in Members(processq[c])
        BY <1>0, <3>2, ScheduledQueued
      <4> QED BY <1>0, <4>1 DEF Queued, Members
    <3>5. running_thread'[running_process[c]] = running_thread[running_process[c]]
      BY <1>0, <1>1, <3>4 DEF TypeOK, CreateKernelProcess
    <3> QED BY <3>2, <3>3, <3>5
  <2> QED BY <2>3, <2>4
<1>2. CASE CreateThread
  <2>1. NewThread \in Threads BY <1>0, <1>2, NextEntry DEF CreateThread
  <2>2. startup[t] BY <1>0, <1>2, <2>1 DEF TypeOK, CreateThread
  <2> QED BY <1>2, <1>s, <2>2 DEF CreateThread
<1>3. CASE YieldStartup
  <2>1. startup[t] BY <1>0, <1>3 DEF TypeOK, YieldStartup
  <2> QED BY <1>3, <1>s, <2>1 DEF YieldStartup
<1>4. CASE YieldSwitch
  <2>1. startup[t] /\ ~startup[Scheduled] BY <1>4 DEF YieldSwitch
  <2>2. PICK c \in Cores : /\ running_process[c] # NULL
                           /\ t = running_thread[running_process[c]]
    BY <1>s, <2>1
  <2>3. c # bsp BY <2>1, <2>2 DEF Scheduled
  <2>4. running_process'[c] = running_process[c]
    BY <1>0, <1>4, <2>2, <2>3, SwitchFacts DEF TypeOK
  <2>5. /\ running_process[c] \in Members(processq[c])
        /\ running_process[c] \in Processes
    BY <1>0, <2>2, ScheduledQueued
  <2>6. running_process[bsp] \in Members(processq[bsp]) /\ bsp \in Cores
    BY <1>0, <1>4, SwitchFacts
  <2>7. running_process[c] # running_process[bsp]
    BY <1>0, <2>3, <2>5, <2>6, Unshared
  <2>8. running_thread'[running_process[c]] = running_thread[running_process[c]]
    BY <1>0, <1>4, <2>5, <2>7, SwitchFacts
  <2> QED BY <2>2, <2>4, <2>8
<1>5. CASE Unqueued
  BY <1>5, <1>s DEF Unqueued, queues
<1> QED BY <1>1, <1>2, <1>3, <1>4, <1>5, UnqueuedSteps

-----------------------------------------------------------------------------
(* Contexts *)

\* The thread a switch goes to does not carry THREAD_STARTUP.
LEMMA NextThreadStarted ==
  ASSUME IInv, YieldSwitch
  PROVE  ~startup[NextThread]
<1> SUFFICES ASSUME startup[NextThread] PROVE FALSE OBVIOUS
<1>0. TypeOK /\ Queued /\ Startups BY DEF IInv
<1>1. /\ NextThread \in Threads /\ NextThread \in Members(threadq[NextProcess])
      /\ NextProcess \in Processes /\ NextProcess \in Members(processq[bsp])
      /\ bsp \in Cores
  BY <1>0, SwitchFacts
<1>2. PICK c \in Cores : /\ running_process[c] # NULL
                         /\ NextThread = running_thread[running_process[c]]
  BY <1>0, <1>1 DEF Startups
<1>3. /\ running_process[c] \in Members(processq[c])
      /\ running_process[c] \in Processes
      /\ NextThread \in Members(threadq[running_process[c]])
  BY <1>0, <1>2, ScheduledQueued
<1>4. running_process[c] = NextProcess BY <1>0, <1>1, <1>3, Unshared
<1>5. c = bsp BY <1>0, <1>1, <1>3, <1>4, Unshared
<1>6. NextThread = Scheduled BY <1>2, <1>5 DEF Scheduled
<1> QED BY <1>6 DEF YieldSwitch

\* Saved contexts stay with their threads, and the processor executes what
\* is scheduled.
LEMMA OwnedStep == IInv /\ [Next]_vars => Owned'
<1> SUFFICES ASSUME IInv, [Next]_vars PROVE Owned' OBVIOUS
<1> USE SchedAssumption
<1>0. TypeOK /\ Queued /\ Startups /\ Owned BY DEF IInv
<1>g. ASSUME Unqueued, cpu'.stack = cpu.stack, phase = "none", phase' = "none"
      PROVE  Owned'
  BY <1>0, <1>g DEF Owned, Unqueued, queues, BeforeYield, AfterYield, Scheduled
<1>h. ASSUME Unqueued, cpu' = cpu, frame' = frame, phase \in BeforeYield,
             phase' \in BeforeYield
      PROVE  Owned'
  BY <1>0, <1>h DEF Owned, Unqueued, queues, BeforeYield, AfterYield, Scheduled
<1>i. ASSUME Unqueued, cpu' = cpu, frame' = frame, phase \in AfterYield,
             phase' \in AfterYield
      PROVE  Owned'
  BY <1>0, <1>i DEF Owned, Unqueued, queues, BeforeYield, AfterYield, Scheduled
<1>c. cpu \in Contexts /\ frame \in Contexts BY <1>0 DEF TypeOK
<1>1. CASE CreateKernelProcess \/ CreateThread
  <2>1. /\ NewProcess \in Processes /\ NewThread \in Threads
        /\ phase = "none" /\ phase' = "none" /\ cpu.stack = Boot /\ cpu' = cpu
        /\ bsp' = bsp /\ bsp \in Cores
        /\ made < Len(Script)
    BY <1>0, <1>1, NextEntry DEF CreateKernelProcess, CreateThread, InSetup, TypeOK
  <2>2. tf' = [tf EXCEPT ![NewThread] = EntryFrame(NewThread)]
    BY <1>1 DEF CreateKernelProcess, CreateThread
  <2>3. \A t \in Threads : tf'[t].stack = t
    BY <1>0, <2>1, <2>2 DEF Owned, TypeOK, EntryFrame
  <2>4. ASSUME running_process[bsp] # NULL
        PROVE  /\ running_process'[bsp] = running_process[bsp]
               /\ Scheduled' = Scheduled
               /\ startup'[Scheduled]
    <3>1. /\ running_process[bsp] \in Processes
          /\ running_process[bsp] \in Members(processq[bsp])
          /\ Scheduled \in Threads
          /\ Scheduled \in Members(threadq[running_process[bsp]])
      BY <1>0, <2>1, <2>4, ScheduledQueued
    <3>2. Scheduled # NewThread BY <1>0, <2>1, <3>1, NewThreadUnqueued
    <3>3. startup[Scheduled] BY <1>0, <2>1, <2>4, <3>1 DEF Owned
    <3>4. startup'[Scheduled] = startup[Scheduled]
      BY <1>0, <1>1, <3>1, <3>2 DEF TypeOK, CreateKernelProcess, CreateThread
    <3>5. running_process'[bsp] = running_process[bsp]
      BY <1>0, <1>1, <2>1, <2>4
      DEF TypeOK, CreateKernelProcess, CreateThread, RunningAfter
    <3>6. threadq[running_process[bsp]] # <<>>
      BY <1>0, <2>1, <3>1 DEF Queued, Members
    <3>7. running_thread'[running_process[bsp]] = running_thread[running_process[bsp]]
      BY <1>0, <1>1, <3>1, <3>6 DEF TypeOK, CreateKernelProcess, CreateThread
    <3> QED BY <2>1, <3>3, <3>4, <3>5, <3>7 DEF Scheduled
  <2>5. ASSUME running_process[bsp] = NULL, running_process'[bsp] # NULL
        PROVE  startup'[Scheduled']
    <3>1. CreateKernelProcess BY <1>1, <2>5 DEF CreateThread
    <3>2. current_core_idx = bsp
      BY <1>0, <2>1, <2>5, <3>1 DEF TypeOK, CreateKernelProcess
    <3>3. running_process'[bsp] = NewProcess
      BY <1>0, <2>1, <2>5, <3>1, <3>2 DEF TypeOK, CreateKernelProcess, RunningAfter
    <3>4. running_thread'[NewProcess] = NewThread
      BY <1>0, <2>1, <3>1 DEF TypeOK, CreateKernelProcess
    <3>5. startup'[NewThread]
      BY <1>0, <2>1, <2>5, <3>1, <3>2 DEF TypeOK, CreateKernelProcess, StartsUp
    <3> QED BY <2>1, <3>3, <3>4, <3>5 DEF Scheduled
  <2> QED BY <2>1, <2>3, <2>4, <2>5 DEF Owned, BeforeYield, AfterYield
<1>3. CASE StartTimer
  BY <1>3, <1>c, <1>g DEF StartTimer, InSetup, Unqueued, Contexts
<1>4. CASE Sti
  BY <1>4, <1>c, <1>g DEF Sti, Unqueued, Contexts
<1>5. CASE CallAcquire
  BY <1>5, <1>c, <1>g DEF CallAcquire, ThreadAt, ThreadFrame, Unqueued, Contexts
<1>6. CASE MutexAcquire
  <2>1. cpu'.stack = cpu.stack
    BY <1>6, <1>c DEF MutexAcquire, Contexts
  <2> QED BY <1>6, <1>g, <2>1 DEF MutexAcquire, ThreadAt, ThreadFrame, Unqueued
<1>7. CASE Printk
  BY <1>7, <1>c, <1>g DEF Printk, ThreadAt, ThreadFrame, Unqueued, Contexts
<1>8. CASE MutexRelease
  BY <1>8, <1>c, <1>g DEF MutexRelease, ThreadAt, ThreadFrame, Unqueued, Contexts
<1>9. CASE Halted
  BY <1>9, <1>g DEF Halted, Unqueued
<1>10. CASE Deliver
  <2>1. frame'.stack = cpu.stack /\ cpu' = cpu BY <1>10, <1>c DEF Deliver, Contexts
  <2>2. phase = "none" /\ phase' = "enter" /\ UNCHANGED <<bsp, queues>>
    BY <1>10 DEF Deliver, Deliverable, Interruptible
  <2> QED BY <1>0, <2>1, <2>2
          DEF Owned, queues, BeforeYield, AfterYield, Scheduled
<1>11. CASE IrqEnter
  BY <1>11, <1>h DEF IrqEnter, Path, Unqueued, BeforeYield
<1>12. CASE IrqExit
  BY <1>12, <1>h DEF IrqExit, Path, Unqueued, BeforeYield
<1>13. CASE TrapAcquire
  BY <1>13, <1>h DEF TrapAcquire, Path, Unqueued, BeforeYield
<1>14. CASE YieldStartup
  <2>1. /\ running_process[bsp] # NULL /\ bsp' = bsp /\ phase' = "eoi"
        /\ UNCHANGED <<running_process, running_thread, tf>>
        /\ frame' = tf[Scheduled]
    BY <1>14 DEF YieldStartup, Path
  <2>2. Scheduled \in Threads BY <1>0, <2>1, ScheduledQueued DEF TypeOK
  <2>3. ~startup'[Scheduled] BY <1>0, <1>14, <2>2 DEF TypeOK, YieldStartup
  <2>4. Scheduled' = Scheduled BY <2>1 DEF Scheduled
  <2> QED BY <1>0, <2>1, <2>3, <2>4 DEF Owned, BeforeYield, AfterYield
<1>15. CASE YieldSwitch
  <2>1. /\ phase = "yield" /\ phase' = "eoi" /\ bsp' = bsp
        /\ running_process[bsp] # NULL /\ ~startup[Scheduled]
        /\ startup' = startup
    BY <1>15 DEF YieldSwitch, Path
  <2>2. frame.stack = Scheduled BY <1>0, <2>1 DEF Owned, BeforeYield
  <2>3. /\ tf' = [tf EXCEPT ![Scheduled] = frame] /\ Scheduled \in Threads
        /\ frame' = tf'[NextThread] /\ Scheduled' = NextThread
        /\ running_process'[bsp] = NextProcess /\ NextProcess \in Processes
    BY <1>0, <1>15, SwitchFacts DEF TypeOK
  <2>4. \A t \in Threads : tf'[t].stack = t
    BY <1>0, <2>2, <2>3 DEF Owned, TypeOK
  <2>5. ~startup'[Scheduled'] BY <1>15, <2>1, <2>3, NextThreadStarted
  <2>6. running_process'[bsp'] # NULL BY <2>1, <2>3
  <2>7. frame' = tf'[Scheduled'] BY <2>3
  <2> QED BY <2>1, <2>4, <2>5, <2>6, <2>7 DEF Owned, BeforeYield, AfterYield
<1>16. CASE YieldFault
  BY <1>0, <1>16 DEF Owned, YieldFault, Path, queues, BeforeYield, AfterYield
<1>17. CASE SendEoi
  BY <1>17, <1>i DEF SendEoi, Path, Unqueued, AfterYield
<1>18. CASE TrapRelease
  BY <1>18, <1>i DEF TrapRelease, Path, Unqueued, AfterYield
<1>19. CASE Iret
  <2>1. /\ phase = "iret" /\ phase' = "none" /\ cpu' = frame
        /\ UNCHANGED <<bsp, queues>>
    BY <1>19 DEF Iret
  <2>2. /\ running_process[bsp] # NULL /\ ~startup[Scheduled]
        /\ frame = tf[Scheduled]
    BY <1>0, <2>1 DEF Owned, AfterYield
  <2>3. Scheduled \in Threads BY <1>0, <2>2, ScheduledQueued DEF TypeOK
  <2>4. cpu'.stack = Scheduled BY <1>0, <2>1, <2>2, <2>3 DEF Owned
  <2> QED BY <1>0, <2>1, <2>2, <2>4
          DEF Owned, queues, BeforeYield, AfterYield, Scheduled
<1>20. CASE DeviceInterrupt
  <2>1. cpu'.stack = cpu.stack
    BY <1>20, <1>c DEF DeviceInterrupt, Contexts
  <2> QED BY <1>20, <1>g, <2>1
          DEF DeviceInterrupt, Interruptible, ThreadFrame, Unqueued
<1>21. CASE UNCHANGED vars
  BY <1>0, <1>21 DEF Owned, vars, queues, timer, BeforeYield, AfterYield, Scheduled
<1> QED BY <1>21, <1>1, <1>3, <1>4, <1>5, <1>6, <1>7, <1>8, <1>9, <1>10, <1>11,
           <1>12, <1>13, <1>14, <1>15, <1>16, <1>17, <1>18, <1>19, <1>20
        DEF Next, SchedStart, ThreadStep, Interrupt

\* printk is only ever resumed with something left to draw.
LEMMA DrawingStep == IInv /\ [Next]_vars => Drawing'
<1> SUFFICES ASSUME IInv, [Next]_vars PROVE Drawing' OBVIOUS
<1> USE SchedAssumption
<1>0. TypeOK /\ Queued /\ Drawing BY DEF IInv
<1>c. cpu \in Contexts /\ frame \in Contexts BY <1>0 DEF TypeOK
<1>1. CASE CreateKernelProcess \/ CreateThread
  <2>1. /\ tf' = [tf EXCEPT ![NewThread] = EntryFrame(NewThread)]
        /\ UNCHANGED <<cpu, frame>>
    BY <1>1 DEF CreateKernelProcess, CreateThread
  <2>2. \A t \in Threads : tf'[t] = tf[t] \/ tf'[t] = EntryFrame(NewThread)
    BY <1>0, <2>1 DEF TypeOK
  <2> QED BY <1>0, <2>1, <2>2 DEF Drawing, WellFormed, EntryFrame
<1>2. CASE YieldSwitch
  <2>1. /\ tf' = [tf EXCEPT ![Scheduled] = frame] /\ frame' = tf'[NextThread]
        /\ NextThread \in Threads /\ cpu' = cpu
    BY <1>0, <1>2, SwitchFacts DEF YieldSwitch, Path
  <2>2. \A t \in Threads : tf'[t] = tf[t] \/ tf'[t] = frame
    BY <1>0, <2>1 DEF TypeOK
  <2> QED BY <1>0, <2>1, <2>2 DEF Drawing, WellFormed
<1>3. CASE YieldStartup
  <2>1. Scheduled \in Threads
    BY <1>0, <1>3, ScheduledQueued DEF TypeOK, YieldStartup
  <2> QED BY <1>0, <1>3, <2>1 DEF Drawing, YieldStartup, Path, WellFormed
<1>4. CASE MutexAcquire
  <2>1. WellFormed(cpu')
    <3>1. CASE lock BY <1>0, <1>4, <3>1 DEF MutexAcquire, Drawing, WellFormed
    <3>2. CASE ~lock
      <4>1. PICK n \in 1 .. MaxPrint :
              cpu' = [cpu EXCEPT !.pt = "print", !.left = n]
        BY <1>4, <3>2 DEF MutexAcquire
      <4>2. cpu'.left = n BY <1>c, <4>1 DEF Contexts
      <4> QED BY <4>2 DEF WellFormed
    <3> QED BY <3>1, <3>2
  <2> QED BY <1>0, <1>4, <2>1 DEF MutexAcquire, ThreadFrame, queues, Drawing, WellFormed
<1>5. CASE Printk
  <2>1. /\ cpu'.left = cpu.left - 1
        /\ cpu'.pt = IF cpu.left = 1 THEN "release" ELSE "print"
        /\ cpu.left \in 0 .. MaxPrint /\ cpu.left > 0
    BY <1>0, <1>5, <1>c DEF Printk, ThreadAt, Contexts, Drawing, WellFormed
  <2>2. WellFormed(cpu') BY <2>1 DEF WellFormed
  <2> QED BY <1>0, <1>5, <2>2 DEF Printk, ThreadFrame, queues, Drawing, WellFormed
<1>6. CASE StartTimer \/ Sti \/ CallAcquire \/ MutexRelease
  <2>1. cpu'.pt # "print" /\ UNCHANGED <<frame, tf>>
    BY <1>6, <1>c
    DEF StartTimer, Sti, CallAcquire, MutexRelease, ThreadFrame, queues, Contexts
  <2> QED BY <1>0, <2>1 DEF Drawing, WellFormed
<1>7. CASE Deliver
  <2>1. frame'.pt = "print" => frame' = cpu BY <1>7, <1>c DEF Deliver, Contexts
  <2> QED BY <1>0, <1>7, <2>1 DEF Drawing, WellFormed, Deliver, queues
<1>8. CASE IrqEnter \/ IrqExit \/ TrapAcquire \/ YieldFault \/ SendEoi
           \/ TrapRelease \/ Halted
  BY <1>0, <1>8
  DEF Drawing, WellFormed, IrqEnter, IrqExit, TrapAcquire, YieldFault, SendEoi,
      TrapRelease, Halted, Path, queues
<1>9. CASE Iret BY <1>0, <1>9 DEF Drawing, WellFormed, Iret, queues
<1>10. CASE DeviceInterrupt
  <2>1. (cpu'.pt = "print" => cpu' = cpu) /\ UNCHANGED <<frame, tf>>
    BY <1>10, <1>c DEF DeviceInterrupt, ThreadFrame, queues, Contexts
  <2> QED BY <1>0, <2>1 DEF Drawing, WellFormed
<1>11. CASE UNCHANGED vars
  BY <1>0, <1>11 DEF Drawing, WellFormed, vars, queues
<1> QED BY <1>1, <1>2, <1>3, <1>4, <1>5, <1>6, <1>7, <1>8, <1>9, <1>10, <1>11
        DEF Next, SchedStart, ThreadStep, Interrupt

-----------------------------------------------------------------------------
(* The printk lock *)

\* A step that moves no thread into or out of printk keeps the lock's
\* meaning.
LEMMA LockedSame ==
  ASSUME IInv, lock' = lock,
         \A t \in Threads : InPrintk(t)' <=> InPrintk(t),
         cpu'.stack = Boot => \A t \in Threads : tf'[t].pt = "top"
  PROVE  Locked'
BY DEF IInv, Locked

\* The lock byte is set exactly while one thread is in printk.
LEMMA LockedStep == IInv /\ [Next]_vars => Locked'
<1> SUFFICES ASSUME IInv, [Next]_vars PROVE Locked' OBVIOUS
<1> USE SchedAssumption
<1>0. TypeOK /\ Queued /\ Owned /\ Locked BY DEF IInv
<1>c. cpu \in Contexts /\ frame \in Contexts BY <1>0 DEF TypeOK
<1>1. CASE CreateKernelProcess \/ CreateThread
  <2>1. /\ tf' = [tf EXCEPT ![NewThread] = EntryFrame(NewThread)]
        /\ UNCHANGED <<cpu, frame, lock, phase>>
        /\ phase = "none" /\ cpu.stack = Boot
    BY <1>1 DEF CreateKernelProcess, CreateThread, InSetup
  <2>2. \A t \in Threads : tf'[t].pt = "top" /\ tf[t].pt = "top"
    BY <1>0, <2>1 DEF TypeOK, Locked, EntryFrame
  <2>3. \A t \in Threads : ~InPrintk(t)' /\ ~InPrintk(t)
    BY <2>1, <2>2 DEF InPrintk, ContextOf
  <2> QED BY <2>1, <2>2, <2>3, LockedSame
<1>2. CASE StartTimer \/ Sti \/ Halted
  <2>1. /\ cpu'.stack = cpu.stack /\ phase = "none" /\ phase' = "none"
        /\ UNCHANGED <<tf, lock>>
        /\ cpu.stack # Boot => cpu' = cpu
    BY <1>2, <1>c DEF StartTimer, Sti, Halted, InSetup, queues, Contexts
  <2>2. \A t \in Threads : InPrintk(t)' <=> InPrintk(t)
    BY <2>1 DEF InPrintk, ContextOf
  <2> QED BY <1>0, <2>1, <2>2, LockedSame DEF Locked
<1>3. CASE CallAcquire \/ Printk
  <2>1. /\ cpu'.stack = cpu.stack /\ phase = "none" /\ phase' = "none"
        /\ UNCHANGED <<tf, lock>> /\ cpu.stack \in Threads
        /\ cpu'.pt \in {"print", "release"} <=> cpu.pt \in {"print", "release"}
    BY <1>3, <1>c
    DEF CallAcquire, Printk, ThreadAt, ThreadFrame, queues, Contexts
  <2>2. \A t \in Threads : InPrintk(t)' <=> InPrintk(t)
    BY <2>1 DEF InPrintk, ContextOf
  <2> QED BY <2>1, <2>2, LockedSame
<1>4. CASE MutexAcquire
  <2>1. /\ phase = "none" /\ phase' = "none" /\ tf' = tf
        /\ cpu.stack \in Threads /\ cpu.pt = "acquire" /\ lock'
    BY <1>4 DEF MutexAcquire, ThreadAt, ThreadFrame, queues
  <2>2. CASE lock
    <3>1. cpu' = cpu /\ lock' = lock
      BY <1>0, <1>4, <2>2 DEF MutexAcquire, TypeOK
    <3>2. \A t \in Threads : InPrintk(t)' <=> InPrintk(t)
      BY <2>1, <3>1 DEF InPrintk, ContextOf
    <3> QED BY <2>1, <3>1, <3>2, LockedSame
  <2>3. CASE ~lock
    <3>1. cpu'.pt = "print" /\ cpu'.stack = cpu.stack
      BY <1>4, <1>c, <2>3 DEF MutexAcquire, Contexts
    <3>2. \A t \in Threads : ~InPrintk(t) BY <1>0, <2>3 DEF Locked
    <3>3. \A t \in Threads : InPrintk(t)' <=> t = cpu.stack
      BY <2>1, <3>1, <3>2 DEF InPrintk, ContextOf
    <3> QED BY <2>1, <3>1, <3>3 DEF Locked
  <2> QED BY <2>2, <2>3
<1>5. CASE MutexRelease
  <2>1. /\ phase = "none" /\ phase' = "none" /\ tf' = tf
        /\ cpu.stack \in Threads /\ cpu.pt = "release" /\ ~lock'
        /\ cpu'.pt = "hlt" /\ cpu'.stack = cpu.stack
    BY <1>5, <1>c DEF MutexRelease, ThreadAt, ThreadFrame, queues, Contexts
  <2>2. InPrintk(cpu.stack) BY <2>1 DEF InPrintk, ContextOf
  <2>3. \A t \in Threads : ~InPrintk(t)'
    <3> SUFFICES ASSUME NEW t \in Threads PROVE ~InPrintk(t)' OBVIOUS
    <3>1. CASE t = cpu.stack BY <2>1, <3>1 DEF InPrintk, ContextOf
    <3>2. CASE t # cpu.stack
      <4>1. ~InPrintk(t) BY <1>0, <2>1, <2>2, <3>2 DEF Locked
      <4> QED BY <2>1, <3>2, <4>1 DEF InPrintk, ContextOf
    <3> QED BY <3>1, <3>2
  <2> QED BY <2>1, <2>3 DEF Locked
<1>6. CASE Deliver
  <2>1. /\ phase = "none" /\ phase' # "none" /\ UNCHANGED <<tf, lock, cpu>>
        /\ frame'.stack = cpu.stack
        /\ frame'.pt \in {"print", "release"} <=> cpu.pt \in {"print", "release"}
    BY <1>6, <1>c
    DEF Deliver, Deliverable, Interruptible, queues, Contexts
  <2>2. \A t \in Threads : InPrintk(t)' <=> InPrintk(t)
    BY <2>1 DEF InPrintk, ContextOf
  <2> QED BY <1>0, <2>1, <2>2, LockedSame DEF Locked
<1>7. CASE IrqEnter \/ IrqExit \/ TrapAcquire \/ YieldFault \/ SendEoi
           \/ TrapRelease
  <2>1. /\ phase # "none" /\ phase' # "none"
        /\ UNCHANGED <<tf, lock, cpu, frame>>
    BY <1>7
    DEF IrqEnter, IrqExit, TrapAcquire, YieldFault, SendEoi, TrapRelease, Path,
        queues
  <2>2. \A t \in Threads : InPrintk(t)' <=> InPrintk(t)
    BY <2>1 DEF InPrintk, ContextOf
  <2> QED BY <1>0, <2>1, <2>2, LockedSame DEF Locked
<1>8. CASE YieldStartup
  <2>1. /\ phase = "yield" /\ phase' = "eoi" /\ running_process[bsp] # NULL
        /\ startup[Scheduled] /\ frame' = tf[Scheduled]
        /\ UNCHANGED <<tf, lock, cpu>>
    BY <1>8 DEF YieldStartup, Path
  <2>2. frame.stack = Boot BY <1>0, <2>1 DEF Owned, BeforeYield
  <2>3. Scheduled \in Threads BY <1>0, <2>1, ScheduledQueued DEF TypeOK
  <2>4. tf[Scheduled].stack = Scheduled BY <1>0, <2>3 DEF Owned
  <2>5. \A t \in Threads : ContextOf(t)' = tf[t] /\ ContextOf(t) = tf[t]
    BY <2>1, <2>2, <2>4 DEF ContextOf
  <2>6. \A t \in Threads : InPrintk(t)' <=> InPrintk(t)
    BY <2>5 DEF InPrintk
  <2> QED BY <1>0, <2>1, <2>6, LockedSame DEF Locked
<1>9. CASE YieldSwitch
  <2>1. /\ phase = "yield" /\ phase' = "eoi" /\ running_process[bsp] # NULL
        /\ ~startup[Scheduled] /\ UNCHANGED <<lock, cpu>>
    BY <1>9 DEF YieldSwitch, Path
  <2>2. frame.stack = Scheduled /\ cpu.stack = Scheduled
    BY <1>0, <2>1 DEF Owned, BeforeYield
  <2>3. /\ tf' = [tf EXCEPT ![Scheduled] = frame] /\ Scheduled \in Threads
        /\ NextThread \in Threads /\ frame' = tf'[NextThread]
    BY <1>0, <1>9, SwitchFacts
  <2>4. \A t \in Threads : tf'[t].stack = t
    BY <1>0, <2>2, <2>3 DEF Owned, TypeOK
  <2>5. \A t \in Threads : ContextOf(t)' = tf'[t]
    BY <2>1, <2>3, <2>4 DEF ContextOf
  <2>6. \A t \in Threads : ContextOf(t) = tf'[t]
    BY <1>0, <2>1, <2>2, <2>3 DEF ContextOf, TypeOK
  <2>7. \A t \in Threads : InPrintk(t)' <=> InPrintk(t)
    BY <2>5, <2>6 DEF InPrintk
  <2> QED BY <2>1, <2>2, <2>3, <2>7, LockedSame
<1>10. CASE Iret
  <2>1. /\ phase = "iret" /\ phase' = "none" /\ cpu' = frame
        /\ UNCHANGED <<tf, lock, frame>>
    BY <1>10 DEF Iret, queues
  <2>2. \A t \in Threads : InPrintk(t)' <=> InPrintk(t)
    BY <2>1 DEF InPrintk, ContextOf
  <2>3. frame.stack \in Threads
    <3>1. running_process[bsp] # NULL /\ frame = tf[Scheduled]
      BY <1>0, <2>1 DEF Owned, AfterYield
    <3>2. Scheduled \in Threads BY <1>0, <3>1, ScheduledQueued DEF TypeOK
    <3> QED BY <1>0, <3>1, <3>2 DEF Owned
  <2> QED BY <2>1, <2>2, <2>3, LockedSame
<1>11. CASE DeviceInterrupt
  <2>1. /\ cpu'.stack = cpu.stack /\ phase = "none" /\ phase' = "none"
        /\ UNCHANGED <<tf, lock>>
        /\ cpu'.pt \in {"print", "release"} <=> cpu.pt \in {"print", "release"}
    BY <1>11, <1>c
    DEF DeviceInterrupt, Interruptible, ThreadFrame, queues, Contexts
  <2>2. \A t \in Threads : InPrintk(t)' <=> InPrintk(t)
    BY <2>1 DEF InPrintk, ContextOf
  <2> QED BY <1>0, <2>1, <2>2, LockedSame DEF Locked
<1>12. CASE UNCHANGED vars
  BY <1>0, <1>12 DEF Locked, InPrintk, ContextOf, vars, queues
<1> QED BY <1>1, <1>2, <1>3, <1>4, <1>5, <1>6, <1>7, <1>8, <1>9, <1>10, <1>11,
           <1>12
        DEF Next, SchedStart, ThreadStep, Interrupt

-----------------------------------------------------------------------------
(* The timer *)

\* While a tick is outstanding, the passing of time keeps it outstanding.
LEMMA ElapseFacts ==
  ASSUME TypeOK, Ticking, Elapse
  PROVE  /\ irr' => count' = 0
         /\ irr \/ count > 0 => irr' \/ count' > 0
         /\ ~irr /\ count = 0 => ~irr' /\ count' = 0
         /\ count' >= count - 1
         /\ ~irr /\ count > 1 => ~irr'
<1>1. count \in Nat /\ irr \in BOOLEAN /\ (irr => count = 0)
  BY SchedAssumption DEF TypeOK, Ticking
<1>2. count' = IF count > 0 THEN count - 1 ELSE 0 BY DEF Elapse
<1>3. irr' <=> (irr \/ count = 1) BY <1>1 DEF Elapse
<1>4. CASE count = 0 BY <1>1, <1>2, <1>3, <1>4
<1>5. CASE count = 1 BY <1>1, <1>2, <1>3, <1>5
<1>6. CASE count > 1 BY <1>1, <1>2, <1>3, <1>6
<1> QED BY <1>1, <1>4, <1>5, <1>6

\* Ticks are neither lost nor doubled by any step.
LEMMA TickingStep == IInv /\ [Next]_vars => Ticking'
<1> SUFFICES ASSUME IInv, [Next]_vars PROVE Ticking' OBVIOUS
<1> USE SchedAssumption
<1>0. TypeOK /\ Queued /\ Owned /\ Ticking BY DEF IInv
<1>c. cpu \in Contexts /\ frame \in Contexts BY <1>0 DEF TypeOK
<1>1. CASE CreateKernelProcess \/ CreateThread
  BY <1>0, <1>1
  DEF CreateKernelProcess, CreateThread, Ticking, InSetup, timer, BeforeYield,
      AfterYield
<1>2. CASE StartTimer
  <2>1. /\ count' > 0 /\ ~irr' /\ phase' = "none" /\ ~InSetup' /\ ~in_service'
    BY <1>0, <1>2, <1>c
    DEF StartTimer, BeginTimer, Ticking, InSetup, Contexts
  <2> QED BY <2>1 DEF Ticking, BeforeYield, AfterYield
<1>3. CASE Sti \/ CallAcquire \/ MutexAcquire \/ Printk \/ MutexRelease \/ Halted
           \/ DeviceInterrupt
  <2>1. Elapse /\ phase = "none" /\ phase' = "none" /\ in_service' = in_service
    BY <1>3
    DEF Sti, CallAcquire, MutexAcquire, Printk, MutexRelease, Halted, ThreadAt,
        DeviceInterrupt, Interruptible, ThreadFrame
  <2>2. ~InSetup
    BY <1>3
    DEF Sti, CallAcquire, MutexAcquire, Printk, MutexRelease, Halted, ThreadAt,
        DeviceInterrupt, Interruptible, InSetup
  <2>3. ~InSetup'
    <3>1. CASE Sti \/ Halted BY <1>c, <3>1 DEF Sti, Halted, InSetup, Contexts
    <3>2. CASE CallAcquire \/ MutexAcquire \/ Printk \/ MutexRelease
      <4>1. cpu.stack \in Threads /\ cpu'.stack = cpu.stack
        BY <1>c, <3>2
        DEF CallAcquire, MutexAcquire, Printk, MutexRelease, ThreadAt, Contexts
      <4> QED BY <4>1 DEF InSetup
    <3>3. CASE DeviceInterrupt
      BY <1>c, <3>3 DEF DeviceInterrupt, Interruptible, InSetup, Contexts
    <3> QED BY <1>3, <3>1, <3>2, <3>3
  <2>4. /\ irr' => count' = 0
        /\ irr' \/ count' > 0
        /\ ~in_service'
    BY <1>0, <2>1, <2>2, ElapseFacts DEF Ticking
  <2> QED BY <2>1, <2>3, <2>4 DEF Ticking, BeforeYield, AfterYield
<1>4. CASE Deliver
  <2>1. irr /\ count' = count /\ ~irr' /\ phase' = "enter"
    BY <1>4 DEF Deliver, Deliverable
  <2> QED BY <1>0, <2>1 DEF Ticking, InSetup, BeforeYield, AfterYield
<1>5. CASE IrqEnter \/ IrqExit \/ TrapAcquire
  <2>1. Elapse /\ phase \in BeforeYield /\ phase' \in BeforeYield
    BY <1>5 DEF IrqEnter, IrqExit, TrapAcquire, Path, BeforeYield
  <2>2. ~irr' /\ count' = 0 BY <1>0, <2>1, ElapseFacts DEF Ticking
  <2> QED BY <2>1, <2>2 DEF Ticking, InSetup, BeforeYield, AfterYield
<1>6. CASE YieldFault
  <2>1. Elapse /\ phase' = "aborted" BY <1>6 DEF YieldFault, Path
  <2> QED BY <1>0, <2>1, ElapseFacts DEF Ticking, InSetup, BeforeYield, AfterYield
<1>7. CASE YieldStartup \/ YieldSwitch
  <2>1. BeginTimer /\ phase = "yield" /\ phase' = "eoi"
    BY <1>7 DEF YieldStartup, YieldSwitch, Path
  <2>2. ~irr' /\ count' > 0 BY <1>0, <2>1 DEF BeginTimer, Ticking, BeforeYield
  <2> QED BY <2>1, <2>2 DEF Ticking, InSetup, BeforeYield, AfterYield
<1>8. CASE SendEoi \/ TrapRelease
  <2>1. /\ Elapse /\ phase \in {"eoi", "unlock"} /\ phase' \in {"unlock", "iret"}
        /\ ~in_service'
    BY <1>0, <1>8 DEF SendEoi, TrapRelease, Path, Ticking
  <2>2. (irr' => count' = 0) /\ (irr' \/ count' > 0)
    BY <1>0, <2>1, ElapseFacts DEF Ticking, AfterYield
  <2> QED BY <2>1, <2>2 DEF Ticking, InSetup, BeforeYield, AfterYield
<1>9. CASE Iret
  <2>1. /\ Elapse /\ phase = "iret" /\ phase' = "none" /\ cpu' = frame
        /\ in_service' = in_service
    BY <1>9 DEF Iret
  <2>2. frame.stack \in Threads
    <3>1. running_process[bsp] # NULL /\ frame = tf[Scheduled]
      BY <1>0, <2>1 DEF Owned, AfterYield
    <3>2. Scheduled \in Threads BY <1>0, <3>1, ScheduledQueued DEF TypeOK
    <3> QED BY <1>0, <3>1, <3>2 DEF Owned
  <2>3. ~InSetup' BY <2>1, <2>2 DEF InSetup
  <2>4. (irr' => count' = 0) /\ (irr' \/ count' > 0) /\ ~in_service'
    BY <1>0, <2>1, ElapseFacts DEF Ticking, AfterYield
  <2> QED BY <2>1, <2>3, <2>4 DEF Ticking, BeforeYield, AfterYield
<1>10. CASE UNCHANGED vars
  BY <1>0, <1>10 DEF Ticking, InSetup, vars, timer
<1> QED BY <1>1, <1>2, <1>3, <1>4, <1>5, <1>6, <1>7, <1>8, <1>9, <1>10
        DEF Next, SchedStart, ThreadStep, Interrupt

-----------------------------------------------------------------------------
(* Time *)

\* With a long enough quantum the loop reaches hlt before the count runs out.
LEMMA PunctualStep == IInv /\ Timely /\ ~card /\ [Next]_vars => Punctual'
<1> SUFFICES ASSUME IInv, Timely, ~card, [Next]_vars PROVE Punctual' OBVIOUS
<1> USE SchedAssumption
<1>0. TypeOK /\ Queued /\ Owned /\ Drawing /\ Locked /\ Ticking /\ Punctual
  BY DEF IInv
<1>c. cpu \in Contexts /\ frame \in Contexts /\ count \in Nat
      /\ MinQuantum >= MaxPrint + 6
  BY <1>0 DEF TypeOK, Timely
<1>1. CASE CreateKernelProcess \/ CreateThread
  <2>1. /\ tf' = [tf EXCEPT ![NewThread] = EntryFrame(NewThread)]
        /\ phase' = "none" /\ cpu.stack = Boot /\ cpu' = cpu
        /\ derailed' = derailed
    BY <1>1 DEF CreateKernelProcess, CreateThread, InSetup
  <2>2. \A t \in Threads : tf'[t].pt = "top"
    BY <1>0, <2>1 DEF TypeOK, Punctual, EntryFrame
  <2> QED BY <1>0, <2>1, <2>2 DEF Punctual, BeforeYield
<1>2. CASE StartTimer \/ Sti
  <2>1. /\ phase' = "none" /\ cpu'.stack = Boot /\ tf' = tf
        /\ derailed' = derailed
    BY <1>2, <1>c DEF StartTimer, Sti, InSetup, queues, Contexts
  <2> QED BY <1>0, <2>1 DEF Punctual, BeforeYield
<1>t. ASSUME phase = "none", phase' = "none", Elapse, tf' = tf,
             derailed' = derailed,
             cpu'.stack # Boot =>
               /\ count - 1 >= Slack(cpu'.pt, cpu'.left)
               /\ cpu'.pt # "hlt" => ~irr /\ count > 1
      PROVE  Punctual'
  <2>1. count' >= count - 1 /\ (~irr /\ count > 1 => ~irr')
    BY <1>0, <1>t, ElapseFacts
  <2>2. count' \in Nat BY <1>0, <1>t DEF Elapse, TypeOK
  <2>3. cpu'.stack # Boot => count' >= Slack(cpu'.pt, cpu'.left)
    <3> SUFFICES ASSUME cpu'.stack # Boot
                 PROVE  count' >= Slack(cpu'.pt, cpu'.left)
      OBVIOUS
    <3>1. count - 1 >= Slack(cpu'.pt, cpu'.left) BY <1>t
    <3>2. cpu' \in Contexts BY TypeStep DEF TypeOK
    <3>3. Slack(cpu'.pt, cpu'.left) \in Int BY <3>2 DEF Slack, Contexts
    <3> QED BY <1>c, <2>1, <2>2, <3>1, <3>3
  <2> QED BY <1>0, <1>t, <2>1, <2>3 DEF Punctual, BeforeYield
<1>3. CASE CallAcquire
  <2>1. /\ cpu.stack \in Threads /\ cpu.pt = "top"
        /\ cpu'.pt = "acquire" /\ cpu'.stack = cpu.stack
        /\ phase = "none" /\ phase' = "none" /\ Elapse /\ tf' = tf
        /\ derailed' = derailed
    BY <1>3, <1>c DEF CallAcquire, ThreadAt, ThreadFrame, queues, Contexts
  <2>2. count >= MaxPrint + 3 /\ ~irr
    BY <1>0, <2>1 DEF Punctual, Slack
  <2>3. Slack(cpu'.pt, cpu'.left) = MaxPrint + 2 BY <2>1 DEF Slack
  <2> QED BY <1>c, <1>t, <2>1, <2>2, <2>3
<1>4. CASE MutexAcquire
  <2>1. /\ cpu.stack \in Threads /\ cpu.pt = "acquire"
        /\ phase = "none" /\ phase' = "none" /\ Elapse /\ tf' = tf
        /\ derailed' = derailed
    BY <1>4 DEF MutexAcquire, ThreadAt, ThreadFrame, queues
  <2>2. \A t \in Threads : ~InPrintk(t)
    BY <1>0, <2>1 DEF InPrintk, ContextOf, Punctual
  <2>3. ~lock BY <1>0, <2>2 DEF Locked
  <2>4. PICK n \in 1 .. MaxPrint : cpu' = [cpu EXCEPT !.pt = "print", !.left = n]
    BY <1>4, <2>3 DEF MutexAcquire
  <2>5. cpu'.pt = "print" /\ cpu'.left = n /\ cpu'.stack = cpu.stack
    BY <1>c, <2>4 DEF Contexts
  <2>6. count >= MaxPrint + 2 /\ ~irr
    BY <1>0, <2>1 DEF Punctual, Slack
  <2>7. Slack(cpu'.pt, cpu'.left) = n + 1 BY <2>5 DEF Slack
  <2> QED BY <1>c, <1>t, <2>1, <2>5, <2>6, <2>7
<1>5. CASE Printk
  <2>1. /\ cpu.stack \in Threads /\ cpu.pt = "print"
        /\ phase = "none" /\ phase' = "none" /\ Elapse /\ tf' = tf
        /\ derailed' = derailed
    BY <1>5 DEF Printk, ThreadAt, ThreadFrame, queues
  <2>2. /\ cpu'.left = cpu.left - 1 /\ cpu.left \in 0 .. MaxPrint
        /\ cpu'.pt = IF cpu.left = 1 THEN "release" ELSE "print"
        /\ cpu.left > 0
    BY <1>0, <1>5, <1>c, <2>1 DEF Printk, Contexts, Drawing, WellFormed
  <2>3. count >= cpu.left + 1 /\ ~irr
    BY <1>0, <2>1 DEF Punctual, Slack
  <2>4. count - 1 >= Slack(cpu'.pt, cpu'.left) BY <1>c, <2>2, <2>3 DEF Slack
  <2> QED BY <1>c, <1>t, <2>1, <2>2, <2>3, <2>4
<1>6. CASE MutexRelease
  <2>1. /\ cpu.stack \in Threads /\ cpu.pt = "release" /\ cpu'.pt = "hlt"
        /\ phase = "none" /\ phase' = "none" /\ Elapse /\ tf' = tf
        /\ derailed' = derailed
    BY <1>6, <1>c DEF MutexRelease, ThreadAt, ThreadFrame, queues, Contexts
  <2>2. count >= 1 BY <1>0, <2>1 DEF Punctual, Slack
  <2>3. Slack(cpu'.pt, cpu'.left) = 0 BY <2>1 DEF Slack
  <2> QED BY <1>c, <1>t, <2>1, <2>2, <2>3
<1>7. CASE Halted
  <2>1. /\ cpu' = cpu /\ cpu.pt = "hlt" /\ count > 0
        /\ phase = "none" /\ phase' = "none" /\ Elapse /\ tf' = tf
        /\ derailed' = derailed
    BY <1>7 DEF Halted, queues
  <2>2. Slack(cpu'.pt, cpu'.left) = 0 BY <2>1 DEF Slack
  <2> QED BY <1>c, <1>t, <2>1, <2>2
<1>8. CASE Deliver
  <2>1. /\ irr /\ phase = "none" /\ phase' = "enter"
        /\ UNCHANGED <<tf, derailed>>
    BY <1>8 DEF Deliver, Deliverable, Interruptible, queues
  <2>2. frame'.stack # Boot => frame'.pt = "top"
    <3>1. frame'.stack = cpu.stack BY <1>8, <1>c DEF Deliver, Contexts
    <3>2. cpu.stack # Boot => cpu.pt = "hlt" BY <1>0, <2>1 DEF Punctual
    <3> QED BY <1>8, <1>c, <3>1, <3>2 DEF Deliver, Contexts
  <2> QED BY <1>0, <2>1, <2>2 DEF Punctual, BeforeYield
<1>9. CASE IrqEnter \/ IrqExit \/ TrapAcquire
  <2>1. /\ phase \in BeforeYield /\ phase' \in BeforeYield
        /\ UNCHANGED <<tf, frame, derailed>>
    BY <1>9 DEF IrqEnter, IrqExit, TrapAcquire, Path, BeforeYield, queues
  <2> QED BY <1>0, <2>1 DEF Punctual, BeforeYield
<1>10. CASE YieldStartup
  <2>1. BeginTimer /\ phase' = "eoi" /\ UNCHANGED <<tf, derailed>>
    BY <1>10 DEF YieldStartup, Path
  <2>2. count' >= MinQuantum BY <2>1 DEF BeginTimer
  <2> QED BY <1>0, <2>1, <2>2 DEF Punctual, BeforeYield
<1>11. CASE YieldSwitch
  <2>1. /\ BeginTimer /\ phase = "yield" /\ phase' = "eoi"
        /\ derailed' = derailed
        /\ running_process[bsp] # NULL /\ ~startup[Scheduled]
    BY <1>11 DEF YieldSwitch, Path
  <2>2. tf' = [tf EXCEPT ![Scheduled] = frame] /\ Scheduled \in Threads
    BY <1>0, <1>11, SwitchFacts
  <2>3. frame.stack = Scheduled BY <1>0, <2>1 DEF Owned, BeforeYield
  <2>4. frame.pt = "top" BY <1>0, <2>1, <2>2, <2>3 DEF Punctual, BeforeYield
  <2>5. \A t \in Threads : tf'[t].pt = "top"
    BY <1>0, <2>2, <2>4 DEF TypeOK, Punctual
  <2>6. count' >= MinQuantum BY <2>1 DEF BeginTimer
  <2> QED BY <1>0, <2>1, <2>5, <2>6 DEF Punctual, BeforeYield
<1>12. CASE YieldFault
  BY <1>0, <1>12 DEF YieldFault, Path, Punctual, BeforeYield, queues
<1>13. CASE SendEoi \/ TrapRelease
  <2>1. /\ Elapse /\ UNCHANGED <<tf, derailed>>
        /\ \/ phase = "eoi" /\ phase' = "unlock"
           \/ phase = "unlock" /\ phase' = "iret"
    BY <1>13 DEF SendEoi, TrapRelease, Path, queues
  <2>2. count' >= count - 1 /\ count' \in Nat
    BY <1>0, <2>1, ElapseFacts DEF Elapse, TypeOK
  <2> QED BY <1>0, <1>c, <2>1, <2>2 DEF Punctual, BeforeYield
<1>14. CASE Iret
  <2>1. /\ Elapse /\ phase = "iret" /\ phase' = "none" /\ cpu' = frame /\ tf' = tf
        /\ derailed' \in {FALSE, frame.pt \in CalleePoints}
    BY <1>14 DEF Iret, queues
  <2>2. /\ running_process[bsp] # NULL /\ frame = tf[Scheduled]
    BY <1>0, <2>1 DEF Owned, AfterYield
  <2>3. Scheduled \in Threads BY <1>0, <2>2, ScheduledQueued DEF TypeOK
  <2>4. frame.pt = "top" BY <1>0, <2>2, <2>3 DEF Punctual
  <2>5. ~derailed' BY <2>1, <2>4 DEF CalleePoints
  <2>6. count >= MaxPrint + 4 BY <1>0, <1>c, <2>1 DEF Punctual
  <2>7. ~irr BY <1>0, <1>c, <2>6 DEF Ticking
  <2>8. count' >= MaxPrint + 3 /\ ~irr'
    BY <1>0, <1>c, <2>1, <2>6, <2>7, ElapseFacts DEF Elapse
  <2>9. Slack(cpu'.pt, cpu'.left) = MaxPrint + 3 BY <2>1, <2>4 DEF Slack
  <2> QED BY <1>0, <2>1, <2>5, <2>8, <2>9 DEF Punctual, BeforeYield
<1>15. CASE UNCHANGED vars
  BY <1>0, <1>15 DEF Punctual, vars, queues, timer
<1>16. CASE DeviceInterrupt BY <1>16 DEF DeviceInterrupt
<1> QED BY <1>16, <1>1, <1>2, <1>3, <1>4, <1>5, <1>6, <1>7, <1>8, <1>9, <1>10, <1>11,
           <1>12, <1>13, <1>14, <1>15
        DEF Next, SchedStart, ThreadStep, Interrupt

-----------------------------------------------------------------------------
(* The theorems *)

\* IInv is inductive: it holds initially and every step of the boot code, of
\* a thread and of the interrupt path preserves it.
THEOREM Invariance == Spec => []IInv
<1>1. Init => IInv BY InitIInv
<1>2. IInv /\ [Next]_vars => IInv'
  <2> SUFFICES ASSUME IInv, [Next]_vars PROVE IInv' OBVIOUS
  <2>1. Timely' = Timely /\ card' = card BY CardStays DEF Timely
  <2> QED BY <2>1, TypeStep, DrawingStep, QueuedStep, StartupsStep, OwnedStep,
             LockedStep, TickingStep, PunctualStep
          DEF IInv
<1> QED BY <1>1, <1>2, PTL DEF Spec

\* Every variable of the scheduler keeps its type, whatever the workload.
THEOREM TypeCorrect == Spec => []TypeOK
<1>1. IInv => TypeOK BY DEF IInv
<1> QED BY <1>1, Invariance, PTL

\* next_process and next_thread never leave their queues and thread_count
\* counts, for any number of processes, threads and cores.
THEOREM QueuesCorrect == Spec => []QueuesAgree
<1>1. IInv => QueuesAgree BY DEF IInv, Queued
<1> QED BY <1>1, Invariance, PTL

\* sched_yield() saves every context into the control block of the thread
\* it belongs to and resumes the thread the queues say is running.
THEOREM ContextsCorrect == Spec => []OwnContexts
<1>1. IInv => OwnContexts
  <2> SUFFICES ASSUME IInv PROVE OwnContexts OBVIOUS
  <2>1. Owned /\ TypeOK BY DEF IInv
  <2>2. Boot \notin Threads BY SchedAssumption
  <2>3. \A t \in Threads : tf[t].stack = t BY <2>1 DEF Owned
  <2>4. ASSUME phase = "none", cpu.stack # Boot
        PROVE  /\ running_process[bsp] # NULL
               /\ cpu.stack = Scheduled
               /\ ~startup[Scheduled]
    BY <2>1, <2>4 DEF Owned
  <2> QED BY <2>3, <2>4 DEF OwnContexts
<1> QED BY <1>1, Invariance, PTL

\* The spin lock around printk excludes, however threads are preempted.
THEOREM PrintCorrect == Spec => []PrintExclusive
<1>1. IInv => PrintExclusive BY DEF IInv, Locked, PrintExclusive
<1> QED BY <1>1, Invariance, PTL

\* The one-shot timer never goes silent.
THEOREM TickCorrect == Spec => []TickOutstanding
<1>1. IInv => TickOutstanding
  BY DEF IInv, Ticking, TickOutstanding, AfterYield
<1> QED BY <1>1, Invariance, PTL

\* The bootstrap processor stops in a page fault only when it was given no
\* process.
THEOREM AbortCorrect == Spec => []AbortsOnlyIdle
<1>1. IInv => AbortsOnlyIdle
  <2> SUFFICES ASSUME IInv, phase = "aborted" PROVE processq[bsp] = <<>>
    BY DEF AbortsOnlyIdle
  <2>1. running_process[bsp] = NULL /\ bsp \in Cores
    BY DEF IInv, Owned, TypeOK
  <2>2. processq[bsp] \in Seq(Processes) BY <2>1 DEF IInv, TypeOK
  <2>3. NULL \notin Members(processq[bsp])
    BY <2>2, MembersType, SchedAssumption
  <2> QED BY <2>1, <2>3 DEF IInv, Queued, QueuesAgree
<1> QED BY <1>1, Invariance, PTL

\* When the shortest quantum outlasts the longest loop iteration by the tail
\* of the interrupt path, and no network card interrupts, no context is ever resumed inside a callee.
THEOREM DerailCorrect == Spec => []NeverDerailed
<1>1. IInv => NeverDerailed BY DEF IInv, Punctual, NeverDerailed
<1> QED BY <1>1, Invariance, PTL

=============================================================================
