-------------------------------- MODULE Smp --------------------------------
(***************************************************************************)
(* Bringing up the application processors while the bootstrap processor    *)
(* already schedules: smp_init(), ap_entry() and this_core() (amd64/smp.c),*)
(* load_tss() (amd64/tssasm.s), the calibration and the one-shot of the    *)
(* LAPIC timer (amd64/lapic.c) and hpet_sleep() (dev/timer/hpet.c).        *)
(*                                                                         *)
(* Every core is a process.  They meet at three spin locks: ap_lock around *)
(* the body of ap_entry(), this_core_lock in this_core() and sleep_lock in *)
(* hpet_sleep().  What the bootstrap processor does between two timer      *)
(* interrupts, and the switch itself, is module Sched; here only the calls *)
(* that take a shared lock matter.                                         *)
(*                                                                         *)
(* Time: code takes none, sleeping and running a quantum do.  Time passes  *)
(* (Tick) when every core waits for a lock, for the HPET or for its timer. *)
(***************************************************************************)
EXTENDS Integers

CONSTANTS
  NCores,     \* smp_resp->cpu_count
  Bsp,        \* index of the bootstrap processor in g_corelist
  SleepLen    \* the 10 ms of a calibration, in units of Tick

ASSUME SmpAssumption ==
  /\ NCores \in Nat \ {0}
  /\ Bsp \in 0 .. NCores - 1
  /\ SleepLen \in Nat \ {0}

Cores == 0 .. NCores - 1
APs   == Cores \ {Bsp}

VARIABLES
  pc,              \* where each core is
  cont,            \* what a core does with the result of this_core()
  next_cpu,        \* smp_init(): index of the loop that releases the APs
  released,        \* cores whose goto_address was set
  ap_lock, this_core_lock, sleep_lock,   \* the three mutex_t bytes
  tss_busy,        \* type field of GDT_TSS in g_corelist[i].gdt is "busy"
  elapsed,         \* LAPIC count of each core since calibration started it
  wait,            \* how far each core's HPET goal is away
  lapic_freq,      \* cpu_core_t.lapic_freq: units counted in 10 ms
  count            \* the bootstrap processor's armed one-shot

locks == <<ap_lock, this_core_lock, sleep_lock>>
clock == <<elapsed, wait, count>>
vars  == <<pc, cont, next_cpu, released, locks, tss_busy, lapic_freq, clock>>

Labels == {"off", "smp_init", "ap_acquire", "load_tss", "calibrate",
           "sl_acquire", "sl_wait", "tc_acquire", "tc_search", "freq", "arm",
           "run", "enter", "exit", "yield", "ap_release", "parked", "aborted"}

\* smp.c: static size_t core_idx = 0, which nothing advances.
core_idx == 0

Init ==
  /\ pc = [c \in Cores |-> IF c = Bsp THEN "smp_init" ELSE "off"]
  /\ cont = [c \in Cores |-> "freq"]
  /\ next_cpu = 0
  /\ released = {}
  /\ ap_lock = FALSE
  /\ this_core_lock = FALSE
  /\ sleep_lock = FALSE
  /\ tss_busy = [c \in Cores |-> FALSE]
  /\ elapsed = [c \in Cores |-> 0]
  /\ wait = [c \in Cores |-> 0]
  /\ lapic_freq = [c \in Cores |-> 0]
  /\ count = 0

Goto(c, l) == pc' = [pc EXCEPT ![c] = l]

\* Core c calls this_core() and continues at l with its result.
CallThisCore(c, l) ==
  /\ Goto(c, "tc_acquire")
  /\ cont' = [cont EXCEPT ![c] = l]

-----------------------------------------------------------------------------
(* smp_init() and ap_entry() *)

\* Mutant: the loop goes one entry too far.
SmpInitPast ==
  /\ pc[Bsp] = "smp_init"
  /\ IF next_cpu <= NCores
       THEN /\ released' = released \cup ({next_cpu} \ {Bsp})
            /\ next_cpu' = next_cpu + 1
            /\ pc' = pc
       ELSE /\ Goto(Bsp, "calibrate")
            /\ UNCHANGED <<released, next_cpu>>
  /\ UNCHANGED <<cont, locks, tss_busy, lapic_freq, clock>>

\* smp_init(): one round of the loop that points the APs at ap_entry; init()
\* then returns and sched_start() begins its first calibration.
SmpInit ==
  /\ pc[Bsp] = "smp_init"
  /\ IF next_cpu < NCores
       THEN /\ released' = released \cup ({next_cpu} \ {Bsp})
            /\ next_cpu' = next_cpu + 1
            /\ pc' = pc
       ELSE /\ Goto(Bsp, "calibrate")
            /\ UNCHANGED <<released, next_cpu>>
  /\ UNCHANGED <<cont, locks, tss_busy, lapic_freq, clock>>

\* ap_entry(): an AP finds its goto_address, loads its PML4 and the IDT.
ApEntry(c) ==
  /\ pc[c] = "off"
  /\ c \in released
  /\ Goto(c, "ap_acquire")
  /\ UNCHANGED <<cont, next_cpu, released, locks, tss_busy, lapic_freq, clock>>

\* Mutant: ap_lock is taken without testing it.
ApAcquireUntested(c) ==
  /\ pc[c] = "ap_acquire"
  /\ ap_lock' = TRUE
  /\ Goto(c, "load_tss")
  /\ UNCHANGED <<cont, next_cpu, released, this_core_lock, sleep_lock,
                 tss_busy, lapic_freq, clock>>

\* mutex_acquire(&ap_lock).
ApAcquire(c) ==
  /\ pc[c] = "ap_acquire"
  /\ ~ap_lock
  /\ ap_lock' = TRUE
  /\ Goto(c, "load_tss")
  /\ UNCHANGED <<cont, next_cpu, released, this_core_lock, sleep_lock,
                 tss_busy, lapic_freq, clock>>

\* load_gdt(g_corelist[core_idx].gdtr) and load_tss(): ltr marks an available
\* TSS descriptor busy ...
LoadTss(c) ==
  /\ pc[c] = "load_tss"
  /\ ~tss_busy[core_idx]
  /\ tss_busy' = [tss_busy EXCEPT ![core_idx] = TRUE]
  /\ Goto(c, "calibrate")
  /\ UNCHANGED <<cont, next_cpu, released, locks, lapic_freq, clock>>

\* ... and raises #GP on a busy one; general_protection_fault() aborts.
LoadTssFault(c) ==
  /\ pc[c] = "load_tss"
  /\ tss_busy[core_idx]
  /\ Goto(c, "aborted")
  /\ UNCHANGED <<cont, next_cpu, released, locks, tss_busy, lapic_freq, clock>>

\* mutex_release(&ap_lock), then cli; hlt for good.
ApRelease(c) ==
  /\ pc[c] = "ap_release"
  /\ ap_lock' = FALSE
  /\ Goto(c, "parked")
  /\ UNCHANGED <<cont, next_cpu, released, this_core_lock, sleep_lock,
                 tss_busy, lapic_freq, clock>>

-----------------------------------------------------------------------------
(* lapic_timer_calibrate(), hpet_sleep(), this_core() *)

\* TICR = -1: the LAPIC count starts before hpet_sleep() has its lock.
Calibrate(c) ==
  /\ pc[c] = "calibrate"
  /\ elapsed' = [elapsed EXCEPT ![c] = 0]
  /\ Goto(c, "sl_acquire")
  /\ UNCHANGED <<cont, next_cpu, released, locks, tss_busy, lapic_freq, wait,
                 count>>

\* hpet_sleep(): mutex_acquire(&sleep_lock), then compute the goal.
SleepAcquire(c) ==
  /\ pc[c] = "sl_acquire"
  /\ ~sleep_lock
  /\ sleep_lock' = TRUE
  /\ wait' = [wait EXCEPT ![c] = SleepLen]
  /\ Goto(c, "sl_wait")
  /\ UNCHANGED <<cont, next_cpu, released, ap_lock, this_core_lock, tss_busy,
                 lapic_freq, elapsed, count>>

\* Mutant: hpet_sleep() returns one unit before the goal.
SleepDoneEarly(c) ==
  /\ pc[c] = "sl_wait"
  /\ wait[c] <= 1
  /\ sleep_lock' = FALSE
  /\ CallThisCore(c, "freq")
  /\ UNCHANGED <<next_cpu, released, ap_lock, this_core_lock, tss_busy,
                 lapic_freq, clock>>

\* The goal is reached: mutex_release(&sleep_lock).
SleepDone(c) ==
  /\ pc[c] = "sl_wait"
  /\ wait[c] = 0
  /\ sleep_lock' = FALSE
  /\ CallThisCore(c, "freq")
  /\ UNCHANGED <<next_cpu, released, ap_lock, this_core_lock, tss_busy,
                 lapic_freq, clock>>

\* this_core(): mutex_acquire(&this_core_lock).
ThisCoreAcquire(c) ==
  /\ pc[c] = "tc_acquire"
  /\ ~this_core_lock
  /\ this_core_lock' = TRUE
  /\ Goto(c, "tc_search")
  /\ UNCHANGED <<cont, next_cpu, released, ap_lock, sleep_lock, tss_busy,
                 lapic_freq, clock>>

\* Mutant: this_core() leaves its lock held when it finds the core.
ThisCoreReturnLocked(c) ==
  /\ pc[c] = "tc_search"
  /\ Goto(c, cont[c])
  /\ UNCHANGED <<cont, next_cpu, released, locks, tss_busy, lapic_freq, clock>>

\* this_core(): the search finds the caller's LAPIC id and releases the lock.
ThisCoreReturn(c) ==
  /\ pc[c] = "tc_search"
  /\ this_core_lock' = FALSE
  /\ Goto(c, cont[c])
  /\ UNCHANGED <<cont, next_cpu, released, ap_lock, sleep_lock, tss_busy,
                 lapic_freq, clock>>

\* this_core()->lapic_freq = what the LAPIC counted; the count is stopped.
\* sched_begin_timer() continues with the one-shot, ap_entry() with its end.
SetFreq(c) ==
  /\ pc[c] = "freq"
  /\ lapic_freq' = [lapic_freq EXCEPT ![c] = elapsed[c]]
  /\ IF c = Bsp THEN CallThisCore(c, "arm")
                ELSE Goto(c, "ap_release") /\ cont' = cont
  /\ UNCHANGED <<next_cpu, released, locks, tss_busy, clock>>

-----------------------------------------------------------------------------
(* The bootstrap processor's timer *)

\* lapic_timer_oneshot(20): twice what was counted in 10 ms.
Arm ==
  /\ pc[Bsp] = "arm"
  /\ count' = 2 * lapic_freq[Bsp]
  /\ Goto(Bsp, "run")
  /\ UNCHANGED <<cont, next_cpu, released, locks, tss_busy, lapic_freq,
                 elapsed, wait>>

\* The timer interrupt ends the quantum: irq_enter() asks for this_core().
TimerInterrupt ==
  /\ pc[Bsp] = "run"
  /\ count = 0
  /\ CallThisCore(Bsp, "enter")
  /\ UNCHANGED <<next_cpu, released, locks, tss_busy, lapic_freq, clock>>

\* irq_enter() sets P_IRQ; irq_exit() asks again.
IrqEnter ==
  /\ pc[Bsp] = "enter"
  /\ CallThisCore(Bsp, "exit")
  /\ UNCHANGED <<next_cpu, released, locks, tss_busy, lapic_freq, clock>>

\* irq_exit() clears P_IRQ; sched_yield() asks again.
IrqExit ==
  /\ pc[Bsp] = "exit"
  /\ CallThisCore(Bsp, "yield")
  /\ UNCHANGED <<next_cpu, released, locks, tss_busy, lapic_freq, clock>>

\* sched_yield() switches and calibrates for the next quantum.
Yield ==
  /\ pc[Bsp] = "yield"
  /\ Goto(Bsp, "calibrate")
  /\ UNCHANGED <<cont, next_cpu, released, locks, tss_busy, lapic_freq, clock>>

-----------------------------------------------------------------------------
(* Time *)

Waiting(c) ==
  \/ pc[c] \in {"off", "parked", "aborted"}
  \/ pc[c] = "ap_acquire" /\ ap_lock
  \/ pc[c] = "sl_acquire" /\ sleep_lock
  \/ pc[c] = "tc_acquire" /\ this_core_lock
  \/ pc[c] = "sl_wait" /\ wait[c] > 0
  \/ pc[c] = "run" /\ count > 0

\* The LAPIC counts of the cores that calibrate, the HPET and the armed
\* one-shot advance by one unit.
Tick ==
  /\ \A c \in Cores : Waiting(c)
  /\ elapsed' = [c \in Cores |-> IF pc[c] \in {"sl_acquire", "sl_wait"}
                                   THEN elapsed[c] + 1 ELSE elapsed[c]]
  /\ wait' = [c \in Cores |-> IF pc[c] = "sl_wait" THEN wait[c] - 1 ELSE wait[c]]
  /\ count' = IF pc[Bsp] = "run" THEN count - 1 ELSE count
  /\ UNCHANGED <<pc, cont, next_cpu, released, locks, tss_busy, lapic_freq>>

CoreStep(c) ==
  \/ ApEntry(c) \/ ApAcquire(c) \/ LoadTss(c) \/ LoadTssFault(c) \/ ApRelease(c)
  \/ Calibrate(c) \/ SleepAcquire(c) \/ SleepDone(c)
  \/ ThisCoreAcquire(c) \/ ThisCoreReturn(c) \/ SetFreq(c)

BspStep == SmpInit \/ Arm \/ TimerInterrupt \/ IrqEnter \/ IrqExit \/ Yield

Next == (\E c \in Cores : CoreStep(c)) \/ BspStep \/ Tick

Spec == Init /\ [][Next]_vars

\* Every core keeps executing and time keeps passing.
FairSpec ==
  /\ Spec
  /\ \A c \in Cores : WF_vars(CoreStep(c))
  /\ WF_vars(BspStep)
  /\ WF_vars(Tick)

-----------------------------------------------------------------------------
(* Properties *)

TypeOK ==
  /\ pc \in [Cores -> Labels]
  /\ cont \in [Cores -> {"freq", "arm", "enter", "exit", "yield"}]
  /\ next_cpu \in 0 .. NCores
  /\ released \subseteq APs
  /\ ap_lock \in BOOLEAN
  /\ this_core_lock \in BOOLEAN
  /\ sleep_lock \in BOOLEAN
  /\ tss_busy \in [Cores -> BOOLEAN]
  /\ elapsed \in [Cores -> Nat]
  /\ wait \in [Cores -> 0 .. SleepLen]
  /\ lapic_freq \in [Cores -> Nat]
  /\ count \in Nat

\* The code each lock protects.
InApSection(c) ==
  c # Bsp /\ pc[c] \in {"load_tss", "calibrate", "sl_acquire", "sl_wait",
                         "tc_acquire", "tc_search", "freq", "ap_release",
                         "aborted"}
InSleep(c)    == pc[c] = "sl_wait"
InThisCore(c) == pc[c] = "tc_search"

\* Each of the three locks is held exactly while one core is in the code it
\* protects, and never two: also for an AP that aborts inside, which keeps
\* ap_lock for ever.
LocksExclusive ==
  /\ \A c, d \in Cores :
       /\ InApSection(c) /\ InApSection(d) => c = d
       /\ InSleep(c) /\ InSleep(d) => c = d
       /\ InThisCore(c) /\ InThisCore(d) => c = d
  /\ ap_lock <=> \E c \in Cores : InApSection(c)
  /\ sleep_lock <=> \E c \in Cores : InSleep(c)
  /\ this_core_lock <=> \E c \in Cores : InThisCore(c)

\* A calibration never measures less than 10 ms and never more than 20: a
\* core waits for at most one other core's sleep.  ap_lock would not be enough
\* for that, as one AP could sleep directly after another; but all load the
\* same TSS, so that only the first gets as far as calibrating.
CalibrationBounded ==
  \A c \in Cores : lapic_freq[c] # 0 => lapic_freq[c] \in SleepLen .. 2 * SleepLen

\* tss.h of load_tss: "Loads TSS for any other processor", for each of them.
EveryTssLoads == \A c \in APs : pc[c] # "aborted"

\* Once smp_init() has released an application processor, one of them gets all
\* the way through ap_entry(), past the three locks the others and the
\* bootstrap processor contend for.
ApParks == (released # {}) ~> (\E c \in APs : pc[c] = "parked")

\* The bootstrap processor keeps scheduling whatever the application
\* processors do, also when one aborts inside ap_entry().
BspKeepsTicking == []<>(pc[Bsp] = "yield")

=============================================================================
