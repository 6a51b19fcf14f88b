----------------------------- MODULE SmpProofs -----------------------------
(***************************************************************************)
(* Proofs about Smp for every number of cores: type correctness, mutual    *)
(* exclusion at the three spin locks the cores meet at, and how far a      *)
(* calibration can be off.                                                 *)
(***************************************************************************)
EXTENDS Smp, TLAPS

\* The code of each role: only an AP runs ap_entry(), only the bootstrap
\* processor the scheduler; an AP wants this_core() for lapic_freq alone.
ApOnly  == {"off", "ap_acquire", "load_tss", "ap_release", "parked", "aborted"}
BspOnly == {"smp_init", "arm", "run", "enter", "exit", "yield"}
Placed ==
  /\ pc[Bsp] \notin ApOnly
  /\ \A c \in APs : pc[c] \notin BspOnly /\ cont[c] = "freq"

\* The inductive invariant.  Exclusion alone is not inductive: ap_entry() run
\* by the bootstrap processor would set ap_lock outside InApSection.
IInv == TypeOK /\ Placed /\ LocksExclusive

\* The bootstrap processor is a core, and so is the one core_idx names.
LEMMA BspCore == Bsp \in Cores /\ core_idx \in Cores
BY SmpAssumption DEF Cores, core_idx

\* The invariant holds while smp_init() has released no AP: nobody is in the
\* code a lock protects.
LEMMA InitIInv == Init => IInv
<1> SUFFICES ASSUME Init PROVE IInv OBVIOUS
<1>1. TypeOK
  <2>1. pc \in [Cores -> Labels] BY DEF Init, Labels
  <2>2. tss_busy \in [Cores -> BOOLEAN] BY DEF Init
  <2>3. wait \in [Cores -> 0 .. SleepLen] BY SmpAssumption DEF Init
  <2>4. next_cpu \in 0 .. NCores BY SmpAssumption DEF Init
  <2>5. /\ cont \in [Cores -> {"freq", "arm", "enter", "exit", "yield"}]
        /\ elapsed \in [Cores -> Nat] /\ lapic_freq \in [Cores -> Nat]
        /\ count \in Nat /\ released \subseteq APs
    BY DEF Init
  <2>6. ap_lock \in BOOLEAN /\ this_core_lock \in BOOLEAN /\ sleep_lock \in BOOLEAN
    BY DEF Init
  <2> QED BY <2>1, <2>2, <2>3, <2>4, <2>5, <2>6 DEF TypeOK
<1>2. \A c \in Cores : pc[c] \in {"smp_init", "off"} BY DEF Init
<1>3. \A c \in Cores : ~InApSection(c) /\ ~InSleep(c) /\ ~InThisCore(c)
  BY <1>2 DEF InApSection, InSleep, InThisCore
<1>4. LocksExclusive BY <1>3 DEF Init, LocksExclusive
<1>5. Placed
  BY BspCore DEF Init, Placed, APs, ApOnly, BspOnly
<1> QED BY <1>1, <1>4, <1>5 DEF IInv

-----------------------------------------------------------------------------
(* Types *)

\* Every step of smp.c, lapic.c and hpet.c keeps the types.
LEMMA TypeStep == IInv /\ [Next]_vars => TypeOK'
<1> SUFFICES ASSUME TypeOK, [Next]_vars PROVE TypeOK' BY DEF IInv
<1> USE BspCore, SmpAssumption
<1>g. ASSUME NEW c \in Cores, NEW l \in Labels, Goto(c, l)
      PROVE  pc' \in [Cores -> Labels]
  BY <1>g DEF Goto, TypeOK
<1>t. ASSUME NEW c \in Cores, NEW l \in {"freq", "arm", "enter", "exit", "yield"},
             CallThisCore(c, l)
      PROVE  /\ pc' \in [Cores -> Labels]
             /\ cont' \in [Cores -> {"freq", "arm", "enter", "exit", "yield"}]
  BY <1>t, <1>g DEF CallThisCore, TypeOK, Labels
<1>1. ASSUME NEW c \in Cores, CoreStep(c) PROVE TypeOK'
  <2>1. CASE ApEntry(c)
    BY <1>g, <2>1 DEF ApEntry, TypeOK, locks, clock, Labels
  <2>2. CASE ApAcquire(c)
    BY <1>g, <2>2 DEF ApAcquire, TypeOK, clock, Labels
  <2>3. CASE LoadTss(c)
    BY <1>g, <2>3 DEF LoadTss, TypeOK, locks, clock, Labels
  <2>4. CASE LoadTssFault(c)
    BY <1>g, <2>4 DEF LoadTssFault, TypeOK, locks, clock, Labels
  <2>5. CASE ApRelease(c)
    BY <1>g, <2>5 DEF ApRelease, TypeOK, clock, Labels
  <2>6. CASE Calibrate(c)
    BY <1>g, <2>6 DEF Calibrate, TypeOK, locks, Labels
  <2>7. CASE SleepAcquire(c)
    BY <1>g, <2>7 DEF SleepAcquire, TypeOK, Labels
  <2>8. CASE SleepDone(c)
    BY <1>t, <2>8 DEF SleepDone, TypeOK, clock
  <2>9. CASE ThisCoreAcquire(c)
    BY <1>g, <2>9 DEF ThisCoreAcquire, TypeOK, clock, Labels
  <2>10. CASE ThisCoreReturn(c)
    <3>1. cont[c] \in Labels BY DEF TypeOK, Labels
    <3> QED BY <1>g, <2>10, <3>1 DEF ThisCoreReturn, TypeOK, clock
  <2>11. CASE SetFreq(c)
    <3>1. /\ pc' \in [Cores -> Labels]
          /\ cont' \in [Cores -> {"freq", "arm", "enter", "exit", "yield"}]
      <4>1. CASE c = Bsp BY <1>t, <2>11, <4>1 DEF SetFreq
      <4>2. CASE c # Bsp BY <1>g, <2>11, <4>2 DEF SetFreq, TypeOK, Labels
      <4> QED BY <4>1, <4>2
    <3> QED BY <2>11, <3>1 DEF SetFreq, TypeOK, locks, clock
  <2> QED BY <1>1, <2>1, <2>2, <2>3, <2>4, <2>5, <2>6, <2>7, <2>8, <2>9, <2>10,
             <2>11
          DEF CoreStep
<1>2. CASE SmpInit
  <2>1. pc' \in [Cores -> Labels]
    BY <1>g, <1>2 DEF SmpInit, TypeOK, Labels
  <2>2. next_cpu' \in 0 .. NCores BY <1>2 DEF SmpInit, TypeOK
  <2>3. released' \subseteq APs
    <3>1. CASE next_cpu < NCores
      <4>1. next_cpu \in Cores BY <3>1 DEF TypeOK, Cores
      <4>2. {next_cpu} \ {Bsp} \subseteq APs BY <4>1 DEF APs
      <4>3. released \subseteq APs BY DEF TypeOK
      <4>4. released' = released \cup ({next_cpu} \ {Bsp}) BY <1>2, <3>1 DEF SmpInit
      <4> QED BY <4>2, <4>3, <4>4
    <3>2. CASE ~(next_cpu < NCores) BY <1>2, <3>2 DEF SmpInit, TypeOK
    <3> QED BY <3>1, <3>2
  <2> QED BY <1>2, <2>1, <2>2, <2>3 DEF SmpInit, TypeOK, locks, clock
<1>3. CASE Arm
  BY <1>3, <1>g DEF Arm, TypeOK, locks, Labels
<1>4. CASE TimerInterrupt
  BY <1>4, <1>t DEF TimerInterrupt, TypeOK, locks, clock
<1>5. CASE IrqEnter
  BY <1>5, <1>t DEF IrqEnter, TypeOK, locks, clock
<1>6. CASE IrqExit
  BY <1>6, <1>t DEF IrqExit, TypeOK, locks, clock
<1>7. CASE Yield
  BY <1>7, <1>g DEF Yield, TypeOK, locks, clock, Labels
<1>8. CASE Tick
  <2>1. elapsed' \in [Cores -> Nat] BY <1>8 DEF Tick, TypeOK
  <2>2. wait' \in [Cores -> 0 .. SleepLen]
    BY <1>8 DEF Tick, TypeOK, Waiting
  <2>3. count' \in Nat BY <1>8 DEF Tick, TypeOK, Waiting
  <2> QED BY <1>8, <2>1, <2>2, <2>3 DEF Tick, TypeOK, locks
<1>9. CASE UNCHANGED vars
  BY <1>9 DEF TypeOK, vars, locks, clock
<1> QED BY <1>1, <1>2, <1>3, <1>4, <1>5, <1>6, <1>7, <1>8, <1>9
        DEF Next, BspStep

-----------------------------------------------------------------------------
(* Roles *)

\* No step of one role leads a core into the code of the other.
LEMMA PlacedStep == IInv /\ [Next]_vars => Placed'
<1> SUFFICES ASSUME TypeOK, Placed, [Next]_vars PROVE Placed' BY DEF IInv
<1> USE BspCore
<1>g. ASSUME NEW c \in Cores, NEW l, Goto(c, l), cont' = cont,
             c = Bsp => l \notin ApOnly, c # Bsp => l \notin BspOnly
      PROVE  Placed'
  BY <1>g DEF Goto, TypeOK, Placed, APs
<1>t. ASSUME NEW c \in Cores, NEW l, CallThisCore(c, l), c = Bsp \/ l = "freq"
      PROVE  Placed'
  BY <1>t DEF CallThisCore, Goto, TypeOK, Placed, APs, ApOnly, BspOnly
<1>p. \A c \in Cores : /\ pc[c] \in ApOnly => c # Bsp
                       /\ c # Bsp => cont[c] = "freq"
  BY DEF Placed, APs
<1>1. ASSUME NEW c \in Cores, CoreStep(c) PROVE Placed'
  <2>1. CASE ApEntry(c) BY <1>g, <1>p, <2>1 DEF ApEntry, ApOnly, BspOnly
  <2>2. CASE ApAcquire(c) BY <1>g, <1>p, <2>2 DEF ApAcquire, ApOnly, BspOnly
  <2>3. CASE LoadTss(c) BY <1>g, <1>p, <2>3 DEF LoadTss, ApOnly, BspOnly
  <2>4. CASE LoadTssFault(c) BY <1>g, <1>p, <2>4 DEF LoadTssFault, ApOnly, BspOnly
  <2>5. CASE ApRelease(c) BY <1>g, <1>p, <2>5 DEF ApRelease, ApOnly, BspOnly
  <2>6. CASE Calibrate(c) BY <1>g, <1>p, <2>6 DEF Calibrate, ApOnly, BspOnly
  <2>7. CASE SleepAcquire(c) BY <1>g, <1>p, <2>7 DEF SleepAcquire, ApOnly, BspOnly
  <2>8. CASE SleepDone(c) BY <1>t, <2>8 DEF SleepDone
  <2>9. CASE ThisCoreAcquire(c) BY <1>g, <1>p, <2>9 DEF ThisCoreAcquire, ApOnly, BspOnly
  <2>10. CASE ThisCoreReturn(c)
    <3>1. cont[c] \notin ApOnly /\ (c # Bsp => cont[c] \notin BspOnly)
      BY <1>p DEF TypeOK, ApOnly, BspOnly
    <3> QED BY <1>g, <2>10, <3>1 DEF ThisCoreReturn
  <2>11. CASE SetFreq(c)
    <3>1. CASE c = Bsp BY <1>t, <2>11, <3>1 DEF SetFreq
    <3>2. CASE c # Bsp BY <1>g, <2>11, <3>2 DEF SetFreq, BspOnly
    <3> QED BY <3>1, <3>2
  <2> QED BY <1>1, <2>1, <2>2, <2>3, <2>4, <2>5, <2>6, <2>7, <2>8, <2>9, <2>10, <2>11
          DEF CoreStep
<1>2. CASE SmpInit
  <2>1. CASE pc' = pc BY <1>2, <2>1 DEF SmpInit, Placed
  <2>2. CASE Goto(Bsp, "calibrate") BY <1>2, <2>2, <1>g DEF SmpInit, ApOnly
  <2> QED BY <1>2, <2>1, <2>2 DEF SmpInit
<1>3. CASE Arm BY <1>3, <1>g DEF Arm, ApOnly
<1>4. CASE TimerInterrupt BY <1>4, <1>t DEF TimerInterrupt
<1>5. CASE IrqEnter BY <1>5, <1>t DEF IrqEnter
<1>6. CASE IrqExit BY <1>6, <1>t DEF IrqExit
<1>7. CASE Yield BY <1>7, <1>g DEF Yield, ApOnly
<1>8. CASE Tick BY <1>8 DEF Tick, Placed
<1>9. CASE UNCHANGED vars BY <1>9 DEF vars, Placed
<1> QED BY <1>1, <1>2, <1>3, <1>4, <1>5, <1>6, <1>7, <1>8, <1>9
        DEF Next, BspStep

-----------------------------------------------------------------------------
(* Locks *)

\* The code each lock protects, as places.
ApPlaces == {"load_tss", "calibrate", "sl_acquire", "sl_wait", "tc_acquire",
             "tc_search", "freq", "ap_release", "aborted"}

\* A step that moves one core, keeps it in or out of every section and leaves
\* the lock bytes alone preserves exclusion.
LEMMA Stays ==
  ASSUME TypeOK, LocksExclusive, NEW c \in Cores, NEW l, Goto(c, l),
         UNCHANGED locks,
         InApSection(c) <=> (c # Bsp /\ l \in ApPlaces),
         InSleep(c) <=> l = "sl_wait",
         InThisCore(c) <=> l = "tc_search"
  PROVE  LocksExclusive'
<1>1. \A d \in Cores : pc'[d] = IF d = c THEN l ELSE pc[d] BY DEF Goto, TypeOK
<1>2. \A d \in Cores : /\ InApSection(d)' <=> InApSection(d)
                       /\ InSleep(d)' <=> InSleep(d)
                       /\ InThisCore(d)' <=> InThisCore(d)
  BY <1>1 DEF InApSection, InSleep, InThisCore, ApPlaces
<1>3. ap_lock' = ap_lock /\ sleep_lock' = sleep_lock
      /\ this_core_lock' = this_core_lock
  BY DEF locks
<1> QED BY <1>2, <1>3 DEF LocksExclusive

\* Every step keeps each lock byte set exactly while one core is inside.
LEMMA LocksStep == IInv /\ [Next]_vars => LocksExclusive'
<1> SUFFICES ASSUME TypeOK, Placed, LocksExclusive, [Next]_vars
             PROVE  LocksExclusive'
  BY DEF IInv
<1> USE BspCore
<1>p. \A c \in Cores : /\ pc[c] \in ApOnly => c # Bsp
                       /\ pc[c] \in BspOnly => c = Bsp
                       /\ c # Bsp => cont[c] = "freq"
                       /\ pc[c] \in {"off", "ap_acquire", "load_tss", "ap_release"}
                            => c # Bsp
  BY DEF Placed, APs, ApOnly
<1>m. ASSUME NEW c \in Cores, NEW l, Goto(c, l)
      PROVE  \A d \in Cores : pc'[d] = IF d = c THEN l ELSE pc[d]
  BY <1>m DEF Goto, TypeOK
<1>1. ASSUME NEW c \in Cores, CoreStep(c) PROVE LocksExclusive'
  <2>1. CASE ApEntry(c)
    <3>1. Goto(c, "ap_acquire") /\ UNCHANGED locks BY <2>1 DEF ApEntry
    <3> QED BY <2>1, <3>1, Stays DEF ApEntry, ApPlaces, InApSection, InSleep, InThisCore
  <2>2. CASE ApAcquire(c)
    <3>1. \A d \in Cores : pc'[d] = IF d = c THEN "load_tss" ELSE pc[d]
      BY <2>2, <1>m DEF ApAcquire
    <3>2. /\ ap_lock' = TRUE
          /\ sleep_lock' = sleep_lock /\ this_core_lock' = this_core_lock
      BY <2>2 DEF ApAcquire
    <3>3. \A d \in Cores : ~InApSection(d) BY <2>2 DEF ApAcquire, LocksExclusive
    <3>4. \A d \in Cores : InApSection(d)' <=> d = c
      BY <2>2, <1>p, <3>1, <3>3 DEF ApAcquire, InApSection, InSleep, InThisCore
    <3>5. \A d \in Cores : /\ InSleep(d)' <=> InSleep(d)
                           /\ InThisCore(d)' <=> InThisCore(d)
      BY <2>2, <1>p, <3>1 DEF ApAcquire, InApSection, InSleep, InThisCore
    <3> QED BY <3>2, <3>4, <3>5 DEF LocksExclusive
  <2>3. CASE LoadTss(c)
    <3>1. Goto(c, "calibrate") /\ UNCHANGED locks BY <2>3 DEF LoadTss
    <3> QED BY <2>3, <3>1, Stays DEF LoadTss, ApPlaces, InApSection, InSleep, InThisCore
  <2>4. CASE LoadTssFault(c)
    <3>1. Goto(c, "aborted") /\ UNCHANGED locks BY <2>4 DEF LoadTssFault
    <3> QED BY <2>4, <3>1, Stays DEF LoadTssFault, ApPlaces, InApSection, InSleep, InThisCore
  <2>5. CASE ApRelease(c)
    <3>1. \A d \in Cores : pc'[d] = IF d = c THEN "parked" ELSE pc[d]
      BY <2>5, <1>m DEF ApRelease
    <3>2. /\ ap_lock' = FALSE
          /\ sleep_lock' = sleep_lock /\ this_core_lock' = this_core_lock
      BY <2>5 DEF ApRelease
    <3>3. \A d \in Cores : InApSection(d) => d = c
      BY <2>5, <1>p DEF ApRelease, LocksExclusive, InApSection, InSleep, InThisCore
    <3>4. \A d \in Cores : ~InApSection(d)'
      BY <2>5, <1>p, <3>1, <3>3 DEF ApRelease, InApSection, InSleep, InThisCore
    <3>5. \A d \in Cores : /\ InSleep(d)' <=> InSleep(d)
                           /\ InThisCore(d)' <=> InThisCore(d)
      BY <2>5, <1>p, <3>1 DEF ApRelease, InApSection, InSleep, InThisCore
    <3> QED BY <3>2, <3>4, <3>5 DEF LocksExclusive
  <2>6. CASE Calibrate(c)
    <3>1. Goto(c, "sl_acquire") /\ UNCHANGED locks BY <2>6 DEF Calibrate
    <3> QED BY <2>6, <3>1, Stays DEF Calibrate, ApPlaces, InApSection, InSleep, InThisCore
  <2>7. CASE SleepAcquire(c)
    <3>1. \A d \in Cores : pc'[d] = IF d = c THEN "sl_wait" ELSE pc[d]
      BY <2>7, <1>m DEF SleepAcquire
    <3>2. /\ sleep_lock' = TRUE
          /\ ap_lock' = ap_lock /\ this_core_lock' = this_core_lock
      BY <2>7 DEF SleepAcquire
    <3>3. \A d \in Cores : ~InSleep(d) BY <2>7 DEF SleepAcquire, LocksExclusive
    <3>4. \A d \in Cores : InSleep(d)' <=> d = c
      BY <2>7, <1>p, <3>1, <3>3 DEF SleepAcquire, InApSection, InSleep, InThisCore
    <3>5. \A d \in Cores : /\ InApSection(d)' <=> InApSection(d)
                           /\ InThisCore(d)' <=> InThisCore(d)
      BY <2>7, <1>p, <3>1 DEF SleepAcquire, InApSection, InSleep, InThisCore
    <3> QED BY <3>2, <3>4, <3>5 DEF LocksExclusive
  <2>8. CASE SleepDone(c)
    <3>1. \A d \in Cores : pc'[d] = IF d = c THEN "tc_acquire" ELSE pc[d]
      BY <2>8, <1>m DEF SleepDone, CallThisCore
    <3>2. /\ sleep_lock' = FALSE
          /\ ap_lock' = ap_lock /\ this_core_lock' = this_core_lock
      BY <2>8 DEF SleepDone
    <3>3. \A d \in Cores : InSleep(d) => d = c
      BY <2>8, <1>p DEF SleepDone, LocksExclusive, InApSection, InSleep, InThisCore
    <3>4. \A d \in Cores : ~InSleep(d)'
      BY <2>8, <1>p, <3>1, <3>3 DEF SleepDone, InApSection, InSleep, InThisCore
    <3>5. \A d \in Cores : /\ InApSection(d)' <=> InApSection(d)
                           /\ InThisCore(d)' <=> InThisCore(d)
      BY <2>8, <1>p, <3>1 DEF SleepDone, InApSection, InSleep, InThisCore
    <3> QED BY <3>2, <3>4, <3>5 DEF LocksExclusive
  <2>9. CASE ThisCoreAcquire(c)
    <3>1. \A d \in Cores : pc'[d] = IF d = c THEN "tc_search" ELSE pc[d]
      BY <2>9, <1>m DEF ThisCoreAcquire
    <3>2. /\ this_core_lock' = TRUE
          /\ ap_lock' = ap_lock /\ sleep_lock' = sleep_lock
      BY <2>9 DEF ThisCoreAcquire
    <3>3. \A d \in Cores : ~InThisCore(d) BY <2>9 DEF ThisCoreAcquire, LocksExclusive
    <3>4. \A d \in Cores : InThisCore(d)' <=> d = c
      BY <2>9, <1>p, <3>1, <3>3 DEF ThisCoreAcquire, InApSection, InSleep, InThisCore
    <3>5. \A d \in Cores : /\ InApSection(d)' <=> InApSection(d)
                           /\ InSleep(d)' <=> InSleep(d)
      BY <2>9, <1>p, <3>1 DEF ThisCoreAcquire, InApSection, InSleep, InThisCore
    <3> QED BY <3>2, <3>4, <3>5 DEF LocksExclusive
  <2>10. CASE ThisCoreReturn(c)
    <3>1. \A d \in Cores : pc'[d] = IF d = c THEN cont[c] ELSE pc[d]
      BY <2>10, <1>m DEF ThisCoreReturn
    <3>2. /\ this_core_lock' = FALSE
          /\ ap_lock' = ap_lock /\ sleep_lock' = sleep_lock
      BY <2>10 DEF ThisCoreReturn
    <3>0. cont[c] \notin {"sl_wait", "tc_search"} /\ (c # Bsp => cont[c] = "freq")
      BY <1>p DEF TypeOK
    <3>3. \A d \in Cores : InThisCore(d) => d = c
      BY <2>10, <1>p DEF ThisCoreReturn, LocksExclusive, InApSection, InSleep, InThisCore
    <3>4. \A d \in Cores : ~InThisCore(d)'
      BY <2>10, <1>p, <3>0, <3>1, <3>3 DEF ThisCoreReturn, InApSection, InSleep, InThisCore
    <3>5. \A d \in Cores : /\ InApSection(d)' <=> InApSection(d)
                           /\ InSleep(d)' <=> InSleep(d)
      BY <2>10, <1>p, <3>0, <3>1 DEF ThisCoreReturn, InApSection, InSleep, InThisCore
    <3> QED BY <3>2, <3>4, <3>5 DEF LocksExclusive
  <2>11. CASE SetFreq(c)
    <3>1. CASE c = Bsp
      <4>1. Goto(c, "tc_acquire") /\ UNCHANGED locks
        BY <2>11, <3>1 DEF SetFreq, CallThisCore
      <4> QED BY <2>11, <3>1, <4>1, Stays DEF SetFreq, InApSection, InSleep, InThisCore
    <3>2. CASE c # Bsp
      <4>1. Goto(c, "ap_release") /\ UNCHANGED locks BY <2>11, <3>2 DEF SetFreq
      <4> QED BY <2>11, <3>2, <4>1, Stays
              DEF SetFreq, ApPlaces, InApSection, InSleep, InThisCore
    <3> QED BY <3>1, <3>2
  <2> QED BY <1>1, <2>1, <2>2, <2>3, <2>4, <2>5, <2>6, <2>7, <2>8, <2>9, <2>10, <2>11
          DEF CoreStep
<1>u. ASSUME pc' = pc, UNCHANGED locks PROVE LocksExclusive'
  BY <1>u DEF LocksExclusive, locks, InApSection, InSleep, InThisCore
<1>2. CASE SmpInit
  <2>1. CASE pc' = pc BY <1>2, <1>u, <2>1 DEF SmpInit
  <2>2. CASE Goto(Bsp, "calibrate")
    BY <1>2, <2>2, Stays DEF SmpInit, InApSection, InSleep, InThisCore
  <2> QED BY <1>2, <2>1, <2>2 DEF SmpInit
<1>3. CASE Arm
  <2>1. Goto(Bsp, "run") /\ UNCHANGED locks BY <1>3 DEF Arm
  <2> QED BY <1>3, <2>1, Stays DEF Arm, InApSection, InSleep, InThisCore
<1>4. CASE TimerInterrupt
  <2>1. Goto(Bsp, "tc_acquire") /\ UNCHANGED locks BY <1>4 DEF TimerInterrupt, CallThisCore
  <2> QED BY <1>4, <2>1, Stays DEF TimerInterrupt, InApSection, InSleep, InThisCore
<1>5. CASE IrqEnter
  <2>1. Goto(Bsp, "tc_acquire") /\ UNCHANGED locks BY <1>5 DEF IrqEnter, CallThisCore
  <2> QED BY <1>5, <2>1, Stays DEF IrqEnter, InApSection, InSleep, InThisCore
<1>6. CASE IrqExit
  <2>1. Goto(Bsp, "tc_acquire") /\ UNCHANGED locks BY <1>6 DEF IrqExit, CallThisCore
  <2> QED BY <1>6, <2>1, Stays DEF IrqExit, InApSection, InSleep, InThisCore
<1>7. CASE Yield
  <2>1. Goto(Bsp, "calibrate") /\ UNCHANGED locks BY <1>7 DEF Yield
  <2> QED BY <1>7, <2>1, Stays DEF Yield, InApSection, InSleep, InThisCore
<1>8. CASE Tick BY <1>8, <1>u DEF Tick
<1>9. CASE UNCHANGED vars BY <1>9, <1>u DEF vars
<1> QED BY <1>1, <1>2, <1>3, <1>4, <1>5, <1>6, <1>7, <1>8, <1>9
        DEF Next, BspStep

-----------------------------------------------------------------------------
(* Calibration *)

\* An AP that got past load_tss(): it has marked the one TSS busy.
Past(c) == pc[c] \in {"calibrate", "sl_acquire", "sl_wait", "tc_acquire",
                      "tc_search", "freq", "ap_release", "parked"}

\* The core is between hpet_sleep() and the store of lapic_freq.
Measured(c) ==
  \/ pc[c] = "freq"
  \/ pc[c] \in {"tc_acquire", "tc_search"} /\ cont[c] = "freq"

\* The core is between the store of lapic_freq and the one-shot.
Arming(c) ==
  \/ pc[c] = "arm"
  \/ pc[c] \in {"tc_acquire", "tc_search"} /\ cont[c] = "arm"

\* Only one AP ever calibrates: all load the TSS of core_idx, and a busy one
\* stops every AP but the first.  ap_lock alone would not do: a second AP could
\* sleep directly after the first while the bootstrap processor waits.
OneAp ==
  /\ \A c \in APs : Past(c) => tss_busy[core_idx]
  /\ \A c, d \in APs : Past(c) /\ Past(d) => c = d

\* A core waiting for sleep_lock has counted no more than the part of the
\* holder's sleep that is over.
Queueing ==
  \A c \in Cores : pc[c] = "sl_acquire" =>
    /\ elapsed[c] <= SleepLen
    /\ \A d \in Cores : InSleep(d) => elapsed[c] + wait[d] <= SleepLen

\* A core that has waited for sleep_lock is next: the other one that
\* calibrates is asleep, or cannot ask for the lock again before time passes.
NextInLine ==
  /\ pc[Bsp] = "sl_acquire" /\ elapsed[Bsp] > 0 =>
       tss_busy[core_idx] /\ \A c \in APs : pc[c] \notin {"calibrate", "sl_acquire"}
  /\ \A c \in APs : pc[c] = "sl_acquire" /\ elapsed[c] > 0 =>
       \/ InSleep(Bsp) \/ Measured(Bsp) \/ Arming(Bsp)
       \/ pc[Bsp] = "run" /\ count > 0

\* What the LAPIC has counted by the end of the sleep.
Counting ==
  /\ \A c \in Cores :
       /\ InSleep(c) => elapsed[c] + wait[c] \in SleepLen .. 2 * SleepLen
       /\ Measured(c) => elapsed[c] \in SleepLen .. 2 * SleepLen
  /\ Arming(Bsp) => lapic_freq[Bsp] > 0

\* The inductive invariant of calibration, beside IInv.
CInv == OneAp /\ Queueing /\ NextInLine /\ Counting /\ CalibrationBounded

\* Values of one core's variables.
LEMMA CoreFacts ==
  ASSUME IInv
  PROVE  /\ count \in Nat /\ APs \subseteq Cores
         /\ \A c \in Cores :
              /\ c # Bsp <=> c \in APs
              /\ elapsed[c] \in Nat /\ lapic_freq[c] \in Nat
              /\ wait[c] \in 0 .. SleepLen /\ cont[c] \in {"freq", "arm", "enter", "exit", "yield"}
              /\ c # Bsp => cont[c] = "freq" /\ pc[c] \notin BspOnly
         /\ pc[Bsp] \notin ApOnly
BY BspCore DEF IInv, TypeOK, Placed, APs

\* A step that moves one core moves no other.
LEMMA Moves ==
  ASSUME IInv, NEW c \in Cores, NEW l, Goto(c, l)
  PROVE  \A d \in Cores : pc'[d] = IF d = c THEN l ELSE pc[d]
BY DEF IInv, TypeOK, Goto

\* No second AP gets past load_tss().
LEMMA OneApStep == IInv /\ CInv /\ [Next]_vars => OneAp'
<1> SUFFICES ASSUME IInv, CInv, [Next]_vars PROVE OneAp' OBVIOUS
<1> USE BspCore, CoreFacts
<1>k. ASSUME \A d \in APs : Past(d)' => Past(d), tss_busy' = tss_busy
      PROVE  OneAp'
  BY <1>k DEF CInv, OneAp
<1>m. ASSUME NEW l, Goto(Bsp, l), tss_busy' = tss_busy
      PROVE  OneAp'
  <2>1. \A d \in Cores : pc'[d] = IF d = Bsp THEN l ELSE pc[d] BY <1>m, Moves
  <2>2. \A d \in APs : Past(d)' => Past(d) BY <2>1 DEF Past
  <2> QED BY <1>k, <1>m, <2>2
<1>1. ASSUME NEW c \in Cores, CoreStep(c) PROVE OneAp'
  <2>1. CASE ApEntry(c)
    <3>1. \A d \in Cores : pc'[d] = IF d = c THEN "ap_acquire" ELSE pc[d]
      BY <2>1, Moves DEF ApEntry
    <3>2. \A d \in APs : Past(d)' => Past(d) BY <2>1, <3>1 DEF ApEntry, Past
    <3> QED BY <1>k, <2>1, <3>2 DEF ApEntry
  <2>2. CASE ApAcquire(c)
    <3>1. \A d \in Cores : pc'[d] = IF d = c THEN "load_tss" ELSE pc[d]
      BY <2>2, Moves DEF ApAcquire
    <3>2. \A d \in APs : Past(d)' => Past(d) BY <2>2, <3>1 DEF ApAcquire, Past
    <3> QED BY <1>k, <2>2, <3>2 DEF ApAcquire
  <2>3. CASE LoadTss(c)
    <3>1. \A d \in Cores : pc'[d] = IF d = c THEN "calibrate" ELSE pc[d]
      BY <2>3, Moves DEF LoadTss
    <3>2. ~tss_busy[core_idx] /\ tss_busy' = [tss_busy EXCEPT ![core_idx] = TRUE]
      BY <2>3 DEF LoadTss
    <3>3. tss_busy'[core_idx] BY <3>2 DEF IInv, TypeOK
    <3>4. \A d \in APs : ~Past(d) BY <3>2 DEF CInv, OneAp
    <3>5. \A d \in APs : Past(d)' => d = c BY <3>1, <3>4 DEF Past
    <3> QED BY <3>3, <3>5 DEF OneAp
  <2>4. CASE LoadTssFault(c)
    <3>1. \A d \in Cores : pc'[d] = IF d = c THEN "aborted" ELSE pc[d]
      BY <2>4, Moves DEF LoadTssFault
    <3>2. \A d \in APs : Past(d)' => Past(d) BY <2>4, <3>1 DEF LoadTssFault, Past
    <3> QED BY <1>k, <2>4, <3>2 DEF LoadTssFault
  <2>5. CASE ApRelease(c)
    <3>1. \A d \in Cores : pc'[d] = IF d = c THEN "parked" ELSE pc[d]
      BY <2>5, Moves DEF ApRelease
    <3>2. \A d \in APs : Past(d)' => Past(d) BY <2>5, <3>1 DEF ApRelease, Past
    <3> QED BY <1>k, <2>5, <3>2 DEF ApRelease
  <2>6. CASE Calibrate(c)
    <3>1. \A d \in Cores : pc'[d] = IF d = c THEN "sl_acquire" ELSE pc[d]
      BY <2>6, Moves DEF Calibrate
    <3>2. \A d \in APs : Past(d)' => Past(d) BY <2>6, <3>1 DEF Calibrate, Past
    <3> QED BY <1>k, <2>6, <3>2 DEF Calibrate
  <2>7. CASE SleepAcquire(c)
    <3>1. \A d \in Cores : pc'[d] = IF d = c THEN "sl_wait" ELSE pc[d]
      BY <2>7, Moves DEF SleepAcquire
    <3>2. \A d \in APs : Past(d)' => Past(d) BY <2>7, <3>1 DEF SleepAcquire, Past
    <3> QED BY <1>k, <2>7, <3>2 DEF SleepAcquire
  <2>8. CASE SleepDone(c)
    <3>1. \A d \in Cores : pc'[d] = IF d = c THEN "tc_acquire" ELSE pc[d]
      BY <2>8, Moves DEF SleepDone, CallThisCore
    <3>2. \A d \in APs : Past(d)' => Past(d) BY <2>8, <3>1 DEF SleepDone, Past
    <3> QED BY <1>k, <2>8, <3>2 DEF SleepDone
  <2>9. CASE ThisCoreAcquire(c)
    <3>1. \A d \in Cores : pc'[d] = IF d = c THEN "tc_search" ELSE pc[d]
      BY <2>9, Moves DEF ThisCoreAcquire
    <3>2. \A d \in APs : Past(d)' => Past(d) BY <2>9, <3>1 DEF ThisCoreAcquire, Past
    <3> QED BY <1>k, <2>9, <3>2 DEF ThisCoreAcquire
  <2>10. CASE ThisCoreReturn(c)
    <3>1. \A d \in Cores : pc'[d] = IF d = c THEN cont[c] ELSE pc[d]
      BY <2>10, Moves DEF ThisCoreReturn
    <3>2. \A d \in APs : Past(d)' => Past(d) BY <2>10, <3>1 DEF ThisCoreReturn, Past
    <3> QED BY <1>k, <2>10, <3>2 DEF ThisCoreReturn
  <2>11. CASE SetFreq(c)
    <3>1. \A d \in Cores : pc'[d] =
             IF d = c THEN IF c = Bsp THEN "tc_acquire" ELSE "ap_release" ELSE pc[d]
      BY <2>11, Moves DEF SetFreq, CallThisCore
    <3>2. \A d \in APs : Past(d)' => Past(d) BY <2>11, <3>1 DEF SetFreq, Past
    <3> QED BY <1>k, <2>11, <3>2 DEF SetFreq
  <2> QED BY <1>1, <2>1, <2>2, <2>3, <2>4, <2>5, <2>6, <2>7, <2>8, <2>9, <2>10, <2>11
          DEF CoreStep
<1>2. CASE SmpInit
  <2>1. CASE pc' = pc BY <1>2, <1>k, <2>1 DEF SmpInit, Past
  <2>2. CASE Goto(Bsp, "calibrate") BY <1>2, <1>m, <2>2 DEF SmpInit
  <2> QED BY <1>2, <2>1, <2>2 DEF SmpInit
<1>3. CASE Arm BY <1>3, <1>m DEF Arm
<1>4. CASE TimerInterrupt BY <1>4, <1>m DEF TimerInterrupt, CallThisCore
<1>5. CASE IrqEnter BY <1>5, <1>m DEF IrqEnter, CallThisCore
<1>6. CASE IrqExit BY <1>6, <1>m DEF IrqExit, CallThisCore
<1>7. CASE Yield BY <1>7, <1>m DEF Yield
<1>8. CASE Tick BY <1>8, <1>k DEF Tick, Past
<1>9. CASE UNCHANGED vars BY <1>9, <1>k DEF vars, Past
<1> QED BY <1>1, <1>2, <1>3, <1>4, <1>5, <1>6, <1>7, <1>8, <1>9 DEF Next, BspStep

\* A core that queues for sleep_lock waits for one sleep at most.
LEMMA QueueingStep == IInv /\ CInv /\ [Next]_vars => Queueing'
<1> SUFFICES ASSUME IInv, CInv, [Next]_vars PROVE Queueing' OBVIOUS
<1> USE BspCore, CoreFacts, SmpAssumption
<1>k. ASSUME \A d \in Cores : /\ pc'[d] = "sl_acquire" => pc[d] = "sl_acquire"
                              /\ pc'[d] = "sl_wait" => pc[d] = "sl_wait",
             elapsed' = elapsed, wait' = wait
      PROVE  Queueing'
  BY <1>k DEF CInv, Queueing, InSleep
<1>m. ASSUME NEW l, Goto(Bsp, l), l \notin {"sl_acquire", "sl_wait"},
             elapsed' = elapsed, wait' = wait
      PROVE  Queueing'
  <2>1. \A d \in Cores : pc'[d] = IF d = Bsp THEN l ELSE pc[d] BY <1>m, Moves
  <2> QED BY <1>k, <1>m, <2>1
<1>1. ASSUME NEW c \in Cores, CoreStep(c) PROVE Queueing'
  <2>1. CASE ApEntry(c)
    <3>1. \A d \in Cores : pc'[d] = IF d = c THEN "ap_acquire" ELSE pc[d]
      BY <2>1, Moves DEF ApEntry
    <3> QED BY <1>k, <2>1, <3>1 DEF ApEntry, clock
  <2>2. CASE ApAcquire(c)
    <3>1. \A d \in Cores : pc'[d] = IF d = c THEN "load_tss" ELSE pc[d]
      BY <2>2, Moves DEF ApAcquire
    <3> QED BY <1>k, <2>2, <3>1 DEF ApAcquire, clock
  <2>3. CASE LoadTss(c)
    <3>1. \A d \in Cores : pc'[d] = IF d = c THEN "calibrate" ELSE pc[d]
      BY <2>3, Moves DEF LoadTss
    <3> QED BY <1>k, <2>3, <3>1 DEF LoadTss, clock
  <2>4. CASE LoadTssFault(c)
    <3>1. \A d \in Cores : pc'[d] = IF d = c THEN "aborted" ELSE pc[d]
      BY <2>4, Moves DEF LoadTssFault
    <3> QED BY <1>k, <2>4, <3>1 DEF LoadTssFault, clock
  <2>5. CASE ApRelease(c)
    <3>1. \A d \in Cores : pc'[d] = IF d = c THEN "parked" ELSE pc[d]
      BY <2>5, Moves DEF ApRelease
    <3> QED BY <1>k, <2>5, <3>1 DEF ApRelease, clock
  <2>6. CASE Calibrate(c)
    <3>1. \A d \in Cores : pc'[d] = IF d = c THEN "sl_acquire" ELSE pc[d]
      BY <2>6, Moves DEF Calibrate
    <3>2. elapsed' = [elapsed EXCEPT ![c] = 0] /\ wait' = wait BY <2>6 DEF Calibrate
    <3>3. elapsed'[c] = 0 /\ \A d \in Cores : d # c => elapsed'[d] = elapsed[d]
      BY <3>2 DEF IInv, TypeOK
    <3> QED BY <3>1, <3>2, <3>3 DEF CInv, Queueing, InSleep
  <2>7. CASE SleepAcquire(c)
    <3>1. \A d \in Cores : pc'[d] = IF d = c THEN "sl_wait" ELSE pc[d]
      BY <2>7, Moves DEF SleepAcquire
    <3>2. pc[c] = "sl_acquire" /\ ~sleep_lock /\ elapsed' = elapsed
          /\ wait' = [wait EXCEPT ![c] = SleepLen]
      BY <2>7 DEF SleepAcquire
    <3>3. wait'[c] = SleepLen BY <3>2 DEF IInv, TypeOK
    <3>4. \A d \in Cores : InSleep(d)' => d = c
      BY <3>1, <3>2 DEF IInv, LocksExclusive, InSleep
    <3>5. \A d \in Cores : d # c /\ pc[d] = "sl_acquire" => elapsed[d] = 0
      <4>1. CASE c = Bsp
        BY <3>2, <4>1 DEF CInv, NextInLine, InSleep, Measured, Arming
      <4>2. CASE c # Bsp
        BY <3>2, <4>2 DEF CInv, NextInLine, OneAp, Past
      <4> QED BY <4>1, <4>2
    <3> QED BY <3>1, <3>2, <3>3, <3>4, <3>5 DEF CInv, Queueing
  <2>8. CASE SleepDone(c)
    <3>1. \A d \in Cores : pc'[d] = IF d = c THEN "tc_acquire" ELSE pc[d]
      BY <2>8, Moves DEF SleepDone, CallThisCore
    <3> QED BY <1>k, <2>8, <3>1 DEF SleepDone, clock
  <2>9. CASE ThisCoreAcquire(c)
    <3>1. \A d \in Cores : pc'[d] = IF d = c THEN "tc_search" ELSE pc[d]
      BY <2>9, Moves DEF ThisCoreAcquire
    <3> QED BY <1>k, <2>9, <3>1 DEF ThisCoreAcquire, clock
  <2>10. CASE ThisCoreReturn(c)
    <3>1. \A d \in Cores : pc'[d] = IF d = c THEN cont[c] ELSE pc[d]
      BY <2>10, Moves DEF ThisCoreReturn
    <3> QED BY <1>k, <2>10, <3>1 DEF ThisCoreReturn, clock
  <2>11. CASE SetFreq(c)
    <3>1. \A d \in Cores : pc'[d] =
             IF d = c THEN IF c = Bsp THEN "tc_acquire" ELSE "ap_release" ELSE pc[d]
      BY <2>11, Moves DEF SetFreq, CallThisCore
    <3> QED BY <1>k, <2>11, <3>1 DEF SetFreq, clock
  <2> QED BY <1>1, <2>1, <2>2, <2>3, <2>4, <2>5, <2>6, <2>7, <2>8, <2>9, <2>10, <2>11
          DEF CoreStep
<1>2. CASE SmpInit
  <2>1. CASE pc' = pc BY <1>2, <1>k, <2>1 DEF SmpInit, clock
  <2>2. CASE Goto(Bsp, "calibrate") BY <1>2, <1>m, <2>2 DEF SmpInit, clock
  <2> QED BY <1>2, <2>1, <2>2 DEF SmpInit
<1>3. CASE Arm BY <1>3, <1>m DEF Arm
<1>4. CASE TimerInterrupt BY <1>4, <1>m DEF TimerInterrupt, CallThisCore, clock
<1>5. CASE IrqEnter BY <1>5, <1>m DEF IrqEnter, CallThisCore, clock
<1>6. CASE IrqExit BY <1>6, <1>m DEF IrqExit, CallThisCore, clock
<1>7. CASE Yield BY <1>7, <1>m DEF Yield, clock
<1>8. CASE Tick
  <2>1. \A c \in Cores : pc[c] = "sl_acquire" => \E d \in Cores : InSleep(d)
    BY <1>8 DEF Tick, Waiting, IInv, LocksExclusive
  <2>2. \A c \in Cores : InSleep(c) => wait[c] > 0 /\ wait'[c] = wait[c] - 1
    BY <1>8 DEF Tick, Waiting, InSleep
  <2>3. \A c \in Cores : pc[c] = "sl_acquire" => elapsed'[c] = elapsed[c] + 1
    BY <1>8 DEF Tick
  <2>4. pc' = pc BY <1>8 DEF Tick
  <2> QED BY <2>1, <2>2, <2>3, <2>4 DEF CInv, Queueing, InSleep
<1>9. CASE UNCHANGED vars BY <1>9, <1>k DEF vars, clock
<1> QED BY <1>1, <1>2, <1>3, <1>4, <1>5, <1>6, <1>7, <1>8, <1>9 DEF Next, BspStep

\* Nobody overtakes a core that has waited.
LEMMA NextInLineStep == IInv /\ CInv /\ [Next]_vars => NextInLine'
<1> SUFFICES ASSUME IInv, CInv, [Next]_vars PROVE NextInLine' OBVIOUS
<1> USE BspCore, SmpAssumption, CoreFacts DEF IInv, CInv, OneAp, Past, NextInLine, TypeOK, LocksExclusive, InSleep, Measured, Arming, ApOnly, BspOnly, Counting
<1>1. ASSUME NEW c \in Cores, CoreStep(c) PROVE NextInLine'
  <2>1. CASE ApEntry(c)
    <3>1. \A d \in Cores : pc'[d] = IF d = c THEN "ap_acquire" ELSE pc[d]
      BY <2>1, Moves DEF ApEntry, CallThisCore
    <3> QED BY <2>1, <3>1 DEF ApEntry, CallThisCore, clock, locks
  <2>2. CASE ApAcquire(c)
    <3>1. \A d \in Cores : pc'[d] = IF d = c THEN "load_tss" ELSE pc[d]
      BY <2>2, Moves DEF ApAcquire, CallThisCore
    <3> QED BY <2>2, <3>1 DEF ApAcquire, CallThisCore, clock, locks
  <2>3. CASE LoadTss(c)
    <3>1. \A d \in Cores : pc'[d] = IF d = c THEN "calibrate" ELSE pc[d]
      BY <2>3, Moves DEF LoadTss, CallThisCore
    <3> QED BY <2>3, <3>1 DEF LoadTss, CallThisCore, clock, locks
  <2>4. CASE LoadTssFault(c)
    <3>1. \A d \in Cores : pc'[d] = IF d = c THEN "aborted" ELSE pc[d]
      BY <2>4, Moves DEF LoadTssFault, CallThisCore
    <3> QED BY <2>4, <3>1 DEF LoadTssFault, CallThisCore, clock, locks
  <2>5. CASE ApRelease(c)
    <3>1. \A d \in Cores : pc'[d] = IF d = c THEN "parked" ELSE pc[d]
      BY <2>5, Moves DEF ApRelease, CallThisCore
    <3> QED BY <2>5, <3>1 DEF ApRelease, CallThisCore, clock, locks
  <2>6. CASE Calibrate(c)
    <3>1. \A d \in Cores : pc'[d] = IF d = c THEN "sl_acquire" ELSE pc[d]
      BY <2>6, Moves DEF Calibrate, CallThisCore
    <3>2. /\ pc[c] = "calibrate" /\ elapsed'[c] = 0 /\ count' = count /\ cont' = cont
          /\ tss_busy' = tss_busy /\ \A d \in Cores : d # c => elapsed'[d] = elapsed[d]
      BY <2>6 DEF Calibrate
    <3>3. CASE c = Bsp
      <4>1. \A d \in APs : ~(pc[d] = "sl_acquire" /\ elapsed[d] > 0) BY <3>2, <3>3
      <4>2. \A d \in APs : ~(pc'[d] = "sl_acquire" /\ elapsed'[d] > 0)
        BY <3>1, <3>2, <3>3, <4>1
      <4>3. ~(elapsed'[Bsp] > 0) BY <3>2, <3>3
      <4> QED BY <4>2, <4>3
    <3>4. CASE c # Bsp
      <4>1. pc'[Bsp] = pc[Bsp] /\ elapsed'[Bsp] = elapsed[Bsp] BY <3>1, <3>2, <3>4
      <4>2. ~(pc'[Bsp] = "sl_acquire" /\ elapsed'[Bsp] > 0) BY <3>2, <3>4, <4>1
      <4>3. \A d \in APs : pc'[d] = "sl_acquire" /\ elapsed'[d] > 0
                             => pc[d] = "sl_acquire" /\ elapsed[d] > 0
        <5>1. \A d \in APs : d \in Cores OBVIOUS
        <5>2. ASSUME NEW d \in APs, d = c PROVE elapsed'[d] = 0 BY <3>2, <5>2
        <5>3. ASSUME NEW d \in APs, d # c PROVE pc'[d] = pc[d] /\ elapsed'[d] = elapsed[d]
          BY <3>1, <3>2, <5>1, <5>3
        <5> QED BY <5>2, <5>3
      <4> QED BY <3>2, <4>1, <4>2, <4>3
    <3> QED BY <3>3, <3>4
  <2>7. CASE SleepAcquire(c)
    <3>1. \A d \in Cores : pc'[d] = IF d = c THEN "sl_wait" ELSE pc[d]
      BY <2>7, Moves DEF SleepAcquire, CallThisCore
    <3> QED BY <2>7, <3>1 DEF SleepAcquire, CallThisCore, clock, locks
  <2>8. CASE SleepDone(c)
    <3>1. \A d \in Cores : pc'[d] = IF d = c THEN "tc_acquire" ELSE pc[d]
      BY <2>8, Moves DEF SleepDone, CallThisCore
    <3> QED BY <2>8, <3>1 DEF SleepDone, CallThisCore, clock, locks
  <2>9. CASE ThisCoreAcquire(c)
    <3>1. \A d \in Cores : pc'[d] = IF d = c THEN "tc_search" ELSE pc[d]
      BY <2>9, Moves DEF ThisCoreAcquire, CallThisCore
    <3> QED BY <2>9, <3>1 DEF ThisCoreAcquire, CallThisCore, clock, locks
  <2>10. CASE ThisCoreReturn(c)
    <3>1. \A d \in Cores : pc'[d] = IF d = c THEN cont[c] ELSE pc[d]
      BY <2>10, Moves DEF ThisCoreReturn, CallThisCore
    <3> QED BY <2>10, <3>1 DEF ThisCoreReturn, CallThisCore, clock, locks
  <2>11. CASE SetFreq(c)
    <3>1. \A d \in Cores : pc'[d] = IF d = c THEN (IF c = Bsp THEN "tc_acquire" ELSE "ap_release") ELSE pc[d]
      BY <2>11, Moves DEF SetFreq, CallThisCore
    <3> QED BY <2>11, <3>1 DEF SetFreq, CallThisCore, clock, locks
  <2> QED BY <1>1, <2>1, <2>2, <2>3, <2>4, <2>5, <2>6, <2>7, <2>8, <2>9, <2>10, <2>11 DEF CoreStep
<1>2. CASE SmpInit BY <1>2, Moves DEF SmpInit, CallThisCore, clock, locks
<1>3. CASE Arm BY <1>3, Moves DEF Arm, CallThisCore, clock, locks
<1>4. CASE TimerInterrupt
  <2>1. \A d \in Cores : pc'[d] = IF d = Bsp THEN "tc_acquire" ELSE pc[d]
    BY <1>4, Moves DEF TimerInterrupt, CallThisCore
  <2>2. /\ pc[Bsp] = "run" /\ count = 0 /\ elapsed' = elapsed
    BY <1>4 DEF TimerInterrupt, clock
  <2>3. \A c \in APs : ~(pc[c] = "sl_acquire" /\ elapsed[c] > 0) BY <2>2
  <2> QED BY <2>1, <2>2, <2>3
<1>5. CASE IrqEnter BY <1>5, Moves DEF IrqEnter, CallThisCore, clock, locks
<1>6. CASE IrqExit BY <1>6, Moves DEF IrqExit, CallThisCore, clock, locks
<1>7. CASE Yield BY <1>7, Moves DEF Yield, CallThisCore, clock, locks
<1>8. CASE Tick
  <2>1. \A c \in Cores : pc[c] = "sl_acquire" => \E d \in Cores : InSleep(d)
    BY <1>8 DEF Tick, Waiting
  <2>2. pc' = pc /\ cont' = cont /\ tss_busy' = tss_busy BY <1>8 DEF Tick
  <2>3. \A c \in APs : pc[c] = "sl_acquire" => InSleep(Bsp)
    BY <2>1
  <2>4. pc[Bsp] = "sl_acquire" =>
          tss_busy[core_idx] /\ \A c \in APs : pc[c] \notin {"calibrate", "sl_acquire"}
    <3> SUFFICES ASSUME pc[Bsp] = "sl_acquire"
                 PROVE  tss_busy[core_idx] /\ \A c \in APs : pc[c] \notin {"calibrate", "sl_acquire"}
      OBVIOUS
    <3>1. PICK a \in APs : pc[a] = "sl_wait" BY <2>1
    <3> QED BY <3>1
  <2> QED BY <2>2, <2>3, <2>4
<1>9. CASE UNCHANGED vars BY <1>9 DEF vars, clock, locks
<1> QED BY <1>1, <1>2, <1>3, <1>4, <1>5, <1>6, <1>7, <1>8, <1>9 DEF Next, BspStep

\* The count at the end of a sleep is bounded.
LEMMA CountingStep == IInv /\ CInv /\ [Next]_vars => (Counting /\ CalibrationBounded)'
<1> SUFFICES ASSUME IInv, CInv, [Next]_vars PROVE (Counting /\ CalibrationBounded)' OBVIOUS
<1> USE BspCore, SmpAssumption, CoreFacts DEF IInv, CInv, Queueing, Counting, CalibrationBounded, TypeOK, LocksExclusive, InSleep, Measured, Arming, ApOnly, BspOnly
<1>1. ASSUME NEW c \in Cores, CoreStep(c) PROVE (Counting /\ CalibrationBounded)'
  <2>1. CASE ApEntry(c)
    <3>1. \A d \in Cores : pc'[d] = IF d = c THEN "ap_acquire" ELSE pc[d]
      BY <2>1, Moves DEF ApEntry, CallThisCore
    <3> QED BY <2>1, <3>1 DEF ApEntry, CallThisCore, clock, locks
  <2>2. CASE ApAcquire(c)
    <3>1. \A d \in Cores : pc'[d] = IF d = c THEN "load_tss" ELSE pc[d]
      BY <2>2, Moves DEF ApAcquire, CallThisCore
    <3> QED BY <2>2, <3>1 DEF ApAcquire, CallThisCore, clock, locks
  <2>3. CASE LoadTss(c)
    <3>1. \A d \in Cores : pc'[d] = IF d = c THEN "calibrate" ELSE pc[d]
      BY <2>3, Moves DEF LoadTss, CallThisCore
    <3> QED BY <2>3, <3>1 DEF LoadTss, CallThisCore, clock, locks
  <2>4. CASE LoadTssFault(c)
    <3>1. \A d \in Cores : pc'[d] = IF d = c THEN "aborted" ELSE pc[d]
      BY <2>4, Moves DEF LoadTssFault, CallThisCore
    <3> QED BY <2>4, <3>1 DEF LoadTssFault, CallThisCore, clock, locks
  <2>5. CASE ApRelease(c)
    <3>1. \A d \in Cores : pc'[d] = IF d = c THEN "parked" ELSE pc[d]
      BY <2>5, Moves DEF ApRelease, CallThisCore
    <3> QED BY <2>5, <3>1 DEF ApRelease, CallThisCore, clock, locks
  <2>6. CASE Calibrate(c)
    <3>1. \A d \in Cores : pc'[d] = IF d = c THEN "sl_acquire" ELSE pc[d]
      BY <2>6, Moves DEF Calibrate, CallThisCore
    <3> QED BY <2>6, <3>1 DEF Calibrate, CallThisCore, clock, locks
  <2>7. CASE SleepAcquire(c)
    <3>1. \A d \in Cores : pc'[d] = IF d = c THEN "sl_wait" ELSE pc[d]
      BY <2>7, Moves DEF SleepAcquire, CallThisCore
    <3> QED BY <2>7, <3>1 DEF SleepAcquire, CallThisCore, clock, locks
  <2>8. CASE SleepDone(c)
    <3>1. \A d \in Cores : pc'[d] = IF d = c THEN "tc_acquire" ELSE pc[d]
      BY <2>8, Moves DEF SleepDone, CallThisCore
    <3> QED BY <2>8, <3>1 DEF SleepDone, CallThisCore, clock, locks
  <2>9. CASE ThisCoreAcquire(c)
    <3>1. \A d \in Cores : pc'[d] = IF d = c THEN "tc_search" ELSE pc[d]
      BY <2>9, Moves DEF ThisCoreAcquire, CallThisCore
    <3> QED BY <2>9, <3>1 DEF ThisCoreAcquire, CallThisCore, clock, locks
  <2>10. CASE ThisCoreReturn(c)
    <3>1. \A d \in Cores : pc'[d] = IF d = c THEN cont[c] ELSE pc[d]
      BY <2>10, Moves DEF ThisCoreReturn, CallThisCore
    <3> QED BY <2>10, <3>1 DEF ThisCoreReturn, CallThisCore, clock, locks
  <2>11. CASE SetFreq(c)
    <3>1. \A d \in Cores : pc'[d] = IF d = c THEN (IF c = Bsp THEN "tc_acquire" ELSE "ap_release") ELSE pc[d]
      BY <2>11, Moves DEF SetFreq, CallThisCore
    <3> QED BY <2>11, <3>1 DEF SetFreq, CallThisCore, clock, locks
  <2> QED BY <1>1, <2>1, <2>2, <2>3, <2>4, <2>5, <2>6, <2>7, <2>8, <2>9, <2>10, <2>11 DEF CoreStep
<1>2. CASE SmpInit BY <1>2, Moves DEF SmpInit, CallThisCore, clock, locks
<1>3. CASE Arm BY <1>3, Moves DEF Arm, CallThisCore, clock, locks
<1>4. CASE TimerInterrupt BY <1>4, Moves DEF TimerInterrupt, CallThisCore, clock, locks
<1>5. CASE IrqEnter BY <1>5, Moves DEF IrqEnter, CallThisCore, clock, locks
<1>6. CASE IrqExit BY <1>6, Moves DEF IrqExit, CallThisCore, clock, locks
<1>7. CASE Yield BY <1>7, Moves DEF Yield, CallThisCore, clock, locks
<1>8. CASE Tick BY <1>8 DEF Tick, Waiting, locks
<1>9. CASE UNCHANGED vars BY <1>9 DEF vars, clock, locks
<1> QED BY <1>1, <1>2, <1>3, <1>4, <1>5, <1>6, <1>7, <1>8, <1>9 DEF Next, BspStep

-----------------------------------------------------------------------------
(* Theorems *)

\* The invariant of the bring-up of every number of cores.
THEOREM Invariance == Spec => []IInv
<1>1. IInv /\ [Next]_vars => IInv' BY TypeStep, PlacedStep, LocksStep DEF IInv
<1> QED BY InitIInv, <1>1, PTL DEF Spec

\* Type correctness of the state of smp.c, lapic.c and hpet.c.
THEOREM TypeCorrect == Spec => []TypeOK
<1>1. IInv => TypeOK BY DEF IInv
<1> QED BY Invariance, <1>1, PTL

\* The invariant of calibration.
THEOREM CalibrationInvariance == Spec => []CInv
<1>1. Init => CInv
  <2> SUFFICES ASSUME Init PROVE CInv OBVIOUS
  <2>1. \A c \in Cores : pc[c] \in {"smp_init", "off"} /\ lapic_freq[c] = 0
    BY DEF Init
  <2>2. \A c \in Cores : /\ ~Past(c) /\ ~Measured(c) /\ ~Arming(c) /\ ~InSleep(c)
                          /\ pc[c] # "sl_acquire"
    BY <2>1 DEF Past, Measured, Arming, InSleep
  <2> QED BY BspCore, <2>1, <2>2
          DEF CInv, OneAp, Queueing, NextInLine, Counting, CalibrationBounded, APs
<1>2. IInv /\ CInv /\ [Next]_vars => CInv'
  BY OneApStep, QueueingStep, NextInLineStep, CountingStep DEF CInv
<1> QED BY Invariance, <1>1, <1>2, PTL DEF Spec

\* lapic_timer_calibrate() counts between one and two sleeps of hpet_sleep(),
\* whatever the number of cores: a core waits for sleep_lock at most once, and
\* nobody overtakes it.
THEOREM CalibrationCorrect == Spec => []CalibrationBounded
<1>1. CInv => CalibrationBounded BY DEF CInv
<1> QED BY CalibrationInvariance, <1>1, PTL

\* The three test-and-set bytes of mutex.c exclude any number of cores from
\* ap_entry(), hpet_sleep() and this_core(), and none is left set by a core
\* that has gone.
THEOREM LocksCorrect == Spec => []LocksExclusive
<1>1. IInv => LocksExclusive BY DEF IInv
<1> QED BY Invariance, <1>1, PTL

=============================================================================
