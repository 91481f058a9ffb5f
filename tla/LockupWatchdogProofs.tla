------------------------ MODULE LockupWatchdogProofs ------------------------
(***************************************************************************)
(* Proofs about the soft lockup detector of lockup_lab.c and its unload,   *)
(* for every set of CPUs, every schedule of commands and lockups and every *)
(* horizon of the clock.                                                   *)
(***************************************************************************)
EXTENDS LockupWatchdog, ProofLemmas

\* The quotient and the remainder of a division.
LEMMA Division ==
  ASSUME NEW a \in Nat, NEW p \in Nat \ {0}
  PROVE  /\ a \div p \in Nat
         /\ (a \div p) * p <= a /\ a < (a \div p) * p + p
<1>1. a \div p \in Int
  OBVIOUS
<1>2. p * (a \div p) <= a
  OBVIOUS
<1>3. a < p * (a \div p) + p
  OBVIOUS
<1>4. a \div p >= 0
  OBVIOUS
<1>5. p * (a \div p) = (a \div p) * p
  BY <1>1
<1> QED BY <1>1, <1>2, <1>3, <1>4, <1>5

\* hrtimer_forward_now(): the next expiry lies after now, by a period at most.
LEMMA HrtimerForward ==
  ASSUME NEW t \in Nat, NEW n \in Nat, t <= n, NEW p \in Nat \ {0}
  PROVE  LET next == t + ((n - t) \div p + 1) * p
         IN  next \in Nat /\ n < next /\ next <= n + p
<1>1. n - t \in Nat
  OBVIOUS
<1>2. PICK q \in Nat : q = (n - t) \div p /\ q * p <= n - t /\ n - t < q * p + p
  BY <1>1, Division
<1>3. (q + 1) * p = q * p + p /\ q * p \in Nat
  OBVIOUS
<1> QED BY <1>2, <1>3

\* sample_period_ns() is a positive number of seconds, less than the 2 * thresh
\* seconds after which a CPU is reported.
LEMMA PeriodRange ==
  ASSUME TypeOK
  PROVE  /\ SamplePeriod \in Nat \ {0} /\ thresh \in Nat \ {0}
         /\ SamplePeriod <= 2 * thresh
<1>1. thresh \in Nat \ {0} /\ thresh % 5 = 0
  BY LockupAssumption DEF TypeOK
<1>2. thresh >= 5
  BY <1>1
<1> QED BY <1>1, <1>2 DEF SamplePeriod

\* The first CPU of a set, and the neighbour a CPU watches, are CPUs.
LEMMA FirstCpu ==
  ASSUME NEW S \in SUBSET CPUs, S # {}
  PROVE  First(S) \in S
<1>1. S \in SUBSET Nat
  BY LockupAssumption
<1>2. \E i \in S : \A j \in S : i <= j
  BY <1>1, SmallestElement
<1> QED BY <1>2 DEF First

\* next_cpu_of() names an online CPU.
LEMMA Neighbour ==
  ASSUME NEW cpu \in CPUs
  PROVE  NextCpuOf(cpu) \in CPUs
<1> DEFINE above == {d \in CPUs : d > cpu}
           from == IF above = {} THEN CPUs ELSE above
<1>1. from \in SUBSET Nat /\ from # {} /\ from \subseteq CPUs
  BY LockupAssumption
<1>2. \E d \in from : \A e \in from : d <= e
  BY <1>1, SmallestElement
<1> HIDE DEF from
<1>3. (CHOOSE d \in from : \A e \in from : d <= e) \in from
  BY <1>2
<1> QED BY <1>1, <1>3 DEF NextCpuOf, from

-----------------------------------------------------------------------------
(* Every step keeps the types and the stages of the command in progress.   *)

\* A tick of a CPU's timer.
LEMMA WdTimerUnload ==
  ASSUME UnloadIInv, NEW cpu \in CPUs, WdTimer(cpu)
  PROVE  UnloadIInv'
<1>0. TypeOK /\ Stages
  BY DEF UnloadIInv
<1>1. timer[cpu] \in Nat /\ timer[cpu] <= now /\ now \in Nat /\ timer[cpu] # Off
  BY <1>0 DEF WdTimer, TimerDue, TypeOK, Off
<1>2. timer'[cpu] \in Nat /\ timer' = [timer EXCEPT ![cpu] = timer'[cpu]]
  <2>1. timer[cpu] + ((now - timer[cpu]) \div SamplePeriod + 1) * SamplePeriod \in Nat
    BY <1>0, <1>1, PeriodRange, HrtimerForward
  <2> QED BY <2>1, <1>0 DEF WdTimer, TypeOK
<1>3. NextCpuOf(cpu) \in CPUs
  BY Neighbour
<1>4. /\ ticks' \in [CPUs -> Nat] /\ saved' \in [CPUs -> Nat]
      /\ hardRep' \in [CPUs -> BOOLEAN]
  <2>1. ticks' \in [CPUs -> Nat]
    BY <1>0 DEF WdTimer, TypeOK
  <2> QED BY <1>0, <1>3, <2>1 DEF WdTimer, CheckNeighbour, TypeOK
<1>5. /\ kick' \in [CPUs -> BOOLEAN]
      /\ thr' \in [CPUs -> {"none", "top", "asleep", "awake", "stop", "awakestop", "exited"}]
      /\ \A i \in CPUs : thr[i] = "none" <=> thr'[i] = "none"
  <2>1. CASE ~kick[cpu] /\ thr[cpu] # "none"
    <3>1. kick' \in [CPUs -> BOOLEAN]
      BY <1>0, <2>1 DEF WdTimer, KickThread, TypeOK
    <3> QED BY <1>0, <2>1, <3>1 DEF WdTimer, KickThread, TypeOK
  <2>2. CASE ~(~kick[cpu] /\ thr[cpu] # "none")
    <3>1. UNCHANGED <<kick, thr>>
      BY <2>2, Zenon DEF WdTimer, KickThread
    <3> QED BY <1>0, <3>1 DEF TypeOK
  <2> QED BY <2>1, <2>2
<1>6. softRep' \in [CPUs -> BOOLEAN]
  <2>1. (IF touch[cpu] # 0 THEN now > touch[cpu] + 2 * thresh ELSE softRep[cpu]) \in BOOLEAN
    <3>1. softRep[cpu] \in BOOLEAN
      BY <1>0 DEF TypeOK
    <3>2. (now > touch[cpu] + 2 * thresh) \in BOOLEAN
      OBVIOUS
    <3> QED BY <3>1, <3>2, Zenon
  <2> QED BY <1>0, <2>1, Zenon DEF WdTimer, CheckTouch, TypeOK
<1>7. timer' \in [CPUs -> Nat \cup {Off}] /\ \A i \in CPUs : timer'[i] = Off <=> timer[i] = Off
  BY <1>0, <1>1, <1>2 DEF TypeOK, Off
<1>8. UNCHANGED <<now, thresh, touch, control, locks, armed>>
  BY DEF WdTimer
<1>9. TypeOK'
  BY <1>0, <1>4, <1>5, <1>6, <1>7, <1>8 DEF TypeOK, control, locks
<1>10. Stages'
  BY <1>0, <1>5, <1>7, <1>8 DEF Stages, control
<1> QED BY <1>9, <1>10 DEF UnloadIInv

\* A step of a CPU's thread, and the start and the end of a lockup.
LEMMA CpuUnload ==
  ASSUME UnloadIInv, NEW cpu \in CPUs,
         ThreadTop(cpu) \/ ThreadTouch(cpu) \/ EndLockup(cpu) \/ StartLockup(cpu)
  PROVE  UnloadIInv'
<1>0. TypeOK /\ Stages
  BY DEF UnloadIInv
<1>1. CASE ThreadTop(cpu)
  <2>1. TypeOK'
    BY <1>0, <1>1 DEF ThreadTop, TypeOK, control, locks
  <2>2. \A i \in CPUs : thr[i] = "none" => thr'[i] = "none"
    BY <1>0, <1>1 DEF ThreadTop, TypeOK
  <2>3. Stages'
    BY <1>0, <1>1, <2>2 DEF ThreadTop, Stages, control
  <2> QED BY <2>1, <2>3 DEF UnloadIInv
<1>2. CASE ThreadTouch(cpu)
  <2>1. TypeOK'
    BY <1>0, <1>2 DEF ThreadTouch, TypeOK, control, locks
  <2>2. \A i \in CPUs : thr[i] = "none" => thr'[i] = "none"
    BY <1>0, <1>2 DEF ThreadTouch, TypeOK
  <2>3. Stages'
    BY <1>0, <1>2, <2>2 DEF ThreadTouch, Stages, control
  <2> QED BY <2>1, <2>3 DEF UnloadIInv
<1>3. CASE EndLockup(cpu)
  <2>1. TypeOK'
    BY <1>0, <1>3 DEF EndLockup, TypeOK, control, wd
  <2>2. Stages'
    BY <1>0, <1>3 DEF EndLockup, Stages, control, wd
  <2> QED BY <2>1, <2>2 DEF UnloadIInv
<1>4. CASE StartLockup(cpu)
  <2>1. PICK k \in LockKinds, secs \in LockSecs :
          /\ lock' = [lock EXCEPT ![cpu] = k] /\ kind' = [kind EXCEPT ![cpu] = k]
          /\ until' = [until EXCEPT ![cpu] = now + secs]
          /\ offUntil' = [offUntil EXCEPT ![cpu] = IF k = "hard" THEN now + secs ELSE @]
    BY <1>4 DEF StartLockup
  <2>2. k \in {"soft", "hard"} /\ now + secs \in Nat /\ now \in Nat
    BY <1>0, LockupAssumption DEF TypeOK
  <2>3. /\ lock' \in [CPUs -> {"none", "soft", "hard"}]
        /\ kind' \in [CPUs -> {"none", "soft", "hard"}]
        /\ until' \in [CPUs -> Nat] /\ since' \in [CPUs -> Nat]
        /\ offUntil' \in [CPUs -> Nat \cup {Off}]
    BY <1>0, <1>4, <2>1, <2>2 DEF StartLockup, TypeOK
  <2>4. UNCHANGED <<now, thresh, wd, control, armed>>
    BY <1>4 DEF StartLockup
  <2>5. TypeOK'
    BY <1>0, <2>3, <2>4 DEF TypeOK, control, wd
  <2>6. Stages'
    BY <1>0, <2>4 DEF Stages, control, wd
  <2> QED BY <2>5, <2>6 DEF UnloadIInv
<1> QED BY <1>1, <1>2, <1>3, <1>4

\* A step of a command.
LEMMA CommandUnload ==
  ASSUME UnloadIInv, Command \/ WdOn \/ SetThresh \/ WdOff \/ Rmmod
  PROVE  UnloadIInv'
<1>0. TypeOK /\ Stages
  BY DEF UnloadIInv
<1>1. ASSUME NEW cpu \in CPUs, StartHrtimerLocal(cpu) PROVE UnloadIInv'
  <2>1. now \in 1..MaxNow /\ now \in Nat /\ now + SamplePeriod \in Nat
    BY <1>0, PeriodRange, LockupAssumption DEF TypeOK
  <2>2. /\ touch' \in [CPUs -> 0..MaxNow] /\ armed' \in [CPUs -> Nat]
        /\ timer' \in [CPUs -> Nat \cup {Off}]
    BY <1>0, <1>1, <2>1 DEF StartHrtimerLocal, TypeOK
  <2>3. TypeOK'
    BY <1>0, <1>1, <2>2 DEF StartHrtimerLocal, TypeOK, locks
  <2>4. \A i \in CPUs : timer'[i] = Off <=> i \in todo'
    BY <1>0, <1>1, <2>1 DEF StartHrtimerLocal, TypeOK, Stages, Off
  <2>5. Stages'
    BY <1>0, <1>1, <2>4 DEF StartHrtimerLocal, Stages
  <2> QED BY <2>3, <2>5 DEF UnloadIInv
<1>2. CASE WdOnDone
  <2>1. TypeOK'
    BY <1>0, <1>2 DEF WdOnDone, TypeOK, wd, locks
  <2>2. Stages'
    BY <1>0, <1>2 DEF WdOnDone, Stages, wd
  <2> QED BY <2>1, <2>2 DEF UnloadIInv
<1>3. CASE HrtimerCancel
  <2>1. First(todo) \in CPUs
    BY <1>0, <1>3, FirstCpu DEF HrtimerCancel, TypeOK
  <2>2. TypeOK'
    BY <1>0, <1>3, <2>1 DEF HrtimerCancel, TypeOK, locks
  <2>3. \A i \in CPUs : i = First(todo) \/ i \notin todo => timer'[i] = Off
    BY <1>0, <1>3, <2>1 DEF HrtimerCancel, TypeOK, Stages
  <2>4. Stages'
    BY <1>0, <1>3, <2>1, <2>3 DEF HrtimerCancel, Stages, TypeOK
  <2> QED BY <2>2, <2>4 DEF UnloadIInv
<1>4. CASE KthreadStop
  <2>1. First(todo) \in todo /\ First(todo) \in CPUs
    BY <1>0, <1>4, FirstCpu DEF KthreadStop, TypeOK
  <2>2. TypeOK'
    BY <1>0, <1>4, <2>1 DEF KthreadStop, TypeOK, control, locks
  <2>3. Stages'
    BY <1>0, <1>4, <2>1 DEF KthreadStop, Stages, TypeOK, control
  <2> QED BY <2>2, <2>3 DEF UnloadIInv
<1>5. CASE KthreadStopped
  <2>1. First(todo) \in todo /\ First(todo) \in CPUs
    BY <1>0, <1>5, FirstCpu DEF KthreadStopped, TypeOK
  <2>2. TypeOK'
    BY <1>0, <1>5, <2>1 DEF KthreadStopped, TypeOK, locks
  <2>3. Stages'
    BY <1>0, <1>5, <2>1 DEF KthreadStopped, Stages, TypeOK
  <2> QED BY <2>2, <2>3 DEF UnloadIInv
<1>6. CASE WdOffDone
  <2>1. TypeOK'
    BY <1>0, <1>6 DEF WdOffDone, TypeOK, wd, locks
  <2>2. Stages'
    BY <1>0, <1>6 DEF WdOffDone, Stages, wd
  <2> QED BY <2>1, <2>2 DEF UnloadIInv
<1>7. CASE WdOn
  <2>1. PICK got \in SUBSET CPUs :
          /\ thr' = [i \in CPUs |-> IF i \in got THEN "top" ELSE "none"]
          /\ softRep' = [i \in CPUs |-> i \notin got /\ softRep[i]]
          /\ hardRep' = [i \in CPUs |-> i \notin got /\ hardRep[i]]
    BY <1>7 DEF WdOn
  <2>2. softRep' \in [CPUs -> BOOLEAN] /\ hardRep' \in [CPUs -> BOOLEAN]
    BY <2>1, Zenon
  <2>3. thr' \in [CPUs -> {"none", "top", "asleep", "awake", "stop", "awakestop", "exited"}]
    BY <2>1
  <2>4. TypeOK'
    BY <1>0, <1>7, <2>2, <2>3 DEF WdOn, TypeOK, locks
  <2>5. Stages'
    BY <1>0, <1>7 DEF WdOn, Stages
  <2> QED BY <2>4, <2>5 DEF UnloadIInv
<1>8. CASE SetThresh
  <2>1. TypeOK'
    BY <1>0, <1>8 DEF SetThresh, TypeOK, wd, control, locks
  <2>2. Stages'
    BY <1>0, <1>8 DEF SetThresh, Stages, wd, control
  <2> QED BY <2>1, <2>2 DEF UnloadIInv
<1>9. CASE WdOff \/ Rmmod
  <2>1. TypeOK'
    BY <1>0, <1>9 DEF WdOff, Rmmod, TypeOK, wd, locks
  <2>2. Stages'
    BY <1>0, <1>9 DEF WdOff, Rmmod, Stages, wd
  <2> QED BY <2>1, <2>2 DEF UnloadIInv
<1> QED BY <1>1, <1>2, <1>3, <1>4, <1>5, <1>6, <1>7, <1>8, <1>9 DEF Command

\* The types and the stages hold in every reachable state.
LEMMA LockupUnloadIInv == Spec => []UnloadIInv
<1>1. Init => UnloadIInv
  <2>1. ASSUME Init PROVE TypeOK
    <3>1. now \in 1..MaxNow /\ thresh \in ThreshValues \cup {InitThresh}
      BY <2>1, LockupAssumption DEF Init
    <3>2. /\ kick \in [CPUs -> BOOLEAN] /\ softRep \in [CPUs -> BOOLEAN]
          /\ hardRep \in [CPUs -> BOOLEAN] /\ wdRunning \in BOOLEAN
      BY <2>1, Zenon DEF Init
    <3>3. touch \in [CPUs -> 0..MaxNow]
      BY <2>1, LockupAssumption DEF Init
    <3> QED BY <2>1, <3>1, <3>2, <3>3 DEF Init, TypeOK, Off
  <2>2. Init => Stages
    BY DEF Init, Stages
  <2> QED BY <2>1, <2>2 DEF UnloadIInv
<1>2. UnloadIInv /\ [Next]_vars => UnloadIInv'
  <2> SUFFICES ASSUME UnloadIInv, [Next]_vars PROVE UnloadIInv'
    OBVIOUS
  <2>0. TypeOK /\ Stages
    BY DEF UnloadIInv
  <2>1. CASE Command \/ WdOn \/ SetThresh \/ WdOff \/ Rmmod
    BY <2>1, CommandUnload
  <2>2. ASSUME NEW cpu \in CPUs, Cpu(cpu) \/ StartLockup(cpu) PROVE UnloadIInv'
    BY <2>2, WdTimerUnload, CpuUnload DEF Cpu
  <2>3. CASE Tick
    <3>1. now' \in 1..MaxNow
      BY <2>0, <2>3, LockupAssumption DEF Tick, TypeOK
    <3>2. TypeOK'
      BY <2>0, <2>3, <3>1 DEF Tick, TypeOK, wd, control, locks
    <3>3. Stages'
      BY <2>0, <2>3 DEF Tick, Stages, wd, control
    <3> QED BY <3>2, <3>3 DEF UnloadIInv
  <2>4. CASE UNCHANGED vars
    <3>1. TypeOK'
      BY <2>0, <2>4 DEF vars, TypeOK, wd, control, locks
    <3>2. Stages'
      BY <2>0, <2>4 DEF vars, Stages, wd, control
    <3> QED BY <3>1, <3>2 DEF UnloadIInv
  <2> QED BY <2>1, <2>2, <2>3, <2>4 DEF Next, Unloaded, Horizon
<1> QED BY <1>1, <1>2, PTL DEF Spec

\* rmmod of lockup_lab.ko, also in the middle of a lockup and after any number of
\* "wd on" and "wd off" commands, some of which found no thread for a CPU, leaves
\* no timer armed and no thread in the module's text.
THEOREM LockupUnload == Spec => []UnloadInv
<1>1. UnloadIInv => UnloadInv
  BY DEF UnloadIInv, UnloadInv, UnloadSafe, Stages
<1> QED BY <1>1, LockupUnloadIInv, PTL

-----------------------------------------------------------------------------
(* The soft lockup detector.  With a thread for every CPU and a thresh that *)
(* is not lowered, the timer, the thread and the lockup of every CPU keep   *)
(* the distances that SoftDetector states.                                  *)

\* The state of one CPU's detector.
Cell(i) == <<timer[i], touch[i], kick[i], thr[i], softRep[i], armed[i],
             lock[i], since[i], until[i]>>

\* The clock values of a CPU are numbers.
LEMMA CellTypes ==
  ASSUME TypeOK, NEW i \in CPUs
  PROVE  /\ now \in Nat /\ now >= 1 /\ touch[i] \in Nat /\ armed[i] \in Nat
         /\ since[i] \in Nat /\ until[i] \in Nat
         /\ timer[i] # Off => timer[i] \in Nat
         /\ lock[i] \in {"none", "soft", "hard"}
  BY DEF TypeOK

\* A step that changes neither the CPU's detector, nor the clock, nor thresh.
LEMMA SoftFrame ==
  ASSUME NEW i \in CPUs, SoftDetector(i), UNCHANGED <<now, thresh>>, UNCHANGED Cell(i),
         ctl' = "start" => ctl = "start" /\ (i \in todo' => i \in todo)
  PROVE  SoftDetector(i)'
<1>1. Clocks(i)'
  BY DEF Cell, SoftDetector, Clocks
<1>2. Kicks(i)'
  BY DEF Cell, SoftDetector, Kicks
<1>3. timer'[i] # Off => Armed(i)'
  BY DEF Cell, SoftDetector, Armed, Answering, Max2, SamplePeriod
<1> QED BY <1>1, <1>2, <1>3 DEF SoftDetector, Off

\* What a tick of the timer does to its CPU: the thread is about to answer, and
\* a CPU that is free and has been so for a second is not reported.
LEMMA SoftTick ==
  ASSUME UnloadIInv, NEW cpu \in CPUs, SoftDetector(cpu), WdTimer(cpu)
  PROVE  /\ timer[cpu] # Off /\ timer'[cpu] \in Nat
         /\ now < timer'[cpu] /\ timer'[cpu] <= now + SamplePeriod
         /\ kick'[cpu] /\ thr'[cpu] \in {"top", "awake"}
         /\ softRep'[cpu] <=> now > touch[cpu] + 2 * thresh
         /\ lock[cpu] = "soft" \/ lock[cpu] = "none"
         /\ lock[cpu] = "none" /\ now # until[cpu] => ~softRep'[cpu]
<1>0. TypeOK /\ Stages /\ SamplePeriod \in Nat \ {0} /\ thresh \in Nat /\ SamplePeriod <= 2 * thresh
  BY PeriodRange DEF UnloadIInv
<1>1. timer[cpu] # Off /\ timer[cpu] <= now /\ lock[cpu] # "hard"
  BY DEF WdTimer, TimerDue, IrqsOn
<1>2. /\ now \in Nat /\ touch[cpu] \in Nat /\ timer[cpu] \in Nat
      /\ lock[cpu] \in {"none", "soft", "hard"}
  BY <1>0, <1>1, CellTypes
<1>3. Kicks(cpu) /\ Armed(cpu)
  BY <1>1 DEF SoftDetector
<1>4. timer'[cpu] \in Nat /\ now < timer'[cpu] /\ timer'[cpu] <= now + SamplePeriod
  <2>1. timer'[cpu] = timer[cpu] + ((now - timer[cpu]) \div SamplePeriod + 1) * SamplePeriod
    BY <1>0 DEF WdTimer, TypeOK
  <2> QED BY <2>1, <1>0, <1>1, <1>2, HrtimerForward
<1>5. kick'[cpu] /\ thr'[cpu] \in {"top", "awake"}
  <2>1. thr[cpu] \in {"top", "asleep", "awake"} /\ (thr[cpu] = "asleep" => ~kick[cpu])
    BY <1>1, <1>3 DEF Kicks
  <2>2. CASE kick[cpu]
    <3>1. UNCHANGED <<kick, thr>>
      BY <2>2, Zenon DEF WdTimer, KickThread
    <3> QED BY <2>1, <2>2, <3>1
  <2>3. CASE ~kick[cpu]
    <3>1. /\ kick' = [kick EXCEPT ![cpu] = TRUE]
          /\ thr' = [thr EXCEPT ![cpu] = IF @ = "asleep" THEN "awake" ELSE @]
      BY <2>1, <2>3 DEF WdTimer, KickThread
    <3> QED BY <1>0, <2>1, <3>1 DEF TypeOK
  <2> QED BY <2>2, <2>3
<1>6. softRep'[cpu] = (now > touch[cpu] + 2 * thresh)
  <2>1. touch[cpu] # 0
    BY <1>2, <1>3 DEF Armed
  <2> QED BY <1>0, <2>1 DEF WdTimer, CheckTouch, TypeOK
<1>7. ASSUME lock[cpu] = "none", now # until[cpu] PROVE ~softRep'[cpu]
  <2>1. now = timer[cpu] /\ ~Answering(cpu)
    BY <1>1, <1>2, <1>3, <1>7 DEF Armed
  <2>2. now <= touch[cpu] + SamplePeriod
    BY <1>3, <2>1 DEF Armed
  <2>3. ~(now > touch[cpu] + 2 * thresh)
    BY <1>0, <1>2, <2>2
  <2> QED BY <1>6, <2>3, Zenon
<1> QED BY <1>1, <1>2, <1>4, <1>5, <1>6, <1>7

\* A tick keeps the distances: what it arms lies a period ahead, and a CPU that
\* it does not report ran its thread within the limit.
LEMMA WdTimerSoft ==
  ASSUME UnloadIInv, SoftInv, NEW cpu \in CPUs, WdTimer(cpu)
  PROVE  SoftInv'
<1>0. TypeOK /\ Stages /\ SamplePeriod \in Nat \ {0} /\ thresh \in Nat /\ SamplePeriod <= 2 * thresh
  BY PeriodRange DEF UnloadIInv
<1>1. UNCHANGED <<now, thresh, touch, control, locks, armed>>
  BY DEF WdTimer
<1>2. ASSUME NEW i \in CPUs, i # cpu PROVE SoftDetector(i)'
  <2>1. UNCHANGED <<timer[i], kick[i], thr[i], softRep[i]>>
    BY <1>0, <1>2 DEF WdTimer, KickThread, CheckTouch, TypeOK
  <2>2. UNCHANGED Cell(i)
    BY <1>1, <2>1 DEF Cell, locks
  <2> QED BY <1>1, <2>2, SoftFrame DEF SoftInv, control
<1>3. SoftDetector(cpu)'
  <2>0. /\ now \in Nat /\ now >= 1 /\ touch[cpu] \in Nat /\ armed[cpu] \in Nat
        /\ since[cpu] \in Nat /\ until[cpu] \in Nat
        /\ timer[cpu] # Off => timer[cpu] \in Nat
        /\ lock[cpu] \in {"none", "soft", "hard"}
    BY <1>0, CellTypes
  <2>1. /\ timer[cpu] # Off /\ timer'[cpu] \in Nat
        /\ now < timer'[cpu] /\ timer'[cpu] <= now + SamplePeriod
        /\ kick'[cpu] /\ thr'[cpu] \in {"top", "awake"}
        /\ softRep'[cpu] <=> now > touch[cpu] + 2 * thresh
        /\ lock[cpu] = "soft" \/ lock[cpu] = "none"
        /\ lock[cpu] = "none" /\ now # until[cpu] => ~softRep'[cpu]
    BY SoftTick DEF SoftInv
  <2>2. Clocks(cpu) /\ Kicks(cpu) /\ Armed(cpu)
    BY <2>1 DEF SoftInv, SoftDetector
  <2>3. SamplePeriod' = SamplePeriod
    BY <1>1 DEF SamplePeriod
  <2>4. Clocks(cpu)'
    BY <1>1, <2>2 DEF Clocks, locks
  <2>5. Kicks(cpu)'
    BY <1>0, <1>1, <2>1 DEF Kicks, Stages, control
  <2>6. Answering(cpu)'
    BY <2>1 DEF Answering
  <2>7. lock[cpu] = "soft" => touch[cpu] <= Max2(since[cpu], armed[cpu])
    BY <2>2 DEF Armed
  <2>8. lock[cpu] = "soft" /\ ~softRep'[cpu] =>
          timer'[cpu] <= Max2(since[cpu], armed[cpu]) + 2 * thresh + SamplePeriod
    BY <1>0, <2>0, <2>1, <2>7 DEF Max2
  <2>9. lock[cpu] = "none" /\ softRep'[cpu] => timer'[cpu] <= until[cpu] + SamplePeriod
    BY <2>1
  <2>10. lock[cpu] # "none" \/ now = until[cpu] => since[cpu] <= touch[cpu] + SamplePeriod
    BY <2>2 DEF Armed
  <2>11. touch[cpu] >= 1
    BY <2>2 DEF Armed
  <2>12. Max2(since[cpu], armed[cpu])' = Max2(since[cpu], armed[cpu])
    BY <1>1 DEF locks, Max2
  <2>13. Armed(cpu)'
    BY <1>1, <2>0, <2>1, <2>3, <2>6, <2>7, <2>8, <2>9, <2>10, <2>11, <2>12 DEF Armed, locks
  <2> QED BY <2>4, <2>5, <2>13 DEF SoftDetector
<1> QED BY <1>2, <1>3 DEF SoftInv

\* The thread's steps: it goes to sleep only without a kick, and it answers a
\* kick with the time of the day.
LEMMA ThreadSoft ==
  ASSUME UnloadIInv, SoftInv, NEW cpu \in CPUs, ThreadTop(cpu) \/ ThreadTouch(cpu)
  PROVE  SoftInv'
<1>0. TypeOK /\ SamplePeriod \in Nat \ {0}
  BY PeriodRange DEF UnloadIInv
<1>1. UNCHANGED <<now, thresh, timer, softRep, control, locks, armed>> /\ lock[cpu] = "none"
  BY DEF ThreadTop, ThreadTouch
<1>2. ASSUME NEW i \in CPUs, i # cpu PROVE SoftDetector(i)'
  <2>1. UNCHANGED <<touch[i], kick[i], thr[i]>>
    BY <1>0, <1>2 DEF ThreadTop, ThreadTouch, TypeOK
  <2>2. UNCHANGED Cell(i)
    BY <1>1, <2>1 DEF Cell, locks
  <2> QED BY <1>1, <2>2, SoftFrame DEF SoftInv, control
<1>3. SoftDetector(cpu)'
  <2>0. /\ now \in Nat /\ now >= 1 /\ touch[cpu] \in Nat /\ since[cpu] \in Nat
        /\ timer[cpu] # Off => timer[cpu] \in Nat
    BY <1>0, CellTypes
  <2>1. Clocks(cpu) /\ Kicks(cpu) /\ (timer[cpu] # Off => Armed(cpu))
    BY DEF SoftInv, SoftDetector
  <2>2. SamplePeriod' = SamplePeriod
    BY <1>1 DEF SamplePeriod
  <2>3. CASE ThreadTop(cpu)
    <3>1. UNCHANGED <<touch, kick>>
      BY <2>3 DEF ThreadTop
    <3>2. /\ thr[cpu] \in {"top", "stop"}
          /\ thr[cpu] = "top" /\ kick[cpu] => thr'[cpu] = "awake"
          /\ thr[cpu] = "top" /\ ~kick[cpu] => thr'[cpu] = "asleep"
          /\ thr[cpu] = "stop" => thr'[cpu] = "exited"
      BY <1>0, <2>3 DEF ThreadTop, TypeOK
    <3>3. Clocks(cpu)'
      BY <1>1, <2>1, <3>1 DEF Clocks, locks
    <3>4. Kicks(cpu)'
      BY <1>1, <2>1, <3>1, <3>2 DEF Kicks, control
    <3>5. Answering(cpu)' <=> Answering(cpu)
      BY <3>1, <3>2 DEF Answering
    <3>6. timer'[cpu] # Off => Armed(cpu)'
      BY <1>1, <2>1, <2>2, <3>1, <3>5 DEF Armed, locks, Max2
    <3> QED BY <3>3, <3>4, <3>6 DEF SoftDetector, Off
  <2>4. CASE ThreadTouch(cpu)
    <3>1. /\ ~kick'[cpu] /\ touch'[cpu] = now /\ thr[cpu] \in {"awake", "awakestop"}
          /\ thr[cpu] = "awake" => thr'[cpu] = "top"
          /\ thr[cpu] = "awakestop" => thr'[cpu] = "stop"
      BY <1>0, <2>4 DEF ThreadTouch, TypeOK
    <3>2. Clocks(cpu)'
      BY <1>1, <2>0, <2>1, <3>1 DEF Clocks, locks
    <3>3. Kicks(cpu)'
      BY <1>1, <2>1, <3>1 DEF Kicks, control
    <3>4. ~Answering(cpu)'
      BY <3>1 DEF Answering
    <3>5. timer'[cpu] # Off => Armed(cpu)'
      BY <1>0, <1>1, <2>0, <2>1, <2>2, <3>1, <3>4 DEF Armed, Clocks, locks
    <3> QED BY <3>2, <3>3, <3>5 DEF SoftDetector, Off
  <2> QED BY <2>3, <2>4
<1> QED BY <1>2, <1>3 DEF SoftInv

\* A lockup starts on a CPU whose thread has answered, and ends when it was meant
\* to.
LEMMA LockupSoft ==
  ASSUME UnloadIInv, SoftInv, NEW cpu \in CPUs, EndLockup(cpu) \/ StartLockup(cpu)
  PROVE  SoftInv'
<1>0. /\ TypeOK /\ SamplePeriod \in Nat \ {0} /\ thresh \in Nat
  BY PeriodRange DEF UnloadIInv
<1>1. UNCHANGED <<now, thresh, wd, control, armed>>
  BY DEF EndLockup, StartLockup
<1>2. ASSUME NEW i \in CPUs, i # cpu PROVE SoftDetector(i)'
  <2>1. UNCHANGED <<lock[i], since[i], until[i]>>
    <3>1. CASE EndLockup(cpu)
      BY <1>0, <1>2, <3>1 DEF EndLockup, TypeOK
    <3>2. CASE StartLockup(cpu)
      BY <1>0, <1>2, <3>2 DEF StartLockup, TypeOK
    <3> QED BY <3>1, <3>2
  <2>2. UNCHANGED Cell(i)
    BY <1>1, <2>1 DEF Cell, wd
  <2> QED BY <1>1, <2>2, SoftFrame DEF SoftInv, control
<1>3. SoftDetector(cpu)'
  <2>0. /\ now \in Nat /\ now >= 1 /\ touch[cpu] \in Nat /\ armed[cpu] \in Nat
        /\ since[cpu] \in Nat /\ until[cpu] \in Nat
        /\ timer[cpu] # Off => timer[cpu] \in Nat
        /\ lock[cpu] \in {"none", "soft", "hard"}
    BY <1>0, CellTypes
  <2>1. Clocks(cpu) /\ Kicks(cpu) /\ (timer[cpu] # Off => Armed(cpu))
    BY DEF SoftInv, SoftDetector
  <2>2. SamplePeriod' = SamplePeriod
    BY <1>1 DEF SamplePeriod
  <2>3. Kicks(cpu)'
    BY <1>1, <2>1 DEF Kicks, wd, control
  <2>4. CASE EndLockup(cpu)
    <3>1. lock[cpu] # "none" /\ lock'[cpu] = "none" /\ UNCHANGED <<since, until>> /\ until[cpu] <= now
      BY <1>0, <2>4 DEF EndLockup, TypeOK
    <3>2. now = until[cpu]
      BY <2>0, <2>1, <3>1 DEF Clocks
    <3>3. Clocks(cpu)'
      BY <1>1, <2>1, <3>1 DEF Clocks, wd
    <3>4. timer'[cpu] # Off => Armed(cpu)'
      BY <1>1, <2>0, <2>1, <2>2, <3>1, <3>2 DEF Armed, Answering, wd
    <3> QED BY <2>3, <3>3, <3>4 DEF SoftDetector, Off
  <2>5. CASE StartLockup(cpu)
    <3>1. PICK k \in LockKinds, secs \in LockSecs :
            /\ lock' = [lock EXCEPT ![cpu] = k]
            /\ until' = [until EXCEPT ![cpu] = now + secs]
      BY <2>5 DEF StartLockup
    <3>2. k \in {"soft", "hard"} /\ secs \in Nat
      BY LockupAssumption
    <3>3. lock'[cpu] \in {"soft", "hard"} /\ until'[cpu] = now + secs /\ since'[cpu] = now
      BY <1>0, <2>5, <3>1, <3>2 DEF StartLockup, TypeOK
    <3>4. lock[cpu] = "none" /\ (timer[cpu] # Off => now < timer[cpu]) /\ ~Answering(cpu)
      BY <2>0, <2>5 DEF StartLockup, Settled, TimerDue, IrqsOn, Runnable, Answering
    <3>5. Clocks(cpu)'
      BY <1>1, <2>0, <2>1, <3>2, <3>3 DEF Clocks, wd
    <3>6. ~Answering(cpu)'
      BY <1>1, <3>4 DEF Answering, wd
    <3>7. /\ Max2(since[cpu], armed[cpu])' \in Nat
          /\ now <= Max2(since[cpu], armed[cpu])'
      BY <1>1, <2>0, <3>3 DEF Max2
    <3>8. timer[cpu] # Off => timer[cpu] <= touch[cpu] + SamplePeriod /\ timer[cpu] <= now + SamplePeriod
      BY <2>1, <3>4 DEF Armed
    <3>9. touch[cpu] <= now
      BY <2>1 DEF Clocks
    <3>10. ASSUME timer[cpu] # Off PROVE Armed(cpu)'
      <4>1. touch[cpu] >= 1 /\ timer[cpu] >= 1
        BY <2>1, <3>10 DEF Armed
      <4>2. timer[cpu] <= Max2(since[cpu], armed[cpu])' + 2 * thresh + SamplePeriod
        BY <1>0, <2>0, <3>7, <3>8, <3>10
      <4>3. now <= touch[cpu] + SamplePeriod /\ now <= timer[cpu]
        BY <1>0, <2>0, <3>4, <3>8, <3>10
      <4>4. touch[cpu] <= Max2(since[cpu], armed[cpu])'
        BY <2>0, <3>7, <3>9
      <4> QED BY <1>1, <2>2, <3>3, <3>6, <3>8, <3>10, <4>1, <4>2, <4>3, <4>4 DEF Armed, wd
    <3> QED BY <1>1, <2>3, <3>5, <3>10 DEF SoftDetector, Off, wd
  <2> QED BY <2>4, <2>5
<1> QED BY <1>2, <1>3 DEF SoftInv

\* The steps of the commands; wd_start() has a thread for every CPU.
LEMMA CommandSoft ==
  ASSUME UnloadIInv, SoftInv, ~MayFailThread, Command \/ WdOn \/ WdOff \/ Rmmod
  PROVE  SoftInv'
<1>0. TypeOK /\ Stages /\ SamplePeriod \in Nat \ {0} /\ thresh \in Nat
  BY PeriodRange DEF UnloadIInv
<1>1. ASSUME NEW cpu \in CPUs, StartHrtimerLocal(cpu) PROVE SoftInv'
  <2>1. /\ UNCHANGED <<now, thresh, kick, thr, softRep, ctl, locks>>
        /\ ctl = "start" /\ cpu \in todo /\ lock[cpu] # "hard" /\ todo' = todo \ {cpu}
    BY <1>1 DEF StartHrtimerLocal, IrqsOn
  <2>2. ASSUME NEW i \in CPUs, i # cpu PROVE SoftDetector(i)'
    <3>1. UNCHANGED <<touch[i], timer[i], armed[i]>>
      BY <1>0, <1>1, <2>2 DEF StartHrtimerLocal, TypeOK
    <3>2. UNCHANGED Cell(i)
      BY <2>1, <3>1 DEF Cell, locks
    <3> QED BY <2>1, <3>2, SoftFrame DEF SoftInv
  <2>3. SoftDetector(cpu)'
    <3>0. /\ now \in Nat /\ now >= 1 /\ since[cpu] \in Nat /\ until[cpu] \in Nat
          /\ lock[cpu] \in {"none", "soft", "hard"}
      BY <1>0, CellTypes
    <3>1. Clocks(cpu) /\ Kicks(cpu)
      BY DEF SoftInv, SoftDetector
    <3>2. touch'[cpu] = now /\ timer'[cpu] = now + SamplePeriod /\ armed'[cpu] = now
      BY <1>0, <1>1 DEF StartHrtimerLocal, TypeOK
    <3>3. SamplePeriod' = SamplePeriod
      BY <2>1 DEF SamplePeriod
    <3>4. ~softRep[cpu] /\ thr[cpu] \in {"top", "asleep", "awake"}
      BY <2>1, <3>1 DEF Kicks
    <3>5. Clocks(cpu)'
      BY <2>1, <3>0, <3>1, <3>2 DEF Clocks, locks
    <3>6. Kicks(cpu)'
      BY <2>1, <3>1, <3>4 DEF Kicks
    <3>7. /\ Max2(since[cpu], armed[cpu])' \in Nat
          /\ now <= Max2(since[cpu], armed[cpu])'
      BY <2>1, <3>0, <3>2 DEF Max2, locks
    <3>8. now + SamplePeriod <= Max2(since[cpu], armed[cpu])' + 2 * thresh + SamplePeriod
      BY <1>0, <3>0, <3>7
    <3>9. /\ now <= now + SamplePeriod /\ now < now + SamplePeriod /\ 1 <= now + SamplePeriod
          /\ now + SamplePeriod <= now + SamplePeriod
      BY <1>0, <3>0
    <3>10. since[cpu] <= now + SamplePeriod
      BY <1>0, <3>0, <3>1 DEF Clocks
    <3>11. Armed(cpu)'
      BY <2>1, <3>0, <3>2, <3>3, <3>4, <3>7, <3>8, <3>9, <3>10 DEF Armed, locks
    <3> QED BY <3>5, <3>6, <3>11 DEF SoftDetector
  <2> QED BY <2>2, <2>3 DEF SoftInv
<1>2. CASE WdOnDone \/ WdOffDone \/ WdOff \/ Rmmod
  <2>1. UNCHANGED <<now, thresh, wd, locks, armed>> /\ ctl' # "start"
    BY <1>2 DEF WdOnDone, WdOffDone, WdOff, Rmmod
  <2>2. ASSUME NEW i \in CPUs PROVE SoftDetector(i)'
    <3>1. UNCHANGED Cell(i)
      BY <2>1 DEF Cell, wd, locks
    <3> QED BY <2>1, <3>1, SoftFrame DEF SoftInv
  <2> QED BY <2>2 DEF SoftInv
<1>3. CASE HrtimerCancel
  <2>1. UNCHANGED <<now, thresh, touch, kick, thr, softRep, locks, armed>> /\ ctl' # "start"
    BY <1>3 DEF HrtimerCancel
  <2>2. First(todo) \in CPUs /\ timer' = [timer EXCEPT ![First(todo)] = Off]
    BY <1>0, <1>3, FirstCpu DEF HrtimerCancel, TypeOK
  <2>3. ASSUME NEW i \in CPUs PROVE SoftDetector(i)'
    <3>1. CASE i = First(todo)
      <4>1. timer'[i] = Off
        BY <1>0, <2>2, <3>1 DEF TypeOK
      <4>2. Clocks(i) /\ Kicks(i)
        BY DEF SoftInv, SoftDetector
      <4>3. Clocks(i)'
        BY <2>1, <4>2 DEF Clocks, locks
      <4>4. Kicks(i)'
        BY <2>1, <4>1, <4>2 DEF Kicks, Off
      <4> QED BY <4>1, <4>3, <4>4 DEF SoftDetector, Off
    <3>2. CASE i # First(todo)
      <4>1. UNCHANGED timer[i]
        BY <1>0, <2>2, <3>2 DEF TypeOK
      <4>2. UNCHANGED Cell(i)
        BY <2>1, <4>1 DEF Cell, locks
      <4> QED BY <2>1, <4>2, SoftFrame DEF SoftInv
    <3> QED BY <3>1, <3>2
  <2> QED BY <2>3 DEF SoftInv
<1>4. CASE KthreadStop \/ KthreadStopped
  <2>1. /\ UNCHANGED <<now, thresh, timer, touch, kick, softRep, locks, armed, ctl>>
        /\ ctl \in {"stop", "exitstop"}
    BY <1>4 DEF KthreadStop, KthreadStopped, control
  <2>2. First(todo) \in CPUs
    BY <1>0, <1>4, FirstCpu DEF KthreadStop, KthreadStopped, TypeOK
  <2>3. ASSUME NEW i \in CPUs PROVE SoftDetector(i)'
    <3>1. timer'[i] = Off
      BY <1>0, <2>1 DEF Stages
    <3>2. Clocks(i) /\ Kicks(i)
      BY DEF SoftInv, SoftDetector
    <3>3. Clocks(i)'
      BY <2>1, <3>2 DEF Clocks, locks
    <3>4. thr'[i] = "asleep" => thr[i] = "asleep"
      <4>1. CASE KthreadStop
        BY <1>0, <4>1, <2>2 DEF KthreadStop, TypeOK
      <4>2. CASE KthreadStopped
        BY <1>0, <4>2, <2>2 DEF KthreadStopped, TypeOK
      <4> QED BY <1>4, <4>1, <4>2
    <3>5. Kicks(i)'
      BY <2>1, <3>1, <3>2, <3>4 DEF Kicks, Off
    <3> QED BY <3>1, <3>3, <3>5 DEF SoftDetector, Off
  <2> QED BY <2>3 DEF SoftInv
<1>5. CASE WdOn
  <2>1. UNCHANGED <<now, timer, touch, locks>> /\ ctl = "idle" /\ ~wdRunning
    BY <1>5 DEF WdOn
  <2>2. PICK got \in SUBSET CPUs :
          /\ ~MayFailThread => got = CPUs
          /\ thr' = [i \in CPUs |-> IF i \in got THEN "top" ELSE "none"]
          /\ softRep' = [i \in CPUs |-> i \notin got /\ softRep[i]]
    BY <1>5 DEF WdOn
  <2>3. got = CPUs
    BY <2>2
  <2>4. ASSUME NEW i \in CPUs PROVE SoftDetector(i)'
    <3>1. timer'[i] = Off
      BY <1>0, <2>1 DEF Stages
    <3>2. thr'[i] = "top"
      BY <2>2, <2>3
    <3>3. ~softRep'[i]
      BY <2>2, <2>3
    <3>4. Clocks(i)
      BY DEF SoftInv, SoftDetector
    <3>5. Clocks(i)'
      BY <2>1, <3>4 DEF Clocks, locks
    <3>6. Kicks(i)'
      BY <3>1, <3>2, <3>3 DEF Kicks
    <3> QED BY <3>1, <3>5, <3>6 DEF SoftDetector, Off
  <2> QED BY <2>4 DEF SoftInv
<1> QED BY <1>1, <1>2, <1>3, <1>4, <1>5 DEF Command

\* "thresh" does not shorten the period.
LEMMA RaisedPeriod ==
  ASSUME TypeOK, ThreshOnlyRaised, SetThresh
  PROVE  /\ thresh \in Nat /\ thresh' \in Nat /\ thresh <= thresh'
         /\ SamplePeriod \in Nat /\ SamplePeriod' \in Nat /\ SamplePeriod <= SamplePeriod'
<1>1. PICK t \in Nat : ThreshValues \subseteq {t} /\ t >= InitThresh
  BY DEF ThreshOnlyRaised
<1>2. thresh' \in ThreshValues \ {thresh}
  BY DEF SetThresh
<1>3. thresh' = t /\ thresh = InitThresh
  BY <1>1, <1>2 DEF TypeOK
<1>4. InitThresh \in Nat /\ InitThresh % 5 = 0 /\ t % 5 = 0
  BY <1>1, <1>2, <1>3, LockupAssumption
<1>5. thresh \in Nat /\ thresh' \in Nat /\ thresh <= thresh'
  BY <1>1, <1>3, <1>4
<1>6. SamplePeriod = (InitThresh * 2) \div 5 /\ SamplePeriod' = (t * 2) \div 5
  BY <1>3 DEF SamplePeriod
<1>7. SamplePeriod \in Nat /\ SamplePeriod' \in Nat /\ SamplePeriod <= SamplePeriod'
  BY <1>1, <1>4, <1>6
<1> QED BY <1>5, <1>7

\* A longer period and a higher limit leave every distance in bounds.
LEMMA ThreshSoft ==
  ASSUME UnloadIInv, SoftInv, ThreshOnlyRaised, SetThresh
  PROVE  SoftInv'
<1>0. TypeOK
  BY DEF UnloadIInv
<1>1. UNCHANGED <<now, wd, control, locks, armed>>
  BY DEF SetThresh
<1>2. thresh \in Nat /\ thresh' \in Nat /\ thresh <= thresh'
  BY <1>0, RaisedPeriod
<1>3. SamplePeriod \in Nat /\ SamplePeriod' \in Nat /\ SamplePeriod <= SamplePeriod'
  BY <1>0, RaisedPeriod
<1>4. ASSUME NEW i \in CPUs PROVE SoftDetector(i)'
  <2>0. /\ now \in Nat /\ touch[i] \in Nat /\ armed[i] \in Nat
        /\ since[i] \in Nat /\ until[i] \in Nat
        /\ timer[i] # Off => timer[i] \in Nat
    BY <1>0, CellTypes
  <2>1. Clocks(i) /\ Kicks(i) /\ (timer[i] # Off => Armed(i))
    BY DEF SoftInv, SoftDetector
  <2>2. Clocks(i)'
    BY <1>1, <2>1 DEF Clocks, wd, locks
  <2>3. Kicks(i)'
    BY <1>1, <2>1 DEF Kicks, wd, control
  <2>4. Answering(i)' <=> Answering(i)
    BY <1>1 DEF Answering, wd
  <2>5. /\ Max2(since[i], armed[i])' = Max2(since[i], armed[i])
        /\ Max2(since[i], armed[i]) \in Nat
    BY <1>1, <2>0 DEF Max2, locks
  <2>6. timer'[i] # Off => Armed(i)'
    BY <1>1, <1>2, <1>3, <2>0, <2>1, <2>4, <2>5 DEF Armed, wd, locks
  <2> QED BY <2>2, <2>3, <2>6 DEF SoftDetector, Off
<1> QED BY <1>4 DEF SoftInv

\* The clock moves only when no timer of a CPU that takes interrupts is due, no
\* thread can run, and no lockup is over.
LEMMA TickSoft ==
  ASSUME UnloadIInv, SoftInv, Tick
  PROVE  SoftInv'
<1>0. TypeOK /\ SamplePeriod \in Nat \ {0}
  BY PeriodRange DEF UnloadIInv
<1>1. UNCHANGED <<thresh, wd, control, locks, armed>> /\ now' = now + 1
  BY DEF Tick
<1>2. ASSUME NEW i \in CPUs PROVE SoftDetector(i)'
  <2>0. /\ now \in Nat /\ touch[i] \in Nat /\ armed[i] \in Nat
        /\ since[i] \in Nat /\ until[i] \in Nat
        /\ timer[i] # Off => timer[i] \in Nat
        /\ lock[i] \in {"none", "soft", "hard"}
    BY <1>0, CellTypes
  <2>1. Clocks(i) /\ Kicks(i) /\ (timer[i] # Off => Armed(i))
    BY DEF SoftInv, SoftDetector
  <2>2. /\ lock[i] # "none" => now < until[i]
        /\ timer[i] # Off /\ lock[i] # "hard" => now < timer[i]
        /\ lock[i] = "none" => ~Answering(i)
    BY <2>0 DEF Tick, Settled, TimerDue, IrqsOn, Runnable, Answering
  <2>3. Clocks(i)'
    BY <1>1, <2>0, <2>1, <2>2 DEF Clocks, wd, locks
  <2>4. Kicks(i)'
    BY <1>1, <2>1 DEF Kicks, wd, control
  <2>5. Answering(i)' <=> Answering(i)
    BY <1>1 DEF Answering, wd
  <2>6. Max2(since[i], armed[i])' = Max2(since[i], armed[i])
    BY <1>1 DEF Max2, locks
  <2>7. SamplePeriod' = SamplePeriod
    BY <1>1 DEF SamplePeriod
  <2>8. lock[i] = "none" => until[i] # now + 1
    BY <2>0, <2>1 DEF Clocks
  <2>9. timer'[i] # Off => Armed(i)'
    BY <1>0, <1>1, <2>0, <2>1, <2>2, <2>5, <2>6, <2>7, <2>8 DEF Armed, wd, locks
  <2> QED BY <2>3, <2>4, <2>9 DEF SoftDetector, Off
<1> QED BY <1>2 DEF SoftInv

\* The distances hold in every reachable state.
LEMMA LockupSoftInv ==
  ASSUME ~MayFailThread, ThreshOnlyRaised
  PROVE  Spec => []SoftInv
<1>1. Init => SoftInv
  <2> SUFFICES ASSUME Init, NEW i \in CPUs PROVE SoftDetector(i)
    BY DEF SoftInv
  <2>1. Clocks(i)
    BY DEF Init, Clocks
  <2>2. Kicks(i)
    BY DEF Init, Kicks
  <2>3. timer[i] = Off
    BY DEF Init
  <2> QED BY <2>1, <2>2, <2>3 DEF SoftDetector
<1>2. UnloadIInv /\ SoftInv /\ [Next]_vars => SoftInv'
  <2> SUFFICES ASSUME UnloadIInv, SoftInv, [Next]_vars PROVE SoftInv'
    OBVIOUS
  <2>1. CASE Command \/ WdOn \/ WdOff \/ Rmmod
    BY <2>1, CommandSoft
  <2>2. CASE SetThresh
    BY <2>2, ThreshSoft
  <2>3. CASE Tick
    BY <2>3, TickSoft
  <2>4. ASSUME NEW cpu \in CPUs, Cpu(cpu) \/ StartLockup(cpu) PROVE SoftInv'
    BY <2>4, WdTimerSoft, ThreadSoft, LockupSoft DEF Cpu
  <2>5. CASE UNCHANGED vars
    <3>1. ASSUME NEW i \in CPUs PROVE SoftDetector(i)'
      <4>1. UNCHANGED Cell(i) /\ UNCHANGED <<now, thresh, ctl, todo>>
        BY <2>5 DEF vars, wd, locks, control, Cell
      <4> QED BY <4>1, SoftFrame DEF SoftInv
    <3> QED BY <3>1 DEF SoftInv
  <2> QED BY <2>1, <2>2, <2>3, <2>4, <2>5 DEF Next, Unloaded, Horizon
<1> QED BY <1>1, <1>2, LockupUnloadIInv, PTL DEF Spec

\* The soft lockup flag of a CPU follows the CPU's state within one sample period
\* each way, for every number of CPUs, every thresh that is a multiple of five
\* seconds and may be raised once, and every schedule of "wd on", "wd off" and
\* lockups, provided that every CPU got its thread.
THEOREM LockupSoftFollows ==
  ASSUME ~MayFailThread, ThreshOnlyRaised
  PROVE  Spec => []SoftFollows
<1>1. ASSUME UnloadIInv, SoftInv PROVE SoftFollows
  <2>0. TypeOK /\ Stages /\ SamplePeriod \in Nat \ {0} /\ thresh \in Nat
    BY <1>1, PeriodRange DEF UnloadIInv
  <2>1. ASSUME NEW i \in CPUs, wdRunning, ctl = "idle", lock[i] = "soft",
               now - Max2(since[i], armed[i]) > 2 * thresh + SamplePeriod, ~softRep[i]
        PROVE  FALSE
    <3>1. timer[i] # Off
      BY <2>0, <2>1 DEF Stages
    <3>2. /\ now \in Nat /\ timer[i] \in Nat /\ since[i] \in Nat /\ armed[i] \in Nat
      BY <2>0, <3>1, CellTypes
    <3>3. Max2(since[i], armed[i]) \in Nat
      BY <3>2 DEF Max2
    <3>4. now <= timer[i] /\ timer[i] <= Max2(since[i], armed[i]) + 2 * thresh + SamplePeriod
      BY <1>1, <2>1, <3>1 DEF SoftInv, SoftDetector, Armed
    <3> QED BY <2>0, <2>1, <3>2, <3>3, <3>4
  <2>2. ASSUME NEW i \in CPUs, wdRunning, ctl = "idle", softRep[i], lock[i] = "none"
        PROVE  now - until[i] <= SamplePeriod
    <3>1. timer[i] # Off
      BY <2>0, <2>2 DEF Stages
    <3>2. now \in Nat /\ timer[i] \in Nat /\ until[i] \in Nat
      BY <2>0, <3>1, CellTypes
    <3>3. timer[i] <= until[i] + SamplePeriod /\ (now <= timer[i] \/ now = until[i])
      BY <1>1, <2>2, <3>1 DEF SoftInv, SoftDetector, Armed
    <3> QED BY <2>0, <3>2, <3>3
  <2>3. SoftCaught
    BY <2>1 DEF SoftCaught
  <2>4. SoftClears
    BY <2>2 DEF SoftClears
  <2> QED BY <2>3, <2>4 DEF SoftFollows
<1> QED BY <1>1, LockupUnloadIInv, LockupSoftInv, PTL

\* A "soft lockup" line is never printed for a CPU that was free: the step that
\* raises a CPU's flag is a tick of its own timer, on a CPU that has been locked up
\* for more than 2 * thresh seconds, less one sample period, up to now.
THEOREM LockupSoftTruthful ==
  ASSUME ~MayFailThread, ThreshOnlyRaised
  PROVE  Spec => SoftTruthful
<1> DEFINE Truthful(i) ==
      softRep'[i] /\ ~softRep[i] =>
        until[i] >= now /\ now - since[i] > 2 * thresh - SamplePeriod
<1>1. ASSUME UnloadIInv, SoftInv, [Next]_vars, NEW i \in CPUs PROVE Truthful(i)
  <2>0. TypeOK /\ SamplePeriod \in Nat \ {0} /\ thresh \in Nat
    BY <1>1, PeriodRange DEF UnloadIInv
  <2>1. CASE WdTimer(i)
    <3>1. /\ timer[i] # Off /\ (softRep'[i] <=> now > touch[i] + 2 * thresh)
          /\ lock[i] = "soft" \/ lock[i] = "none"
          /\ lock[i] = "none" /\ now # until[i] => ~softRep'[i]
      BY <1>1, <2>1, SoftTick DEF SoftInv
    <3>2. Clocks(i) /\ Armed(i)
      BY <1>1, <3>1 DEF SoftInv, SoftDetector
    <3>3. now \in Nat /\ touch[i] \in Nat /\ since[i] \in Nat /\ until[i] \in Nat
      BY <2>0, <1>1, CellTypes
    <3>4. SUFFICES ASSUME softRep'[i] PROVE until[i] >= now /\ now - since[i] > 2 * thresh - SamplePeriod
      OBVIOUS
    <3>5. lock[i] = "soft" \/ now = until[i]
      BY <3>1, <3>4
    <3>6. until[i] >= now
      BY <3>2, <3>3, <3>5 DEF Clocks
    <3>7. since[i] <= touch[i] + SamplePeriod /\ now > touch[i] + 2 * thresh
      BY <3>1, <3>2, <3>4, <3>5 DEF Armed
    <3> QED BY <2>0, <3>3, <3>6, <3>7
  <2>2. ASSUME NEW cpu \in CPUs, cpu # i, WdTimer(cpu) PROVE Truthful(i)
    BY <2>0, <2>2 DEF WdTimer, CheckTouch, TypeOK
  <2>3. CASE WdOn
    BY <2>3 DEF WdOn
  <2>4. ASSUME UNCHANGED softRep PROVE Truthful(i)
    BY <2>4
  <2>5. Command \/ SetThresh \/ WdOff \/ Rmmod \/ Tick => UNCHANGED softRep
    BY DEF Command, StartHrtimerLocal, WdOnDone, HrtimerCancel, KthreadStop, KthreadStopped,
           WdOffDone, SetThresh, WdOff, Rmmod, Tick, wd
  <2>6. \A cpu \in CPUs :
          ThreadTop(cpu) \/ ThreadTouch(cpu) \/ EndLockup(cpu) \/ StartLockup(cpu)
            => UNCHANGED softRep
    BY DEF ThreadTop, ThreadTouch, EndLockup, StartLockup, wd
  <2>7. UNCHANGED vars => UNCHANGED softRep
    BY DEF vars, wd
  <2> HIDE DEF Truthful
  <2>8. \A cpu \in CPUs : WdTimer(cpu) => Truthful(i)
    BY <2>1, <2>2
  <2> QED BY <1>1, <2>3, <2>4, <2>5, <2>6, <2>7, <2>8 DEF Next, Cpu, Unloaded, Horizon
<1>2. UnloadIInv /\ SoftInv /\ [Next]_vars => [\A i \in CPUs : Truthful(i)]_vars
  BY <1>1
<1> QED BY <1>2, LockupUnloadIInv, LockupSoftInv, PTL DEF Spec, SoftTruthful

-----------------------------------------------------------------------------
(* The hard lockup detector.                                               *)

\* next_cpu_of() gives no two CPUs the same neighbour: every CPU is watched by
\* one CPU only.
LEMMA OneWatcher ==
  ASSUME NEW j \in CPUs, NEW k \in CPUs, NextCpuOf(j) = NextCpuOf(k)
  PROVE  j = k
<1> DEFINE Above(c) == {d \in CPUs : d > c}
           From(c) == IF Above(c) = {} THEN CPUs ELSE Above(c)
<1>0. CPUs \subseteq Nat
  BY LockupAssumption
<1>1. ASSUME NEW c \in CPUs
      PROVE  NextCpuOf(c) \in From(c) /\ \A e \in From(c) : NextCpuOf(c) <= e
  <2>1. From(c) \in SUBSET Nat /\ From(c) # {}
    BY <1>0
  <2>2. \E d \in From(c) : \A e \in From(c) : d <= e
    BY <2>1, SmallestElement
  <2>3. NextCpuOf(c) = CHOOSE d \in From(c) : \A e \in From(c) : d <= e
    BY DEF NextCpuOf
  <2> HIDE DEF From
  <2> QED BY <2>2, <2>3
<1>2. ASSUME NEW a \in CPUs, NEW b \in CPUs, a < b PROVE NextCpuOf(a) # NextCpuOf(b)
  <2>1. b \in From(a) /\ From(a) = Above(a)
    BY <1>2
  <2>2. NextCpuOf(a) > a /\ NextCpuOf(a) <= b /\ NextCpuOf(a) \in CPUs
    BY <1>1, <2>1
  <2>3. NextCpuOf(b) > b \/ NextCpuOf(b) <= a
    BY <1>1
  <2>4. NextCpuOf(b) \in CPUs
    BY Neighbour
  <2>5. \A x, y \in CPUs : x > a /\ x <= b /\ (y > b \/ y <= a) => x # y
    BY <1>0
  <2> QED BY <2>2, <2>3, <2>4, <2>5, Zenon
<1>3. j < k \/ k < j \/ j = k
  BY <1>0
<1> QED BY <1>2, <1>3

\* The next comparison lies at most three periods after a tick that is at most
\* one period away.
LEMMA CheckAtRange ==
  ASSUME UnloadIInv, NEW j \in CPUs, timer[j] # Off
  PROVE  /\ CheckAt(j) \in Nat /\ timer[j] <= CheckAt(j)
         /\ CheckAt(j) <= timer[j] + 2 * SamplePeriod
<1>1. SamplePeriod \in Nat /\ timer[j] \in Nat
  BY PeriodRange, CellTypes DEF UnloadIInv
<1> QED BY <1>1 DEF CheckAt

\* What HardWatch reads of the watching and of the watched CPU.
Watcher(j) == <<timer[j], ticks[j], armed[j], offUntil[j]>>
Watched(i) == <<lock[i], since[i], saved[i], ticks[i], hardRep[i]>>

\* Steps that leave these alone.
LEMMA HardFrame ==
  ASSUME NEW i \in CPUs, NEW j \in CPUs, HardWatch(i, j),
         UNCHANGED thresh, UNCHANGED Watcher(j), UNCHANGED Watched(i)
  PROVE  HardWatch(i, j)'
<1>1. SamplePeriod' = SamplePeriod
  BY DEF SamplePeriod
<1>2. CheckAt(j)' = CheckAt(j)
  BY <1>1 DEF CheckAt, Watcher
<1>3. Max2(since[i], armed[j])' = Max2(since[i], armed[j])
  BY DEF Max2, Watcher, Watched
<1> QED BY <1>1, <1>2, <1>3 DEF HardWatch, Watcher, Watched, Off

\* Steps that leave a CPU's timer and lockup alone keep it prompt.
LEMMA PromptFrame ==
  ASSUME NEW j \in CPUs, Prompt(j), UNCHANGED <<now, timer[j], lock[j], until[j], offUntil[j]>>
  PROVE  Prompt(j)'
  BY DEF Prompt, Off

\* A tick of CPU cpu's timer: a comparison is due every third time.
LEMMA WdTimerHard ==
  ASSUME UnloadIInv, SoftInv, HardInv, NEW cpu \in CPUs, WdTimer(cpu)
  PROVE  HardInv'
<1>0. TypeOK /\ SamplePeriod \in Nat \ {0}
  BY PeriodRange DEF UnloadIInv
<1>1. UNCHANGED <<now, thresh, touch, control, locks, armed>>
  BY DEF WdTimer
<1>2. /\ timer[cpu] # Off /\ timer'[cpu] \in Nat /\ timer[cpu] <= now
      /\ now < timer'[cpu] /\ timer'[cpu] <= now + SamplePeriod /\ lock[cpu] # "hard"
  BY SoftTick DEF SoftInv, WdTimer, TimerDue
<1>3. ticks' = [ticks EXCEPT ![cpu] = ticks[cpu] + 1] /\ ticks[cpu] \in Nat
  BY <1>0 DEF WdTimer, TypeOK
<1>4. \A j \in CPUs : j # cpu => UNCHANGED <<timer[j], ticks[j]>>
  BY <1>0, <1>3 DEF WdTimer, TypeOK
<1>5. now \in Nat /\ timer[cpu] \in Nat
  BY <1>0, <1>2, CellTypes
<1>6. ASSUME NEW j \in CPUs PROVE Prompt(j)'
  <2>1. CASE j # cpu
    BY <1>1, <1>4, <2>1, PromptFrame DEF HardInv, locks
  <2>2. CASE j = cpu
    BY <1>1, <1>2, <1>5, <2>2 DEF HardInv, Prompt, locks
  <2> QED BY <2>1, <2>2
<1>7. ASSUME NEW j \in CPUs, NextCpuOf(j) # j PROVE HardWatch(NextCpuOf(j), j)'
  <2> DEFINE i == NextCpuOf(j)
  <2>0. i \in CPUs /\ HardWatch(i, j)
    BY <1>7, Neighbour DEF HardInv
  <2>1. CASE i = cpu
    BY <1>1, <1>2, <2>1 DEF HardWatch, locks
  <2>2. CASE i # cpu /\ j # cpu
    <3>1. NextCpuOf(cpu) # i /\ NextCpuOf(cpu) \in CPUs
      BY <2>2, OneWatcher, Neighbour
    <3> HIDE DEF i
    <3>2. UNCHANGED <<hardRep[i], saved[i]>>
      BY <1>0, <2>0, <3>1 DEF WdTimer, CheckNeighbour, TypeOK
    <3>3. UNCHANGED Watcher(j) /\ UNCHANGED Watched(i)
      BY <1>1, <1>4, <2>0, <2>2, <3>2 DEF Watcher, Watched, locks
    <3>4. HardWatch(i, j)'
      BY <1>1, <2>0, <3>3, HardFrame
    <3> QED BY <3>4 DEF i
  <2>3. CASE j = cpu
    <3>1. NextCpuOf(cpu) = i /\ i # cpu
      BY <1>7, <2>3
    <3> HIDE DEF i
    <3>2. ticks'[i] = ticks[i] /\ ticks'[cpu] = ticks[cpu] + 1 /\ ticks \in [CPUs -> Nat]
      BY <1>0, <1>3, <2>0, <3>1 DEF TypeOK
    <3>3. SamplePeriod' = SamplePeriod /\ Max2(since[i], armed[j])' = Max2(since[i], armed[j])
      BY <1>1 DEF SamplePeriod, Max2, locks
    <3>4. SUFFICES ASSUME lock[i] = "hard", offUntil[j] < since[i]
                   PROVE  /\ saved'[i] # ticks'[i] =>
                               CheckAt(j)' <= Max2(since[i], armed[j]) + 3 * SamplePeriod
                          /\ ~hardRep'[i] =>
                               CheckAt(j)' <= Max2(since[i], armed[j]) + 6 * SamplePeriod
      <4>1. HardWatch(i, j)'
        BY <1>1, <3>3, <3>4 DEF HardWatch, locks
      <4> QED BY <4>1 DEF i
    <3>5. /\ saved[i] # ticks[i] => CheckAt(j) <= Max2(since[i], armed[j]) + 3 * SamplePeriod
          /\ ~hardRep[i] => CheckAt(j) <= Max2(since[i], armed[j]) + 6 * SamplePeriod
      BY <1>2, <2>0, <2>3, <3>4 DEF HardWatch
    <3>6. now = timer[j]
      <4>1. since[i] <= now /\ since[i] \in Nat
        BY <1>0, <2>0, CellTypes DEF SoftInv, SoftDetector, Clocks
      <4>2. offUntil[j] < now
        BY <1>0, <1>5, <3>4, <4>1 DEF TypeOK, Off
      <4>3. now <= timer[j]
        BY <1>2, <2>3, <4>2 DEF HardInv, Prompt
      <4> QED BY <1>2, <1>5, <2>3, <4>3
    <3>7. Max2(since[i], armed[j]) \in Nat
      BY <1>0, <2>0, CellTypes DEF Max2
    <3>8. CASE ticks[cpu] % 3 = 2
      <4>1. ticks'[cpu] % 3 = 0
        BY <3>2, <3>8
      <4>2. /\ hardRep' = [hardRep EXCEPT ![i] = saved[i] = ticks[i]]
            /\ saved' = [saved EXCEPT ![i] = ticks[i]]
        BY <3>1, <3>2, <4>1 DEF WdTimer, CheckNeighbour
      <4>3. saved'[i] = ticks'[i] /\ (hardRep'[i] <=> saved[i] = ticks[i])
        BY <1>0, <2>0, <3>2, <4>2 DEF TypeOK
      <4>4. CheckAt(j) = now /\ CheckAt(j)' = timer'[cpu] + 2 * SamplePeriod
        BY <1>5, <2>3, <3>3, <3>6, <3>8, <4>1 DEF CheckAt
      <4>5. ASSUME ~hardRep'[i]
            PROVE  CheckAt(j)' <= Max2(since[i], armed[j]) + 6 * SamplePeriod
        <5>1. saved[i] # ticks[i]
          BY <4>3, <4>5
        <5>2. now <= Max2(since[i], armed[j]) + 3 * SamplePeriod
          BY <3>5, <4>4, <5>1
        <5> QED BY <1>0, <1>2, <1>5, <3>7, <4>4, <5>2
      <4> QED BY <4>3, <4>5
    <3>9. CASE ticks[cpu] % 3 # 2
      <4>1. ticks'[cpu] % 3 # 0
        BY <1>3, <3>2, <3>9
      <4>2. UNCHANGED <<hardRep, saved>>
        BY <4>1 DEF WdTimer, CheckNeighbour
      <4>3. CheckAt(j)' <= CheckAt(j)
        <5>1. CASE ticks[cpu] % 3 = 0
          <6>1. ticks'[cpu] % 3 = 1
            BY <1>3, <3>2, <5>1
          <6>2. CheckAt(j) = timer[cpu] + 2 * SamplePeriod /\ CheckAt(j)' = timer'[cpu] + SamplePeriod
            BY <2>3, <3>3, <5>1, <6>1 DEF CheckAt
          <6> QED BY <1>0, <1>2, <1>5, <2>3, <3>6, <6>2
        <5>2. CASE ticks[cpu] % 3 = 1
          <6>1. ticks'[cpu] % 3 = 2
            BY <1>3, <3>2, <5>2
          <6>2. CheckAt(j) = timer[cpu] + SamplePeriod /\ CheckAt(j)' = timer'[cpu]
            BY <1>2, <2>3, <3>3, <5>2, <6>1 DEF CheckAt
          <6> QED BY <1>0, <1>2, <1>5, <2>3, <3>6, <6>2
        <5> QED BY <1>3, <3>9, <5>1, <5>2
      <4>4. CheckAt(j) \in Nat /\ CheckAt(j)' \in Nat
        <5>1. CheckAt(j) \in Nat
          BY <1>2, <2>3, CheckAtRange
        <5>2. CheckAt(j)' \in Nat
          BY <1>0, <1>2, <2>3, <3>3 DEF CheckAt
        <5> QED BY <5>1, <5>2
      <4> QED BY <1>0, <3>2, <3>5, <3>7, <4>2, <4>3, <4>4
    <3> QED BY <3>8, <3>9
  <2> QED BY <2>1, <2>2, <2>3
<1> QED BY <1>6, <1>7 DEF HardInv

\* The start and the end of a lockup: a CPU that is locked up hard cannot be the
\* one that watches, and its own watcher compares it within three periods.
LEMMA LockupHard ==
  ASSUME UnloadIInv, SoftInv, HardInv, NEW cpu \in CPUs, EndLockup(cpu) \/ StartLockup(cpu)
  PROVE  HardInv'
<1>0. TypeOK /\ SamplePeriod \in Nat \ {0}
  BY PeriodRange DEF UnloadIInv
<1>1. UNCHANGED <<now, thresh, wd, control, armed>>
  BY DEF EndLockup, StartLockup
<1>2. CASE EndLockup(cpu)
  <2>1. /\ lock[cpu] # "none" /\ until[cpu] <= now /\ lock' = [lock EXCEPT ![cpu] = "none"]
        /\ UNCHANGED <<since, until, kind, offUntil>>
    BY <1>2 DEF EndLockup
  <2>2. ASSUME NEW j \in CPUs PROVE Prompt(j)'
    <3>1. lock'[j] = "none" \/ lock'[j] = lock[j]
      BY <1>0, <2>1 DEF TypeOK
    <3> QED BY <1>1, <2>1, <3>1 DEF HardInv, Prompt, wd
  <2>3. ASSUME NEW j \in CPUs, NextCpuOf(j) # j PROVE HardWatch(NextCpuOf(j), j)'
    <3> DEFINE i == NextCpuOf(j)
    <3>0. i \in CPUs /\ HardWatch(i, j)
      BY <2>3, Neighbour DEF HardInv
    <3> HIDE DEF i
    <3>1. CASE i = cpu
      <4>1. lock'[i] # "hard"
        BY <1>0, <2>1, <3>1 DEF TypeOK
      <4>2. HardWatch(i, j)'
        BY <4>1 DEF HardWatch
      <4> QED BY <4>2 DEF i
    <3>2. CASE i # cpu
      <4>1. lock'[i] = lock[i]
        BY <1>0, <2>1, <3>0, <3>2 DEF TypeOK
      <4>2. UNCHANGED Watcher(j) /\ UNCHANGED Watched(i)
        BY <1>1, <2>1, <4>1 DEF Watcher, Watched, wd
      <4>3. HardWatch(i, j)'
        BY <1>1, <3>0, <4>2, HardFrame
      <4> QED BY <4>3 DEF i
    <3> QED BY <3>1, <3>2
  <2> QED BY <2>2, <2>3 DEF HardInv
<1>3. CASE StartLockup(cpu)
  <2>1. PICK k \in LockKinds, secs \in LockSecs :
          /\ lock' = [lock EXCEPT ![cpu] = k]
          /\ until' = [until EXCEPT ![cpu] = now + secs]
          /\ offUntil' = [offUntil EXCEPT ![cpu] = IF k = "hard" THEN now + secs ELSE @]
    BY <1>3 DEF StartLockup
  <2>2. k \in {"soft", "hard"} /\ secs \in Nat /\ now \in Nat
    BY <1>0, LockupAssumption, CellTypes
  <2>3. /\ lock'[cpu] = k /\ until'[cpu] = now + secs /\ since'[cpu] = now
        /\ offUntil'[cpu] = IF k = "hard" THEN now + secs ELSE offUntil[cpu]
    BY <1>0, <1>3, <2>1 DEF StartLockup, TypeOK
  <2>4. \A j \in CPUs : j # cpu => UNCHANGED <<lock[j], until[j], since[j], offUntil[j]>>
    BY <1>0, <1>3, <2>1 DEF StartLockup, TypeOK
  <2>5. ASSUME NEW j \in CPUs PROVE Prompt(j)'
    <3>1. CASE j # cpu
      BY <1>1, <2>4, <3>1, PromptFrame DEF HardInv, wd
    <3>2. CASE j = cpu
      <4>1. timer[cpu] # Off => now <= timer[cpu]
        BY <1>0, <1>3, <2>2 DEF StartLockup, Settled, TimerDue, IrqsOn, TypeOK
      <4> QED BY <1>1, <2>3, <3>2, <4>1 DEF Prompt, wd
    <3> QED BY <3>1, <3>2
  <2>6. ASSUME NEW j \in CPUs, NextCpuOf(j) # j PROVE HardWatch(NextCpuOf(j), j)'
    <3> DEFINE i == NextCpuOf(j)
    <3>0. i \in CPUs /\ HardWatch(i, j) /\ i # j
      BY <2>6, Neighbour DEF HardInv
    <3> HIDE DEF i
    <3>1. CASE i = cpu
      <4>1. ASSUME timer[j] # Off
            PROVE  /\ CheckAt(j)' \in Nat /\ Max2(since[i], armed[j])' \in Nat
                   /\ CheckAt(j)' <= Max2(since[i], armed[j])' + 3 * SamplePeriod
        <5>1. timer[j] \in Nat /\ timer[j] <= now + SamplePeriod
          BY <1>0, <4>1, CellTypes DEF SoftInv, SoftDetector, Armed
        <5>2. CheckAt(j)' = CheckAt(j)
          BY <1>1 DEF CheckAt, SamplePeriod, wd
        <5>3. CheckAt(j) \in Nat /\ CheckAt(j) <= timer[j] + 2 * SamplePeriod
          BY <4>1, CheckAtRange
        <5>4. armed'[j] \in Nat /\ since'[i] = now
          BY <1>0, <1>1, <2>3, <3>1 DEF TypeOK
        <5>5. Max2(since[i], armed[j])' \in Nat /\ now <= Max2(since[i], armed[j])'
          BY <2>2, <5>4 DEF Max2
        <5> QED BY <1>0, <2>2, <5>1, <5>2, <5>3, <5>5
      <4>2. SamplePeriod' = SamplePeriod /\ timer'[j] = timer[j]
        BY <1>1 DEF SamplePeriod, wd
      <4>3. HardWatch(i, j)'
        BY <1>0, <4>1, <4>2 DEF HardWatch, Off
      <4> QED BY <4>3 DEF i
    <3>2. CASE j = cpu
      <4>1. CASE k = "hard"
        <5>1. since'[i] <= now /\ since'[i] \in Nat
          BY <1>0, <2>4, <3>0, <3>2, CellTypes DEF SoftInv, SoftDetector, Clocks
        <5>2. ~(offUntil'[j] < since'[i])
          BY <2>2, <2>3, <3>2, <4>1, <5>1
        <5>3. HardWatch(i, j)'
          BY <5>2 DEF HardWatch
        <5> QED BY <5>3 DEF i
      <4>2. CASE k # "hard"
        <5>1. UNCHANGED Watcher(j) /\ UNCHANGED Watched(i)
          BY <1>1, <2>3, <2>4, <3>0, <3>2, <4>2 DEF Watcher, Watched, wd
        <5>2. HardWatch(i, j)'
          BY <1>1, <3>0, <5>1, HardFrame
        <5> QED BY <5>2 DEF i
      <4> QED BY <4>1, <4>2
    <3>3. CASE i # cpu /\ j # cpu
      <4>1. UNCHANGED Watcher(j) /\ UNCHANGED Watched(i)
        BY <1>1, <2>4, <3>0, <3>3 DEF Watcher, Watched, wd
      <4>2. HardWatch(i, j)'
        BY <1>1, <3>0, <4>1, HardFrame
      <4> QED BY <4>2 DEF i
    <3> QED BY <3>1, <3>2, <3>3
  <2> QED BY <2>5, <2>6 DEF HardInv
<1> QED BY <1>2, <1>3

\* The steps of the commands: "wd on" starts a round of ticks on every CPU.
LEMMA CommandHard ==
  ASSUME UnloadIInv, SoftInv, HardInv,
         Command \/ WdOn \/ WdOff \/ Rmmod \/ \E cpu \in CPUs : ThreadTop(cpu) \/ ThreadTouch(cpu)
  PROVE  HardInv'
<1>0. TypeOK /\ Stages /\ SamplePeriod \in Nat \ {0}
  BY PeriodRange DEF UnloadIInv
<1>1. ASSUME NEW cpu \in CPUs, StartHrtimerLocal(cpu) PROVE HardInv'
  <2>1. /\ UNCHANGED <<now, thresh, ticks, saved, hardRep, locks>>
        /\ timer' = [timer EXCEPT ![cpu] = now + SamplePeriod]
        /\ armed' = [armed EXCEPT ![cpu] = now]
    BY <1>1 DEF StartHrtimerLocal
  <2>2. now \in Nat /\ timer'[cpu] = now + SamplePeriod /\ armed'[cpu] = now
    BY <1>0, <2>1, CellTypes DEF TypeOK
  <2>3. \A j \in CPUs : j # cpu => UNCHANGED <<timer[j], armed[j]>>
    BY <1>0, <2>1 DEF TypeOK
  <2>4. ASSUME NEW j \in CPUs PROVE Prompt(j)'
    <3>1. CASE j # cpu
      BY <2>1, <2>3, <3>1, PromptFrame DEF HardInv, locks
    <3>2. CASE j = cpu
      BY <1>0, <2>1, <2>2, <3>2 DEF HardInv, Prompt, locks
    <3> QED BY <3>1, <3>2
  <2>5. ASSUME NEW j \in CPUs, NextCpuOf(j) # j PROVE HardWatch(NextCpuOf(j), j)'
    <3> DEFINE i == NextCpuOf(j)
    <3>0. i \in CPUs /\ HardWatch(i, j)
      BY <2>5, Neighbour DEF HardInv
    <3> HIDE DEF i
    <3>1. CASE j # cpu
      <4>1. UNCHANGED Watcher(j) /\ UNCHANGED Watched(i)
        BY <2>1, <2>3, <3>1 DEF Watcher, Watched, locks
      <4>2. HardWatch(i, j)'
        BY <2>1, <3>0, <4>1, HardFrame
      <4> QED BY <4>2 DEF i
    <3>2. CASE j = cpu
      <4>1. SamplePeriod' = SamplePeriod
        BY <2>1 DEF SamplePeriod
      <4>2. CheckAt(j)' \in Nat /\ CheckAt(j)' <= now + 3 * SamplePeriod
        BY <1>0, <2>2, <3>2, <4>1 DEF CheckAt
      <4>3. since'[i] \in Nat
        BY <1>0, <2>1, <3>0 DEF TypeOK, locks
      <4>4. Max2(since[i], armed[j])' \in Nat /\ now <= Max2(since[i], armed[j])'
        BY <2>2, <3>2, <4>3 DEF Max2
      <4>5. HardWatch(i, j)'
        BY <1>0, <2>2, <4>1, <4>2, <4>4 DEF HardWatch
      <4> QED BY <4>5 DEF i
    <3> QED BY <3>1, <3>2
  <2> QED BY <2>4, <2>5 DEF HardInv
<1>2. ASSUME UNCHANGED <<now, thresh, ticks, saved, hardRep, locks, armed>>,
             \A j \in CPUs : timer'[j] \in {timer[j], Off}
      PROVE  HardInv'
  <2>1. ASSUME NEW j \in CPUs PROVE Prompt(j)'
    <3>1. CASE timer'[j] = timer[j]
      BY <1>2, <3>1, PromptFrame DEF HardInv, locks
    <3>2. CASE timer'[j] = Off
      BY <1>2, <3>2 DEF HardInv, Prompt, locks, Off
    <3> QED BY <1>2, <3>1, <3>2
  <2>2. ASSUME NEW j \in CPUs, NextCpuOf(j) # j PROVE HardWatch(NextCpuOf(j), j)'
    <3> DEFINE i == NextCpuOf(j)
    <3>0. i \in CPUs /\ HardWatch(i, j)
      BY <2>2, Neighbour DEF HardInv
    <3> HIDE DEF i
    <3>1. CASE timer'[j] = timer[j]
      <4>1. UNCHANGED Watcher(j) /\ UNCHANGED Watched(i)
        BY <1>2, <3>1 DEF Watcher, Watched, locks
      <4>2. HardWatch(i, j)'
        BY <1>2, <3>0, <4>1, HardFrame
      <4> QED BY <4>2 DEF i
    <3>2. CASE timer'[j] = Off
      <4>1. HardWatch(i, j)'
        BY <3>2 DEF HardWatch, Off
      <4> QED BY <4>1 DEF i
    <3> QED BY <1>2, <3>1, <3>2
  <2> QED BY <2>1, <2>2 DEF HardInv
<1>3. CASE WdOnDone \/ WdOffDone \/ WdOff \/ Rmmod
  BY <1>2, <1>3 DEF WdOnDone, WdOffDone, WdOff, Rmmod, wd
<1>4. CASE KthreadStop \/ KthreadStopped \/ \E cpu \in CPUs : ThreadTop(cpu) \/ ThreadTouch(cpu)
  BY <1>2, <1>4 DEF KthreadStop, KthreadStopped, ThreadTop, ThreadTouch
<1>5. CASE HrtimerCancel
  <2>1. First(todo) \in CPUs
    BY <1>0, <1>5, FirstCpu DEF HrtimerCancel, TypeOK
  <2>2. \A j \in CPUs : timer'[j] \in {timer[j], Off}
    BY <1>0, <1>5, <2>1 DEF HrtimerCancel, TypeOK
  <2> QED BY <1>2, <1>5, <2>2 DEF HrtimerCancel
<1>6. CASE WdOn
  <2>1. UNCHANGED <<now, thresh, timer, locks, armed>> /\ \A j \in CPUs : timer[j] = Off
    BY <1>0, <1>6 DEF WdOn, Stages
  <2>2. ASSUME NEW j \in CPUs PROVE Prompt(j)'
    BY <2>1, PromptFrame DEF HardInv, locks
  <2>3. ASSUME NEW i \in CPUs, NEW j \in CPUs PROVE HardWatch(i, j)'
    BY <2>1 DEF HardWatch, Off
  <2>4. \A j \in CPUs : NextCpuOf(j) \in CPUs
    BY Neighbour
  <2> QED BY <2>2, <2>3, <2>4 DEF HardInv
<1> QED BY <1>1, <1>3, <1>4, <1>5, <1>6 DEF Command

\* A longer period, and the clock.
LEMMA ThreshHard ==
  ASSUME UnloadIInv, HardInv, ThreshOnlyRaised, SetThresh
  PROVE  HardInv'
<1>0. TypeOK
  BY DEF UnloadIInv
<1>1. UNCHANGED <<now, wd, control, locks, armed>>
  BY DEF SetThresh
<1>2. SamplePeriod \in Nat /\ SamplePeriod' \in Nat /\ SamplePeriod <= SamplePeriod'
  BY <1>0, RaisedPeriod
<1>3. ASSUME NEW j \in CPUs PROVE Prompt(j)'
  BY <1>1, PromptFrame DEF HardInv, wd, locks
<1>4. ASSUME NEW j \in CPUs, NextCpuOf(j) # j PROVE HardWatch(NextCpuOf(j), j)'
  <2> DEFINE i == NextCpuOf(j)
  <2>0. i \in CPUs /\ HardWatch(i, j)
    BY <1>4, Neighbour DEF HardInv
  <2> HIDE DEF i
  <2>1. SUFFICES ASSUME timer[j] # Off, lock[i] = "hard", offUntil[j] < since[i]
                 PROVE  HardWatch(i, j)'
    <3>1. HardWatch(i, j)'
      BY <1>1, <2>1 DEF HardWatch, wd, locks, Off
    <3> QED BY <3>1 DEF i
  <2>2. timer[j] \in Nat /\ armed[j] \in Nat /\ since[i] \in Nat
    BY <1>0, <2>0, <2>1, CellTypes
  <2>3. Max2(since[i], armed[j])' = Max2(since[i], armed[j]) /\ Max2(since[i], armed[j]) \in Nat
    BY <1>1, <2>2 DEF Max2, locks
  <2>4. /\ CheckAt(j) \in Nat /\ CheckAt(j)' \in Nat
        /\ CheckAt(j)' - CheckAt(j) <= 2 * (SamplePeriod' - SamplePeriod)
    BY <1>1, <1>2, <2>2 DEF CheckAt, wd
  <2>5. /\ saved[i] # ticks[i] => CheckAt(j) <= Max2(since[i], armed[j]) + 3 * SamplePeriod
        /\ ~hardRep[i] => CheckAt(j) <= Max2(since[i], armed[j]) + 6 * SamplePeriod
    BY <2>0, <2>1 DEF HardWatch
  <2>6. /\ saved[i] # ticks[i] => CheckAt(j)' <= Max2(since[i], armed[j]) + 3 * SamplePeriod'
        /\ ~hardRep[i] => CheckAt(j)' <= Max2(since[i], armed[j]) + 6 * SamplePeriod'
    BY <1>2, <2>3, <2>4, <2>5
  <2> QED BY <1>1, <2>3, <2>6 DEF HardWatch, wd
<1> QED BY <1>3, <1>4 DEF HardInv

\* Time passes only when no armed timer of an answering CPU is due.
LEMMA TickHard ==
  ASSUME UnloadIInv, SoftInv, HardInv, Tick
  PROVE  HardInv'
<1>0. TypeOK
  BY DEF UnloadIInv
<1>1. UNCHANGED <<thresh, wd, control, locks, armed>> /\ now' = now + 1
  BY DEF Tick
<1>2. ASSUME NEW j \in CPUs PROVE Prompt(j)'
  <2>1. /\ now \in Nat /\ offUntil[j] \in Int /\ timer[j] \in Int
        /\ lock[j] \in {"none", "soft", "hard"} /\ until[j] \in Nat
    BY <1>0 DEF TypeOK, Off
  <2>2. Prompt(j)
    BY DEF HardInv
  <2>3. timer[j] # Off /\ lock[j] # "hard" => now < timer[j]
    BY <2>1 DEF Tick, Settled, TimerDue, IrqsOn
  <2>4. lock[j] = "hard" => now < offUntil[j]
    BY <2>2 DEF Tick, Prompt
  <2> QED BY <1>1, <2>1, <2>2, <2>3, <2>4 DEF Prompt, wd, locks
<1>3. ASSUME NEW j \in CPUs, NextCpuOf(j) # j PROVE HardWatch(NextCpuOf(j), j)'
  <2> DEFINE i == NextCpuOf(j)
  <2>0. i \in CPUs /\ HardWatch(i, j)
    BY <1>3, Neighbour DEF HardInv
  <2> HIDE DEF i
  <2>1. UNCHANGED Watcher(j) /\ UNCHANGED Watched(i)
    BY <1>1 DEF Watcher, Watched, wd, locks
  <2>2. HardWatch(i, j)'
    BY <1>1, <2>0, <2>1, HardFrame
  <2> QED BY <2>2 DEF i
<1> QED BY <1>2, <1>3 DEF HardInv

\* The watching holds in every reachable state.
LEMMA LockupHardInv ==
  ASSUME ~MayFailThread, ThreshOnlyRaised
  PROVE  Spec => []HardInv
<1>1. Init => HardInv
  <2> SUFFICES ASSUME Init PROVE HardInv
    OBVIOUS
  <2>1. \A j \in CPUs : timer[j] = Off /\ lock[j] = "none" /\ NextCpuOf(j) \in CPUs
    BY Neighbour DEF Init
  <2>2. ASSUME NEW j \in CPUs PROVE Prompt(j)
    BY <2>1 DEF Prompt
  <2>3. ASSUME NEW i \in CPUs, NEW j \in CPUs PROVE HardWatch(i, j)
    BY <2>1 DEF HardWatch
  <2> QED BY <2>1, <2>2, <2>3 DEF HardInv
<1>2. UnloadIInv /\ SoftInv /\ HardInv /\ [Next]_vars => HardInv'
  <2> SUFFICES ASSUME UnloadIInv, SoftInv, HardInv, [Next]_vars PROVE HardInv'
    OBVIOUS
  <2>1. CASE Command \/ WdOn \/ WdOff \/ Rmmod \/ \E cpu \in CPUs : ThreadTop(cpu) \/ ThreadTouch(cpu)
    BY <2>1, CommandHard
  <2>2. CASE SetThresh
    BY <2>2, ThreshHard
  <2>3. CASE Tick
    BY <2>3, TickHard
  <2>4. ASSUME NEW cpu \in CPUs, WdTimer(cpu) \/ EndLockup(cpu) \/ StartLockup(cpu) PROVE HardInv'
    BY <2>4, WdTimerHard, LockupHard
  <2>5. CASE UNCHANGED vars
    <3>1. ASSUME NEW j \in CPUs PROVE Prompt(j)'
      BY <2>5, PromptFrame DEF HardInv, vars, wd, locks
    <3>2. ASSUME NEW j \in CPUs, NextCpuOf(j) # j PROVE HardWatch(NextCpuOf(j), j)'
      <4> DEFINE i == NextCpuOf(j)
      <4>0. i \in CPUs /\ HardWatch(i, j)
        BY <3>2, Neighbour DEF HardInv
      <4> HIDE DEF i
      <4>1. UNCHANGED Watcher(j) /\ UNCHANGED Watched(i) /\ UNCHANGED thresh
        BY <2>5 DEF Watcher, Watched, vars, wd, locks
      <4>2. HardWatch(i, j)'
        BY <4>0, <4>1, HardFrame
      <4> QED BY <4>2 DEF i
    <3> QED BY <3>1, <3>2 DEF HardInv
  <2> QED BY <2>1, <2>2, <2>3, <2>4, <2>5 DEF Next, Cpu, Unloaded, Horizon
<1> QED BY <1>1, <1>2, LockupUnloadIInv, LockupSoftInv, PTL DEF Spec

\* A CPU whose interrupts stay off is reported by the one CPU that watches it,
\* within two rounds of three ticks, however many CPUs there are and whatever else
\* is locked up, as long as the watching CPU takes its interrupts.
THEOREM LockupHardCaught ==
  ASSUME ~MayFailThread, ThreshOnlyRaised
  PROVE  Spec => []HardCaught
<1>1. ASSUME UnloadIInv, SoftInv, HardInv PROVE HardCaught
  <2>0. TypeOK /\ Stages /\ SamplePeriod \in Nat \ {0}
    BY <1>1, PeriodRange DEF UnloadIInv
  <2>1. ASSUME NEW i \in CPUs, NEW j \in CPUs,
               wdRunning, ctl = "idle", lock[i] = "hard", i # j, NextCpuOf(j) = i,
               now - Max2(since[i], armed[j]) > 6 * SamplePeriod,
               offUntil[j] < since[i], ~hardRep[i]
        PROVE  FALSE
    <3>1. timer[j] # Off
      BY <2>0, <2>1 DEF Stages
    <3>2. /\ now \in Nat /\ timer[j] \in Nat /\ since[i] \in Nat /\ armed[j] \in Nat
          /\ offUntil[j] \in Int
      BY <2>0, <3>1, CellTypes DEF TypeOK, Off
    <3>3. Max2(since[i], armed[j]) \in Nat
      BY <3>2 DEF Max2
    <3>4. since[i] <= now
      BY <1>1 DEF SoftInv, SoftDetector, Clocks
    <3>5. now <= timer[j]
      BY <1>1, <2>1, <3>1, <3>2, <3>4 DEF HardInv, Prompt
    <3>6. HardWatch(i, j)
      BY <1>1, <2>1 DEF HardInv
    <3>7. CheckAt(j) <= Max2(since[i], armed[j]) + 6 * SamplePeriod
      BY <2>1, <3>1, <3>6 DEF HardWatch
    <3>8. CheckAt(j) \in Nat /\ timer[j] <= CheckAt(j)
      BY <1>1, <3>1, CheckAtRange
    <3> QED BY <2>0, <2>1, <3>2, <3>3, <3>5, <3>7, <3>8
  <2> QED BY <2>1 DEF HardCaught
<1> QED BY <1>1, LockupUnloadIInv, LockupSoftInv, LockupHardInv, PTL
=============================================================================
