--------------------------- MODULE LockupWatchdog ---------------------------
(***************************************************************************)
(* experiments/lockup_lab.c: the miniature soft and hard lockup detectors. *)
(* Every CPU has an hrtimer that counts its ticks, checks every third tick *)
(* that the next CPU's count has moved (hard lockup), kicks a per-CPU RT   *)
(* thread and checks how long ago that thread ran (soft lockup).  Commands *)
(* written to /proc/lockup_lab start and stop the detectors, change thresh *)
(* and start threads that lock a CPU up; rmmod stops everything.           *)
(*                                                                         *)
(* Time is counted in seconds, as now_sec() does.  Interrupts, the RT      *)
(* thread of a CPU that is not locked up, and the commands take less than  *)
(* a second, so the clock only moves when none of them is left to run; the *)
(* order of everything that happens within one second is open.             *)
(***************************************************************************)
EXTENDS Integers, FiniteSets

CONSTANTS
  CPUs,            \* online CPUs, naturals
  InitThresh,      \* thresh when the module is loaded
  ThreshValues,    \* values the "thresh" command writes
  LockKinds,       \* subset of {"soft", "hard"}: lockups the user triggers
  LockSecs,        \* their durations
  MaxLockups,      \* bound on the number of triggered lockups
  MaxStarts,       \* bound on the number of "wd on" commands
  MaxNow,          \* horizon of the clock
  MayFailThread    \* TRUE: kthread_create() in wd_start() may fail

ASSUME LockupAssumption ==
  /\ IsFiniteSet(CPUs) /\ CPUs \subseteq Nat /\ CPUs # {}
  /\ \A t \in ThreshValues \cup {InitThresh} : t \in Nat \ {0} /\ t % 5 = 0
  /\ LockKinds \subseteq {"soft", "hard"} /\ LockSecs \subseteq Nat
  /\ MaxLockups \in Nat /\ MaxStarts \in Nat /\ MaxNow \in Nat \ {0}
  /\ MayFailThread \in BOOLEAN

VARIABLES
  now, thresh,
  timer,          \* per CPU: expiry of wd_hrtimer, Off when cancelled
  ticks, saved,   \* hrtimer_ticks, hrtimer_ticks_saved
  touch,          \* touch_ts
  kick,           \* kick_pending
  thr,            \* wd_thread: where wd_thread_fn() is
  softRep, hardRep,
  wdRunning,      \* wd_running
  ctl,            \* the thread in ll_write() or ll_exit()
  todo,           \* CPUs its current loop has still to handle
  lock,           \* per CPU: the lockup it is in
  since, until,   \* start and end of its latest lockup
  kind,           \* and its kind
  offUntil,       \* end of its latest hard lockup, Off when it had none
  armed,          \* history: when the CPU's timer was last started
  lockups, starts \* bounded counters

wd == <<timer, ticks, saved, touch, kick, thr, softRep, hardRep>>
locks == <<lock, since, until, kind, offUntil, lockups>>
control == <<wdRunning, ctl, todo, starts>>
vars == <<now, thresh, wd, control, locks, armed>>

Off == -1

\* sample_period_ns(): thresh * 2 / 5 seconds.
SamplePeriod == (thresh * 2) \div 5

\* next_cpu_of(): the next online CPU, wrapping around; the CPU itself when
\* it is alone, which the caller takes for "no neighbour".
NextCpuOf(cpu) ==
  LET above == {d \in CPUs : d > cpu}
      from == IF above = {} THEN CPUs ELSE above
  IN CHOOSE d \in from : \A e \in from : d <= e

IrqsOn(cpu) == lock[cpu] # "hard"
TimerDue(cpu) == timer[cpu] # Off /\ timer[cpu] <= now /\ IrqsOn(cpu)
Runnable(cpu) == thr[cpu] \in {"top", "stop", "awake", "awakestop"} /\ lock[cpu] = "none"

\* The CPU has taken its interrupts and its RT thread has nothing to do.
Settled(cpu) == ~TimerDue(cpu) /\ ~Runnable(cpu)

Init ==
  /\ now = 1 /\ thresh = InitThresh
  /\ timer = [i \in CPUs |-> Off]
  /\ ticks = [i \in CPUs |-> 0] /\ saved = [i \in CPUs |-> 0]
  /\ touch = [i \in CPUs |-> 0] /\ kick = [i \in CPUs |-> FALSE]
  /\ thr = [i \in CPUs |-> "none"]
  /\ softRep = [i \in CPUs |-> FALSE] /\ hardRep = [i \in CPUs |-> FALSE]
  /\ wdRunning = FALSE /\ ctl = "idle" /\ todo = {} /\ starts = 0
  /\ lock = [i \in CPUs |-> "none"] /\ kind = [i \in CPUs |-> "none"]
  /\ since = [i \in CPUs |-> 0] /\ until = [i \in CPUs |-> 0]
  /\ offUntil = [i \in CPUs |-> Off]
  /\ armed = [i \in CPUs |-> 0] /\ lockups = 0

-----------------------------------------------------------------------------
(* wd_timer_fn() and wd_thread_fn().                                       *)

\* Part (2): every third tick, has the neighbour's count moved?
CheckNeighbour(cpu) ==
  LET nb == NextCpuOf(cpu)
      stuck == saved[nb] = ticks'[nb]
  IN IF ticks'[cpu] % 3 = 0 /\ nb # cpu
     THEN /\ hardRep' = [hardRep EXCEPT ![nb] = stuck]
          /\ saved' = [saved EXCEPT ![nb] = ticks'[nb]]
     ELSE UNCHANGED <<hardRep, saved>>

\* Part (3): kick the thread unless an earlier kick is still pending.
KickThread(cpu) ==
  IF ~kick[cpu] /\ thr[cpu] # "none"
  THEN /\ kick' = [kick EXCEPT ![cpu] = TRUE]
       /\ thr' = [thr EXCEPT ![cpu] = IF @ = "asleep" THEN "awake" ELSE @]
  ELSE UNCHANGED <<kick, thr>>

\* Part (4): did the thread run within 2 * thresh seconds?
CheckTouch(cpu) ==
  softRep' = [softRep EXCEPT ![cpu] =
                IF touch[cpu] # 0 THEN now > touch[cpu] + 2 * thresh ELSE @]

\* Mutant: the neighbour is compared on every tick.
WdTimerEveryTick(cpu) ==
  /\ TimerDue(cpu)
  /\ ticks' = [ticks EXCEPT ![cpu] = @ + 1]
  /\ LET nb == NextCpuOf(cpu) IN
       /\ hardRep' = [hardRep EXCEPT ![nb] = saved[nb] = ticks'[nb]]
       /\ saved' = [saved EXCEPT ![nb] = ticks'[nb]]
  /\ KickThread(cpu)
  /\ CheckTouch(cpu)
  /\ timer' = [timer EXCEPT ![cpu] = @ + ((now - @) \div SamplePeriod + 1) * SamplePeriod]
  /\ UNCHANGED <<now, thresh, touch, control, locks, armed>>

\* Mutant: the kick also updates touch_ts, as if the thread had run.
WdTimerTouches(cpu) ==
  /\ TimerDue(cpu)
  /\ ticks' = [ticks EXCEPT ![cpu] = @ + 1]
  /\ CheckNeighbour(cpu)
  /\ KickThread(cpu)
  /\ CheckTouch(cpu)
  /\ touch' = [touch EXCEPT ![cpu] = now]
  /\ timer' = [timer EXCEPT ![cpu] = @ + ((now - @) \div SamplePeriod + 1) * SamplePeriod]
  /\ UNCHANGED <<now, thresh, control, locks, armed>>

\* Mutant: every CPU watches itself.
WdTimerSelf(cpu) ==
  /\ TimerDue(cpu)
  /\ ticks' = [ticks EXCEPT ![cpu] = @ + 1]
  /\ UNCHANGED hardRep
  /\ saved' = [saved EXCEPT ![cpu] = ticks'[cpu]]
  /\ KickThread(cpu)
  /\ CheckTouch(cpu)
  /\ timer' = [timer EXCEPT ![cpu] = @ + ((now - @) \div SamplePeriod + 1) * SamplePeriod]
  /\ UNCHANGED <<now, thresh, touch, control, locks, armed>>

\* Mutant: a soft lockup flag, once set, is never cleared.
WdTimerSticky(cpu) ==
  /\ TimerDue(cpu)
  /\ ticks' = [ticks EXCEPT ![cpu] = @ + 1]
  /\ CheckNeighbour(cpu)
  /\ KickThread(cpu)
  /\ softRep' = [softRep EXCEPT ![cpu] = @ \/ (touch[cpu] # 0 /\ now > touch[cpu] + 2 * thresh)]
  /\ timer' = [timer EXCEPT ![cpu] = @ + ((now - @) \div SamplePeriod + 1) * SamplePeriod]
  /\ UNCHANGED <<now, thresh, touch, control, locks, armed>>

\* wd_timer_fn(); hrtimer_forward_now() skips the expiries that were missed.
WdTimer(cpu) ==
  /\ TimerDue(cpu)
  /\ ticks' = [ticks EXCEPT ![cpu] = @ + 1]
  /\ CheckNeighbour(cpu)
  /\ KickThread(cpu)
  /\ CheckTouch(cpu)
  /\ timer' = [timer EXCEPT ![cpu] = @ + ((now - @) \div SamplePeriod + 1) * SamplePeriod]
  /\ UNCHANGED <<now, thresh, touch, control, locks, armed>>

\* wd_thread_fn(), top of the loop: leave, go to sleep, or handle a kick that
\* came before the sleep.
ThreadTop(cpu) ==
  /\ thr[cpu] \in {"top", "stop"} /\ lock[cpu] = "none"
  /\ thr' = [thr EXCEPT ![cpu] = IF @ = "stop" THEN "exited"
                                 ELSE IF kick[cpu] THEN "awake" ELSE "asleep"]
  /\ UNCHANGED <<now, thresh, timer, ticks, saved, touch, kick, softRep, hardRep,
                 control, locks, armed>>

\* Mutant: kick_pending is not cleared.
ThreadTouchKeepsKick(cpu) ==
  /\ thr[cpu] \in {"awake", "awakestop"} /\ lock[cpu] = "none"
  /\ touch' = [touch EXCEPT ![cpu] = now]
  /\ thr' = [thr EXCEPT ![cpu] = IF @ = "awake" THEN "asleep" ELSE "stop"]
  /\ UNCHANGED <<now, thresh, timer, ticks, saved, kick, softRep, hardRep, control, locks, armed>>

\* After schedule(): kick_pending = 0; touch_ts = now_sec().
ThreadTouch(cpu) ==
  /\ thr[cpu] \in {"awake", "awakestop"} /\ lock[cpu] = "none"
  /\ kick' = [kick EXCEPT ![cpu] = FALSE]
  /\ touch' = [touch EXCEPT ![cpu] = now]
  /\ thr' = [thr EXCEPT ![cpu] = IF @ = "awake" THEN "top" ELSE "stop"]
  /\ UNCHANGED <<now, thresh, timer, ticks, saved, softRep, hardRep, control, locks, armed>>

-----------------------------------------------------------------------------
(* The commands; one writer at a time.                                     *)

\* wd_start(): create a thread for every CPU, skipping those that fail, and
\* clear the reports of the CPUs that got one.
WdOn ==
  /\ ctl = "idle" /\ ~wdRunning /\ starts < MaxStarts
  /\ \E got \in SUBSET CPUs :
       /\ ~MayFailThread => got = CPUs
       /\ thr' = [i \in CPUs |-> IF i \in got THEN "top" ELSE "none"]
       /\ softRep' = [i \in CPUs |-> i \notin got /\ softRep[i]]
       /\ hardRep' = [i \in CPUs |-> i \notin got /\ hardRep[i]]
  /\ starts' = starts + 1
  /\ ctl' = "start" /\ todo' = CPUs
  /\ UNCHANGED <<now, thresh, timer, ticks, saved, touch, kick, wdRunning, locks, armed>>

\* start_hrtimer_local(), run by on_each_cpu() on every CPU that takes IPIs.
StartHrtimerLocal(cpu) ==
  /\ ctl = "start" /\ cpu \in todo /\ IrqsOn(cpu)
  /\ touch' = [touch EXCEPT ![cpu] = now]
  /\ timer' = [timer EXCEPT ![cpu] = now + SamplePeriod]
  /\ armed' = [armed EXCEPT ![cpu] = now]
  /\ todo' = todo \ {cpu}
  /\ UNCHANGED <<now, thresh, ticks, saved, kick, thr, softRep, hardRep,
                 wdRunning, ctl, starts, locks>>

WdOnDone ==
  /\ ctl = "start" /\ todo = {}
  /\ wdRunning' = TRUE /\ ctl' = "idle"
  /\ UNCHANGED <<now, thresh, wd, todo, starts, locks, armed>>

\* thresh = a; running timers keep their expiry and take the new period at
\* their next tick.
SetThresh ==
  /\ ctl = "idle"
  /\ \E t \in ThreshValues \ {thresh} : thresh' = t
  /\ UNCHANGED <<now, wd, control, locks, armed>>

\* "wd off": wd_stop() returns at once when the detectors do not run.
WdOff ==
  /\ ctl = "idle" /\ wdRunning
  /\ ctl' = "cancel" /\ todo' = CPUs
  /\ UNCHANGED <<now, thresh, wd, wdRunning, starts, locks, armed>>

\* ll_exit(): the proc entry is gone, then wd_stop().
Rmmod ==
  /\ ctl = "idle"
  /\ ctl' = IF wdRunning THEN "exitcancel" ELSE "unloaded"
  /\ todo' = CPUs
  /\ UNCHANGED <<now, thresh, wd, wdRunning, starts, locks, armed>>

First(set) == CHOOSE i \in set : \A j \in set : i <= j

\* hrtimer_cancel() CPU by CPU; then the loop over the threads begins.
HrtimerCancel ==
  /\ ctl \in {"cancel", "exitcancel"} /\ todo # {}
  /\ timer' = [timer EXCEPT ![First(todo)] = Off]
  /\ todo' = IF todo = {First(todo)} THEN CPUs ELSE todo \ {First(todo)}
  /\ ctl' = IF todo # {First(todo)} THEN ctl
            ELSE IF ctl = "cancel" THEN "stop" ELSE "exitstop"
  /\ UNCHANGED <<now, thresh, ticks, saved, touch, kick, thr, softRep, hardRep,
                 wdRunning, starts, locks, armed>>

\* Mutant: the stop flag is set but the sleeping thread is not woken.
KthreadStopNoWake ==
  /\ ctl \in {"stop", "exitstop"} /\ todo # {}
  /\ thr[First(todo)] \in {"top", "awake"}
  /\ thr' = [thr EXCEPT ![First(todo)] = IF @ = "top" THEN "stop" ELSE "awakestop"]
  /\ UNCHANGED <<now, thresh, timer, ticks, saved, touch, kick, softRep, hardRep,
                 control, locks, armed>>

\* kthread_stop(): set the stop flag and wake the thread ...
KthreadStop ==
  /\ ctl \in {"stop", "exitstop"} /\ todo # {}
  /\ thr[First(todo)] \in {"top", "asleep", "awake"}
  /\ thr' = [thr EXCEPT ![First(todo)] = IF @ = "top" THEN "stop" ELSE "awakestop"]
  /\ UNCHANGED <<now, thresh, timer, ticks, saved, touch, kick, softRep, hardRep,
                 control, locks, armed>>

\* Mutant: the thread is told to stop but not waited for.
KthreadStopNoWait ==
  /\ ctl \in {"stop", "exitstop"} /\ todo # {}
  /\ thr[First(todo)] \in {"none", "exited", "stop", "awakestop"}
  /\ todo' = todo \ {First(todo)}
  /\ UNCHANGED <<now, thresh, wd, wdRunning, ctl, starts, locks, armed>>

\* ... and wait until it has exited; a CPU without a thread is skipped.
KthreadStopped ==
  /\ ctl \in {"stop", "exitstop"} /\ todo # {}
  /\ thr[First(todo)] \in {"none", "exited"}
  /\ thr' = [thr EXCEPT ![First(todo)] = "none"]
  /\ todo' = todo \ {First(todo)}
  /\ UNCHANGED <<now, thresh, timer, ticks, saved, touch, kick, softRep, hardRep,
                 wdRunning, ctl, starts, locks, armed>>

WdOffDone ==
  /\ ctl \in {"stop", "exitstop"} /\ todo = {}
  /\ wdRunning' = FALSE
  /\ ctl' = IF ctl = "stop" THEN "idle" ELSE "unloaded"
  /\ UNCHANGED <<now, thresh, wd, todo, starts, locks, armed>>

-----------------------------------------------------------------------------
(* trigger() and trig_fn(), kinds "soft" and "hard", and the clock.        *)

\* The loop starts once the thread gets the CPU: after interrupts and RT.
StartLockup(cpu) ==
  /\ lock[cpu] = "none" /\ Settled(cpu) /\ lockups < MaxLockups
  /\ ctl # "unloaded"
  /\ \E k \in LockKinds, secs \in LockSecs :
       /\ now + secs < MaxNow
       /\ lock' = [lock EXCEPT ![cpu] = k] /\ kind' = [kind EXCEPT ![cpu] = k]
       /\ until' = [until EXCEPT ![cpu] = now + secs]
       /\ offUntil' = [offUntil EXCEPT ![cpu] = IF k = "hard" THEN now + secs ELSE @]
  /\ since' = [since EXCEPT ![cpu] = now]
  /\ lockups' = lockups + 1
  /\ UNCHANGED <<now, thresh, wd, control, armed>>

EndLockup(cpu) ==
  /\ lock[cpu] # "none" /\ until[cpu] <= now
  /\ lock' = [lock EXCEPT ![cpu] = "none"]
  /\ UNCHANGED <<now, thresh, wd, control, since, until, kind, offUntil, lockups, armed>>

Command ==
  \/ (\E cpu \in CPUs : StartHrtimerLocal(cpu)) \/ WdOnDone
  \/ HrtimerCancel \/ KthreadStop \/ KthreadStopped \/ WdOffDone

\* A command is in progress that does not wait for a locked-up CPU.
CommandReady ==
  \/ ctl = "start" /\ (todo = {} \/ \E cpu \in todo : IrqsOn(cpu))
  \/ ctl \in {"cancel", "exitcancel"}
  \/ /\ ctl \in {"stop", "exitstop"}
     /\ todo = {} \/ thr[First(todo)] \in {"none", "exited", "top", "asleep", "awake"}

Tick ==
  /\ now < MaxNow /\ ctl # "unloaded"
  /\ \A cpu \in CPUs : Settled(cpu) /\ (lock[cpu] # "none" => until[cpu] > now)
  /\ ~CommandReady
  /\ now' = now + 1
  /\ UNCHANGED <<thresh, wd, control, locks, armed>>

Unloaded == ctl = "unloaded" /\ UNCHANGED vars
Horizon == now = MaxNow /\ ctl = "idle" /\ UNCHANGED vars

-----------------------------------------------------------------------------
Cpu(cpu) == WdTimer(cpu) \/ ThreadTop(cpu) \/ ThreadTouch(cpu) \/ EndLockup(cpu)

Next ==
  \/ Command \/ WdOn \/ SetThresh \/ WdOff \/ Rmmod \/ Tick \/ Unloaded \/ Horizon
  \/ \E cpu \in CPUs : Cpu(cpu) \/ StartLockup(cpu)

\* CPUs that are not locked up run, time passes, commands proceed; nothing
\* forces the user to give one.
Fairness ==
  /\ WF_vars(Command) /\ WF_vars(Tick)
  /\ \A cpu \in CPUs : WF_vars(Cpu(cpu))

Spec == Init /\ [][Next]_vars /\ Fairness

-----------------------------------------------------------------------------
TypeOK ==
  /\ now \in 1..MaxNow /\ thresh \in ThreshValues \cup {InitThresh}
  /\ timer \in [CPUs -> Nat \cup {Off}]
  /\ ticks \in [CPUs -> Nat] /\ saved \in [CPUs -> Nat] /\ touch \in [CPUs -> 0..MaxNow]
  /\ kick \in [CPUs -> BOOLEAN]
  /\ thr \in [CPUs -> {"none", "top", "asleep", "awake", "stop", "awakestop", "exited"}]
  /\ softRep \in [CPUs -> BOOLEAN] /\ hardRep \in [CPUs -> BOOLEAN]
  /\ wdRunning \in BOOLEAN /\ todo \subseteq CPUs
  /\ ctl \in {"idle", "start", "cancel", "stop", "exitcancel", "exitstop", "unloaded"}
  /\ lock \in [CPUs -> {"none", "soft", "hard"}]
  /\ kind \in [CPUs -> {"none", "soft", "hard"}] /\ offUntil \in [CPUs -> Nat \cup {Off}]
  /\ since \in [CPUs -> Nat] /\ until \in [CPUs -> Nat] /\ armed \in [CPUs -> Nat]

\* A "soft lockup" line is printed only for a CPU that has been locked up for
\* more than 2 * thresh seconds, less one sample period, up to now.
SoftTruthful ==
  [][\A i \in CPUs :
       softRep'[i] /\ ~softRep[i] =>
         until[i] >= now /\ now - since[i] > 2 * thresh - SamplePeriod]_vars

\* The shortest and the longest sample period timers may run with.
Periods == {(t * 2) \div 5 : t \in ThreshValues \cup {InitThresh}}
ShortestPeriod == CHOOSE p \in Periods : \A q \in Periods : p <= q
LongestPeriod == CHOOSE p \in Periods : \A q \in Periods : p >= q

\* A "hard lockup" line is printed only for a CPU that had its interrupts off
\* for two sample periods and has not had them back for more than one.
\* since and until are those of the CPU's latest lockup, so this is stated for
\* MaxLockups = 1: a second lockup within a period hides the one reported; and
\* for a thresh that is only raised, see ReportsTruthful.
HardTruthful ==
  [][\A i \in CPUs :
       hardRep'[i] /\ ~hardRep[i] =>
         /\ kind[i] = "hard" /\ now - since[i] >= 2 * ShortestPeriod
         /\ until[i] + LongestPeriod >= now]_vars

\* Neither detector prints a false report while thresh is raised under running
\* timers.  It does not extend to lowering it: a soft line then measures an old
\* period with the new limit, and a CPU whose timer still runs with the old,
\* longer period looks stalled to a neighbour that has started a shorter one.
ReportsTruthful == SoftTruthful /\ HardTruthful

Max2(x, y) == IF x > y THEN x ELSE y

\* A CPU whose preemption stays off is reported within 2 * thresh seconds and
\* one sample period.
SoftCaught ==
  \A i \in CPUs :
    wdRunning /\ ctl = "idle" /\ lock[i] = "soft"
      /\ now - Max2(since[i], armed[i]) > 2 * thresh + SamplePeriod => softRep[i]

\* A report ends: one sample period after a CPU came free, its soft lockup
\* flag is cleared again.
SoftClears ==
  \A i \in CPUs :
    wdRunning /\ ctl = "idle" /\ softRep[i] /\ lock[i] = "none"
      => now - until[i] <= SamplePeriod

\* The soft lockup flag of a CPU follows the CPU's state, within one sample
\* period each way.
SoftFollows == SoftCaught /\ SoftClears

\* A CPU whose interrupts stay off is reported within two rounds of three
\* ticks of the CPU that watches it, unless that one had its interrupts off too
\* since then.
HardCaught ==
  \A i, j \in CPUs :
    /\ wdRunning /\ ctl = "idle" /\ lock[i] = "hard" /\ i # j /\ NextCpuOf(j) = i
    /\ now - Max2(since[i], armed[j]) > 6 * SamplePeriod
    /\ offUntil[j] < since[i]
    => hardRep[i]

\* After rmmod no watchdog timer is armed and no watchdog thread is left.  The
\* threads of trigger() are not meant: rmmod does not wait for them, and a
\* lockup they produce may outlast it.
UnloadSafe ==
  ctl = "unloaded" => \A i \in CPUs : timer[i] = Off /\ thr[i] = "none"
UnloadInv == TypeOK /\ UnloadSafe

\* rmmod returns, also while a CPU is locked up.
RmmodReturns == (ctl = "exitcancel") ~> (ctl = "unloaded")

-----------------------------------------------------------------------------
(* The inductive invariants behind UnloadInv, behind SoftFollows and       *)
(* SoftTruthful, and behind HardCaught.                                    *)

\* How far the command in progress has come: which timers are cancelled and
\* which threads are gone.
Stages ==
  /\ ctl \in {"idle", "unloaded"} /\ ~wdRunning =>
       \A i \in CPUs : timer[i] = Off /\ thr[i] = "none"
  /\ ctl = "unloaded" => ~wdRunning
  /\ ctl = "idle" /\ wdRunning => \A i \in CPUs : timer[i] # Off
  /\ ctl = "start" => ~wdRunning /\ \A i \in CPUs : timer[i] = Off <=> i \in todo
  /\ ctl \in {"cancel", "exitcancel"} => \A i \in CPUs : i \notin todo => timer[i] = Off
  /\ ctl \in {"stop", "exitstop"} =>
       \A i \in CPUs : timer[i] = Off /\ (i \notin todo => thr[i] = "none")

\* thresh is changed once at most, and not lowered: after "thresh" lowers it, a
\* lockup that is already under way has outlasted the new limit before the
\* timer's next tick.
ThreshOnlyRaised == \E t \in Nat : ThreshValues \subseteq {t} /\ t >= InitThresh

\* The clock values of a CPU never lie in the future; a lockup that is over
\* ended when it was meant to.
Clocks(i) ==
  /\ touch[i] <= now /\ since[i] <= now
  /\ lock[i] = "none" => until[i] <= now
  /\ lock[i] # "none" => now <= until[i]

\* A thread that sleeps has no kick to answer; one that does not will answer
\* its kick as soon as its CPU is free.
Answering(i) == kick[i] /\ thr[i] \in {"top", "awake"}
Kicks(i) ==
  /\ thr[i] = "asleep" => ~kick[i]
  /\ timer[i] # Off \/ ctl = "start" => thr[i] \in {"top", "asleep", "awake"}
  /\ ctl = "start" /\ i \in todo => ~softRep[i]

\* While its timer is armed: a tick is at most a period away, it is not missed
\* unless interrupts were off, and the thread last ran a period before it or
\* is about to run.
Armed(i) ==
  /\ touch[i] >= 1
  /\ timer[i] <= now + SamplePeriod /\ timer[i] >= 1
  /\ lock[i] = "soft" => now <= timer[i]
  /\ lock[i] = "none" => now <= timer[i] \/ now = until[i]
  /\ lock[i] = "none" /\ Answering(i) => now < timer[i] \/ now = until[i]
  /\ Answering(i) \/ timer[i] <= touch[i] + SamplePeriod
  /\ lock[i] # "none" \/ now = until[i] => since[i] <= touch[i] + SamplePeriod
  /\ lock[i] = "soft" => touch[i] <= Max2(since[i], armed[i])
  /\ lock[i] = "soft" /\ ~softRep[i] =>
       timer[i] <= Max2(since[i], armed[i]) + 2 * thresh + SamplePeriod
  /\ lock[i] = "none" /\ softRep[i] => timer[i] <= until[i] + SamplePeriod

\* A timer that is armed is not behind unless interrupts were off until now.
Prompt(j) ==
  /\ lock[j] = "hard" => offUntil[j] = until[j]
  /\ timer[j] # Off /\ offUntil[j] < now => now <= timer[j]

\* When CPU j next compares its neighbour's count, should it miss no tick.
CheckAt(j) ==
  timer[j] + (IF ticks[j] % 3 = 2 THEN 0
              ELSE IF ticks[j] % 3 = 1 THEN SamplePeriod ELSE 2 * SamplePeriod)

\* What CPU j, which had its interrupts on, knows of its neighbour i, which has
\* them off: within one round of ticks it remembers i's count, and in the next
\* it finds the count unchanged.
HardWatch(i, j) ==
  timer[j] # Off /\ lock[i] = "hard" /\ offUntil[j] < since[i] =>
    /\ saved[i] # ticks[i] => CheckAt(j) <= Max2(since[i], armed[j]) + 3 * SamplePeriod
    /\ ~hardRep[i] => CheckAt(j) <= Max2(since[i], armed[j]) + 6 * SamplePeriod

HardInv ==
  \A j \in CPUs : Prompt(j) /\ (NextCpuOf(j) # j => HardWatch(NextCpuOf(j), j))

UnloadIInv == TypeOK /\ Stages
SoftDetector(i) == Clocks(i) /\ Kicks(i) /\ (timer[i] # Off => Armed(i))
SoftInv == \A i \in CPUs : SoftDetector(i)
=============================================================================
