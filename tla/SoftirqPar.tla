----------------------------- MODULE SoftirqPar -----------------------------
(***************************************************************************)
(* experiments/softirq_par.c: can one kind of softirq run on several CPUs  *)
(* at once (mode 0: one tasklet per CPU), and can one tasklet (modes 1, 2)?*)
(* The insmod thread hands tasklet_schedule() to CPUs by IPI, sleeps, and  *)
(* prints the counters the callbacks maintained; rmmod kills the tasklets  *)
(* and frees the module text.                                              *)
(*                                                                         *)
(* The kernel's tasklet machinery is external: TASKLET_STATE_SCHED and     *)
(* TASKLET_STATE_RUN bits, the per-CPU tasklet_vec, the softirq handler    *)
(* and tasklet_kill(), modelled from the way the module relies on them.    *)
(***************************************************************************)
EXTENDS Integers, Sequences, FiniteSets, Functions

CONSTANTS
  CPUs,        \* online CPUs, a set of naturals; 0 is mode 2's "me"
  Modes,       \* the values of the module parameter "mode" to explore
  LateModes    \* those in which interrupts may also be late

ASSUME SoftirqParAssumption ==
  /\ IsFiniteSet(CPUs) /\ CPUs \subseteq Nat /\ 0 \in CPUs
  /\ Modes \subseteq {0, 1, 2}
  /\ LateModes \subseteq Modes

TlOne == -1                 \* the tasklet tl_one
Tl == CPUs \cup {TlOne}     \* tl_many[cpu] is named by its CPU

VARIABLES
  mode,        \* module_param
  timely,      \* TRUE: an IPI is taken before the sleep that follows it ends
  phase,       \* the insmod / rmmod thread
  killing,     \* the tasklet rmmod is in tasklet_kill() for
  ipi,         \* CPUs with a smp_call_function request not yet taken
  sched, run,  \* tasklets whose TASKLET_STATE_SCHED / _RUN bit is set
  vec, list,   \* per CPU: tasklet_vec, and the list the handler took from it
  tl,          \* per CPU: the tasklet whose callback it executes
  cur, maxcur, pc, c, m, peak,   \* bump() and its counters, see PeakMeter
  runs, sched_calls,             \* the module's statistics
  cpu_seen,                      \* bitmap of CPUs the callback ran on
  owed,        \* history: calls of tasklet_schedule() not followed by a start
  rep          \* what the report has printed so far, field by field

meter == <<cur, maxcur, pc, c, m, peak>>
queues == <<sched, run, vec, list, tl>>
stats == <<runs, sched_calls, cpu_seen, owed>>
vars == <<mode, timely, phase, killing, ipi, queues, meter, stats, rep>>

\* The fields of the report, and the value of one that is not yet printed.
Fields == {"calls", "runs", "max", "verdict"}
Unread == -1
NoReport == [f \in Fields |-> Unread]
NoTl == -2

\* "locked": RUN is ours, SCHED still set; "ret": the callback has returned
\* from its timed section and only runs++ and tasklet_unlock() remain.
Locations == {"out", "locked", "start", "read", "cas", "in", "ret"}

\* mode 2 interrupts "me" first and "other" (CPU 4, or 1 on a small machine)
\* while the callback spins.
Other == IF Cardinality(CPUs) > 4 THEN 4 ELSE 1

TargetOf(cpu) == IF mode = 0 THEN cpu ELSE TlOne

Init ==
  /\ mode \in Modes
  /\ timely \in {TRUE, mode \notin LateModes}
  /\ phase = "init" /\ killing = NoTl
  /\ ipi = {} /\ sched = {} /\ run = {}
  /\ vec = [i \in CPUs |-> <<>>] /\ list = [i \in CPUs |-> <<>>]
  /\ tl = [i \in CPUs |-> NoTl]
  /\ cur = 0 /\ maxcur = 0 /\ peak = 0
  /\ pc = [i \in CPUs |-> "out"]
  /\ c = [i \in CPUs |-> 0] /\ m = [i \in CPUs |-> 0]
  /\ runs = 0 /\ sched_calls = 0 /\ cpu_seen = {}
  /\ owed = [t \in Tl |-> 0]
  /\ rep = NoReport

-----------------------------------------------------------------------------
(* The insmod thread: run_mode0(), run_mode1(), run_mode2().               *)

\* reset_stats(), tasklet_setup(), then on_each_cpu(..., 0) in modes 0 and 1
\* or smp_call_function_single(me, ..., 0) in mode 2; neither waits.
Start ==
  /\ phase = "init"
  /\ ipi' = IF mode = 2 THEN {0} ELSE CPUs
  /\ phase' = IF mode = 2 THEN "sleep1" ELSE "sleep"
  /\ UNCHANGED <<mode, timely, killing, queues, meter, stats, rep>>

SleepOver == timely => ipi = {}

\* mode 2: the second tasklet_schedule(), from another CPU, after the first
\* sleep; the callback may still be spinning.  smp_call_function_single()
\* refuses a CPU that is not online (-ENXIO), and nobody looks at its result.
LateSched ==
  /\ phase = "sleep1"
  /\ SleepOver
  /\ ipi' = ipi \cup ({Other} \cap CPUs)
  /\ phase' = "sleep"
  /\ UNCHANGED <<mode, timely, killing, queues, meter, stats, rep>>

\* When the sleep is over the counters are read and printed one by one,
\* whether or not the callbacks have finished: an interrupt that is late, and
\* the callback it asks for, may come in between two of these reads.
Line(from, field, value, to) ==
  /\ phase = from
  /\ rep' = [rep EXCEPT ![field] = value]
  /\ phase' = to
  /\ UNCHANGED <<mode, timely, killing, ipi, queues, meter, stats>>

\* Mutant: no msleep() between handing out the work and the report.
PrintCallsAtOnce == Line("sleep", "calls", sched_calls, "runs")

PrintCalls == SleepOver /\ Line("sleep", "calls", sched_calls, "runs")
PrintRuns == Line("runs", "runs", runs, "max")
PrintMax == Line("max", "max", maxcur, "verdict")

\* The conclusion reads maxcur a second time; so does mode 1 with sched_calls
\* and runs, which then repeat the two lines above.
PrintVerdict == Line("verdict", "verdict", maxcur, "loaded")

Report == PrintCalls \/ PrintRuns \/ PrintMax \/ PrintVerdict

-----------------------------------------------------------------------------
(* The CPUs: the IPI handler, the softirq handler and the callbacks.       *)

\* tasklet_schedule(t) on a CPU: queue it unless SCHED was already set.
TaskletSchedule(cpu, t) ==
  /\ owed' = [owed EXCEPT ![t] = @ + 1]
  /\ sched' = sched \cup {t}
  /\ vec' = IF t \in sched THEN vec ELSE [vec EXCEPT ![cpu] = Append(@, t)]

\* Mutant: sched_one() and late_sched() of mode 2 do not count their calls.
HandleIpiUncounted(cpu) ==
  /\ cpu \in ipi
  /\ ipi' = ipi \ {cpu}
  /\ sched_calls' = IF mode = 2 THEN sched_calls ELSE sched_calls + 1
  /\ TaskletSchedule(cpu, TargetOf(cpu))
  /\ UNCHANGED <<mode, timely, phase, killing, run, list, tl, meter, runs, cpu_seen, rep>>

\* sched_many(), sched_one() and late_sched(), in hard interrupt context: the
\* interrupt may arrive while this CPU is inside a callback.
HandleIpi(cpu) ==
  /\ cpu \in ipi
  /\ ipi' = ipi \ {cpu}
  /\ sched_calls' = sched_calls + 1
  /\ TaskletSchedule(cpu, TargetOf(cpu))
  /\ UNCHANGED <<mode, timely, phase, killing, run, list, tl, meter, runs, cpu_seen, rep>>

\* tasklet_action_common() takes the whole tasklet_vec.
TakeList(cpu) ==
  /\ pc[cpu] = "out" /\ list[cpu] = <<>> /\ vec[cpu] # <<>>
  /\ list' = [list EXCEPT ![cpu] = vec[cpu]]
  /\ vec' = [vec EXCEPT ![cpu] = <<>>]
  /\ UNCHANGED <<mode, timely, phase, killing, ipi, sched, run, tl, meter, stats, rep>>

\* Mutant: tasklet_trylock() ignores TASKLET_STATE_RUN.
TryLockIgnoresRun(cpu) ==
  /\ pc[cpu] = "out" /\ list[cpu] # <<>>
  /\ run' = run \cup {Head(list[cpu])}
  /\ tl' = [tl EXCEPT ![cpu] = Head(list[cpu])]
  /\ pc' = [pc EXCEPT ![cpu] = "locked"]
  /\ list' = [list EXCEPT ![cpu] = Tail(@)]
  /\ UNCHANGED <<mode, timely, phase, killing, ipi, sched, vec, cur, maxcur, c, m, peak, stats,
                 rep>>

\* Mutant: a tasklet that runs elsewhere is dropped instead of queued again.
TryLockDrops(cpu) ==
  /\ pc[cpu] = "out" /\ list[cpu] # <<>>
  /\ LET t == Head(list[cpu]) IN
     \/ /\ t \notin run
        /\ run' = run \cup {t}
        /\ tl' = [tl EXCEPT ![cpu] = t]
        /\ pc' = [pc EXCEPT ![cpu] = "locked"]
     \/ /\ t \in run
        /\ UNCHANGED <<run, tl, pc>>
  /\ list' = [list EXCEPT ![cpu] = Tail(@)]
  /\ UNCHANGED <<mode, timely, phase, killing, ipi, sched, vec, cur, maxcur, c, m, peak, stats,
                 rep>>

\* tasklet_trylock(): set RUN, or put the tasklet back on this CPU's vector.
TryLock(cpu) ==
  /\ pc[cpu] = "out" /\ list[cpu] # <<>>
  /\ LET t == Head(list[cpu]) IN
     \/ /\ t \notin run
        /\ run' = run \cup {t}
        /\ tl' = [tl EXCEPT ![cpu] = t]
        /\ pc' = [pc EXCEPT ![cpu] = "locked"]
        /\ UNCHANGED vec
     \/ /\ t \in run
        /\ vec' = [vec EXCEPT ![cpu] = Append(@, t)]
        /\ UNCHANGED <<run, tl, pc>>
  /\ list' = [list EXCEPT ![cpu] = Tail(@)]
  /\ UNCHANGED <<mode, timely, phase, killing, ipi, sched, cur, maxcur, c, m, peak, stats, rep>>

\* tasklet_clear_sched(), then the callback is called.
ClearSched(cpu) ==
  /\ pc[cpu] = "locked"
  /\ sched' = sched \ {tl[cpu]}
  /\ owed' = [owed EXCEPT ![tl[cpu]] = 0]
  /\ pc' = [pc EXCEPT ![cpu] = "start"]
  /\ UNCHANGED <<mode, timely, phase, killing, ipi, run, vec, list, tl, cur, maxcur, c, m, peak,
                 runs, sched_calls, cpu_seen, rep>>

\* many_fn(), one_fn(), one2_fn() up to the atomic_inc_return() of bump().
IncReturn(cpu) ==
  /\ pc[cpu] = "start"
  /\ cpu_seen' = cpu_seen \cup {cpu}
  /\ cur' = cur + 1
  /\ c' = [c EXCEPT ![cpu] = cur + 1]
  /\ peak' = IF cur + 1 > peak THEN cur + 1 ELSE peak
  /\ pc' = [pc EXCEPT ![cpu] = "read"]
  /\ UNCHANGED <<mode, timely, phase, killing, ipi, queues, maxcur, m, runs, sched_calls, owed,
                 rep>>

ReadMax(cpu) ==
  /\ pc[cpu] = "read"
  /\ m' = [m EXCEPT ![cpu] = maxcur]
  /\ pc' = [pc EXCEPT ![cpu] = IF c[cpu] <= maxcur THEN "in" ELSE "cas"]
  /\ UNCHANGED <<mode, timely, phase, killing, ipi, queues, cur, maxcur, c, peak, stats, rep>>

\* Mutant: maxcur = c without comparing.
CmpXchgStore(cpu) ==
  /\ pc[cpu] = "cas"
  /\ maxcur' = c[cpu]
  /\ pc' = [pc EXCEPT ![cpu] = "in"]
  /\ UNCHANGED <<mode, timely, phase, killing, ipi, queues, cur, c, m, peak, stats, rep>>

CmpXchg(cpu) ==
  /\ pc[cpu] = "cas"
  /\ maxcur' = IF maxcur = m[cpu] THEN c[cpu] ELSE maxcur
  /\ pc' = [pc EXCEPT ![cpu] = IF maxcur = m[cpu] THEN "in" ELSE "read"]
  /\ UNCHANGED <<mode, timely, phase, killing, ipi, queues, cur, c, m, peak, stats, rep>>

\* The busy wait is over: atomic_dec(&cur).
Dec(cpu) ==
  /\ pc[cpu] = "in"
  /\ cur' = cur - 1
  /\ c' = [c EXCEPT ![cpu] = 0]
  /\ m' = [m EXCEPT ![cpu] = 0]
  /\ pc' = [pc EXCEPT ![cpu] = "ret"]
  /\ UNCHANGED <<mode, timely, phase, killing, ipi, queues, maxcur, peak, stats, rep>>

\* atomic_inc(&runs), the callback returns, tasklet_unlock() clears RUN.
Return(cpu) ==
  /\ pc[cpu] = "ret"
  /\ runs' = runs + 1
  /\ run' = run \ {tl[cpu]}
  /\ tl' = [tl EXCEPT ![cpu] = NoTl]
  /\ pc' = [pc EXCEPT ![cpu] = "out"]
  /\ UNCHANGED <<mode, timely, phase, killing, ipi, sched, vec, list, cur, maxcur, c, m, peak,
                 sched_calls, cpu_seen, owed, rep>>

-----------------------------------------------------------------------------
(* rmmod: softirq_par_exit() kills tl_many[0], tl_many[1], ..., tl_one.    *)

\* The tasklet softirq_par_exit() handles after t; tl_one is last.
NextKill(t) ==
  LET later == {u \in CPUs : u > t} IN
  IF t = TlOne THEN NoTl
  ELSE IF later = {} THEN TlOne
  ELSE CHOOSE u \in later : \A v \in later : u <= v

Rmmod ==
  /\ phase = "loaded"
  /\ phase' = "kill" /\ killing' = 0
  /\ UNCHANGED <<mode, timely, ipi, queues, meter, stats, rep>>

\* tasklet_kill(): test_and_set_bit(SCHED) until it was clear.
KillSetSched ==
  /\ phase = "kill"
  /\ killing \notin sched
  /\ sched' = sched \cup {killing}
  /\ phase' = "wait"
  /\ UNCHANGED <<mode, timely, killing, ipi, run, vec, list, tl, meter, stats, rep>>

\* Mutant: tasklet_kill() without tasklet_unlock_wait().
KillNoWait ==
  /\ phase = "wait"
  /\ sched' = sched \ {killing}
  /\ killing' = NextKill(killing)
  /\ phase' = IF killing' = NoTl THEN "unloaded" ELSE "kill"
  /\ UNCHANGED <<mode, timely, ipi, run, vec, list, tl, meter, stats, rep>>

\* tasklet_unlock_wait(), tasklet_clear_sched(); after the last tasklet the
\* module text and data are freed.
KillWaitRun ==
  /\ phase = "wait"
  /\ killing \notin run
  /\ sched' = sched \ {killing}
  /\ killing' = NextKill(killing)
  /\ phase' = IF killing' = NoTl THEN "unloaded" ELSE "kill"
  /\ UNCHANGED <<mode, timely, ipi, run, vec, list, tl, meter, stats, rep>>

Unloaded == phase = "unloaded" /\ UNCHANGED vars

-----------------------------------------------------------------------------
Insmod == Start \/ LateSched \/ Report
Softirq(cpu) ==
  \/ TakeList(cpu) \/ TryLock(cpu) \/ ClearSched(cpu) \/ IncReturn(cpu)
  \/ ReadMax(cpu) \/ CmpXchg(cpu) \/ Dec(cpu) \/ Return(cpu)
Kill == KillSetSched \/ KillWaitRun

Next ==
  \/ Insmod \/ Rmmod \/ Kill \/ Unloaded
  \/ \E cpu \in CPUs : HandleIpi(cpu) \/ Softirq(cpu)

\* CPUs take their interrupts and run their softirqs, the insmod and rmmod
\* threads are scheduled; nothing forces the user to call rmmod.
Fairness ==
  /\ WF_vars(Insmod) /\ WF_vars(Kill)
  /\ \A cpu \in CPUs : WF_vars(HandleIpi(cpu)) /\ WF_vars(Softirq(cpu))

Spec == Init /\ [][Next]_vars /\ Fairness

-----------------------------------------------------------------------------
\* From the first line of the report on no further IPI is sent.
AfterSleep == {"runs", "max", "verdict", "loaded", "kill", "wait", "unloaded"}
Phases == {"init", "sleep1", "sleep"} \cup AfterSleep

TypeOK ==
  /\ mode \in Modes /\ timely \in BOOLEAN
  /\ phase \in Phases /\ killing \in Tl \cup {NoTl}
  /\ ipi \subseteq CPUs /\ sched \subseteq Tl /\ run \subseteq Tl
  /\ vec \in [CPUs -> Seq(Tl)] /\ list \in [CPUs -> Seq(Tl)]
  /\ tl \in [CPUs -> Tl \cup {NoTl}]
  /\ pc \in [CPUs -> Locations]
  /\ cpu_seen \subseteq CPUs
  /\ cur \in Nat /\ maxcur \in Nat /\ peak \in Nat
  /\ runs \in Nat /\ sched_calls \in Nat
  /\ c \in [CPUs -> Nat] /\ m \in [CPUs -> Nat]
  /\ owed \in [Tl -> Nat]
  /\ rep \in [Fields -> Nat \cup {Unread}]

\* "The same tasklet never runs on several CPUs" (the conclusion run_mode1()
\* prints): two CPUs inside a callback execute different tasklets, and in
\* modes 1 and 2 the measured maximum never exceeds 1.
TaskletSerial ==
  /\ \A i, j \in CPUs : i # j /\ tl[i] # NoTl => tl[i] # tl[j]
  /\ mode # 0 => rep.max <= 1 /\ rep.verdict <= 1

\* Once rmmod has freed the text, no CPU is inside a callback and no queue
\* still holds one of the module's tasklets; an interrupt that arrives later
\* than the sleep which should cover it may still put one there.
UnloadSafe ==
  phase = "unloaded" /\ timely =>
    \A i \in CPUs : pc[i] = "out" /\ vec[i] = <<>> /\ list[i] = <<>>

\* At every moment at most one CPU executes a tasklet, up to and after the
\* unload, when none may: softirq_par_exit() kills tasklets of every mode.
SerialInv == TypeOK /\ TaskletSerial /\ UnloadSafe

\* What the report prints is consistent with what happened although its lines
\* are read one after the other while callbacks may still be running: calls
\* and callbacks counted are real ones, the maximum and the one the conclusion
\* is drawn from never exceed the true peak nor contradict each other, and a
\* maximum is seen once a callback has been counted.  That no more callbacks
\* are printed than calls needs the sleep to outlast the interrupts; then the
\* calls are all there will ever be.
ReportSound ==
  /\ rep.calls <= sched_calls /\ rep.runs <= runs
  /\ rep.verdict # Unread => rep.max <= rep.verdict
  /\ rep.max <= peak /\ rep.verdict <= peak
  /\ rep.max # Unread /\ rep.runs > 0 => rep.max > 0
  /\ timely /\ rep.calls # Unread => rep.runs <= rep.calls /\ rep.calls = sched_calls

\* Every tasklet_schedule(), also one made while the callback spins on
\* another CPU (mode 2), is followed by a later start of the callback.  Only
\* an interrupt so late that it meets rmmod may find the SCHED bit set by
\* tasklet_kill() and be lost.
ScheduleHonoured ==
  \A t \in Tl : (owed[t] > 0) ~>
    (owed[t] = 0 \/ (~ timely /\ phase \in {"kill", "wait", "unloaded"}))

\* rmmod returns: tasklet_kill() does not wait for ever.
RmmodReturns == (phase = "kill") ~> (phase = "unloaded")

\* Nothing the module asked for is forgotten: each schedule has its callback,
\* and rmmod ends although a callback may be queued again while it waits.
NothingForgotten == ScheduleHonoured /\ RmmodReturns

\* The callbacks use the shared counters exactly as the meter prescribes.
MeterPc == [i \in CPUs |-> IF pc[i] \in {"read", "cas", "in"} THEN pc[i] ELSE "out"]
Meter == INSTANCE PeakMeter WITH Threads <- CPUs, pc <- MeterPc
ImplementsMeter == Meter!Spec

-----------------------------------------------------------------------------
(* The inductive invariant behind SerialInv and ReportSound, to which the  *)
(* meter's own invariant is added.                                         *)

\* A CPU between tasklet_trylock() and tasklet_unlock() holds the RUN bit of
\* its tasklet, which nobody else executes.
RunHeld ==
  /\ \A i \in CPUs : (tl[i] = NoTl) <=> (pc[i] = "out")
  /\ \A i \in CPUs : tl[i] # NoTl => tl[i] \in run
  /\ \A i, j \in CPUs : i # j /\ tl[i] # NoTl => tl[i] # tl[j]

Holding(i) == Range(vec[i]) \cup Range(list[i])

\* A tasklet is in one place of one queue at most, and has SCHED set until its
\* callback is about to start; tasklet_kill() owns a bit that it set itself.
Queues ==
  /\ \A i \in CPUs : /\ IsInjective(vec[i]) /\ IsInjective(list[i])
                      /\ Range(vec[i]) \cap Range(list[i]) = {}
                      /\ Holding(i) \subseteq sched
  /\ \A i, j \in CPUs : i # j => Holding(i) \cap Holding(j) = {}
  /\ \A i \in CPUs : pc[i] = "locked" =>
       tl[i] \in sched /\ \A j \in CPUs : tl[i] \notin Holding(j)
  /\ phase = "wait" =>
       /\ killing \in sched
       /\ \A i \in CPUs : killing \notin Holding(i) /\ (pc[i] = "locked" => tl[i] # killing)

\* Modes 1 and 2 know one tasklet, so its callback never meets another.
OneTasklet ==
  mode # 0 =>
    /\ \A i \in CPUs : Holding(i) \subseteq {TlOne} /\ tl[i] \in {TlOne, NoTl}
    /\ peak <= 1 /\ rep.max <= 1 /\ rep.verdict <= 1

\* Each call of tasklet_schedule() pays for at most one callback, be it over,
\* running or still queued; the first one over has left its mark in maxcur.
Busy == {i \in CPUs : pc[i] # "out"}
Pending == UNION {Holding(i) : i \in CPUs}
Counted ==
  /\ runs + Cardinality(Busy) + Cardinality(Pending) <= sched_calls
  /\ runs > 0 \/ (\E i \in CPUs : pc[i] \in {"in", "ret"}) => maxcur > 0
  /\ \A i \in CPUs : pc[i] \in {"read", "cas"} => c[i] > 0

\* The tasklets tasklet_kill() has returned for are neither queued nor running,
\* given that no IPI is under way any more.
Killed ==
  {t \in Tl : \/ phase = "unloaded"
              \/ phase \in {"kill", "wait"} /\ t \in CPUs /\ (killing = TlOne \/ t < killing)}
KillOrder ==
  /\ phase \in {"kill", "wait"} => killing \in Tl
  /\ timely => /\ Killed \cap (sched \cup run) = {}
               /\ phase \in AfterSleep => ipi = {}

\* Which lines of the report are out, by the phase of the insmod thread.
Printed ==
  /\ phase \notin AfterSleep => rep = NoReport
  /\ phase = "runs" => rep.runs = Unread
  /\ phase \in {"runs", "max"} => rep.max = Unread
  /\ phase \in {"runs", "max", "verdict"} => rep.verdict = Unread
  /\ rep.max <= maxcur

SoftirqInv ==
  TypeOK /\ RunHeld /\ Queues /\ OneTasklet /\ Counted /\ KillOrder /\ Printed /\ ReportSound
IInv == SoftirqInv /\ Meter!IInv
=============================================================================
