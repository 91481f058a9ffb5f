----------------------------- MODULE ThreadLabs -----------------------------
(***************************************************************************)
(* Benchmarks whose main() creates threads, lets them run, joins them and  *)
(* prints what they counted:                                               *)
(*   lse    experiments/lse_bench.c: run() three times, with one thread on *)
(*          the shared counter, with all, and with all on their own ones   *)
(*   heat   rock5b_explore/tools/heat.c: a thread per entry of a CPU list, *)
(*          which counts in iters[cpu]                                     *)
(*   membw  rock5b_explore/tools/membw.c: five rounds of three memory      *)
(*          phases, each behind a pthread barrier of nthr threads          *)
(* pthreads are external.  pthread_create() may fail, which no program     *)
(* notices: it then joins an uninitialized pthread_t (pc = "wild").        *)
(***************************************************************************)
EXTENDS Naturals, FiniteSets, Sums

CONSTANTS
  nthr,      \* threads
  ROUNDS,    \* rounds of membw, 5 in the code
  MaxOps     \* bound: iterations of one thread before stop is set

VARIABLES
  prog, pc,
  round,       \* lse: which run() this is
  next,        \* main()'s loop index
  th,          \* per thread: "none", "born", "loop", "add", "leave",
               \* "wait", "work", "over"; "fail": it was not created
  n,           \* per thread: its local count (membw: phases it measured)
  stop,        \* stop_flag, stop
  counter,     \* lse: shared_counter and, per thread, priv[].v
  slots,       \* per_thread_ops[] by thread, iters[] by CPU, the threads in res[][]
  cpus,        \* heat: the CPU list
  printed,     \* what the last report said
  arrived      \* membw: threads at the barrier

vars == <<prog, pc, round, next, th, n, stop, counter, slots, cpus, printed, arrived>>

T == 1..nthr
Many == IF prog = "lse" /\ round = 1 THEN 1 ELSE nthr      \* the parameter of run()
Working == 1..Many                                        \* the threads of this run
Slot(t) == IF prog = "heat" THEN cpus[t] ELSE t
Zero == [t \in T |-> 0]

Init ==
  /\ prog = "none" /\ pc = "start" /\ round = 0 /\ next = 1
  /\ th = [t \in T |-> "none"] /\ n = Zero /\ stop = FALSE
  /\ counter = [shared |-> 0, priv |-> Zero] /\ slots = Zero
  /\ cpus = Zero /\ printed = Zero /\ arrived = {}

-----------------------------------------------------------------------------
(* main(), and run() of lse_bench.c.                                       *)

\* The length of a program's arrays.  lse takes no more threads than that; the
\* others are not run with more, which would write behind res[][], th[] or cpus[].
Room(p) == IF p = "membw" THEN 16 ELSE 64

Start ==
  /\ pc = "start" /\ pc' = "create"
  /\ prog' \in {p \in {"lse", "heat", "membw"} : nthr <= Room(p)}
  /\ cpus' \in IF prog' = "heat" THEN [T -> T] ELSE {Zero}
  /\ round' = 1
  /\ UNCHANGED <<next, th, n, stop, counter, slots, printed, arrived>>

\* The next run(): the private counters keep their values.
Setup ==
  /\ pc = "setup" /\ pc' = "create"
  /\ stop' = FALSE /\ slots' = Zero /\ counter' = [counter EXCEPT !.shared = 0]
  /\ th' = [t \in T |-> "none"] /\ n' = Zero /\ next' = 1
  /\ UNCHANGED <<prog, round, cpus, printed, arrived>>

Create ==
  /\ pc = "create"
  /\ IF next \in Working
     THEN /\ \E s \in {"born", "fail"} : th' = [th EXCEPT ![next] = s]
          /\ next' = next + 1 /\ UNCHANGED pc
     ELSE /\ pc' = IF prog = "membw" THEN "join" ELSE "sleep"
          /\ next' = 1 /\ UNCHANGED th
  /\ UNCHANGED <<prog, round, n, stop, counter, slots, cpus, printed, arrived>>

\* usleep() is over.
StopAll ==
  /\ pc = "sleep" /\ pc' = "join"
  /\ stop' = TRUE
  /\ UNCHANGED <<prog, round, next, th, n, counter, slots, cpus, printed, arrived>>

\* Mutant: the threads are not joined.
JoinNot ==
  /\ pc = "join" /\ pc' = "report"
  /\ UNCHANGED <<prog, round, next, th, n, stop, counter, slots, cpus, printed, arrived>>

Join ==
  /\ pc = "join"
  /\ \/ next \notin Working /\ pc' = "report" /\ UNCHANGED next
     \/ next \in Working /\ th[next] = "over" /\ next' = next + 1 /\ UNCHANGED pc
     \/ next \in Working /\ th[next] = "fail" /\ pc' = "wild" /\ UNCHANGED next
  /\ UNCHANGED <<prog, round, th, n, stop, counter, slots, cpus, printed, arrived>>

\* lse prints the sum, heat a line for each entry of its list, membw a sum.
Report ==
  /\ pc = "report"
  /\ printed' = [t \in T |-> IF prog = "heat" THEN slots[cpus[t]] ELSE Sum(slots, Many)]
  /\ IF prog = "lse" /\ round < 3
     THEN pc' = "setup" /\ round' = round + 1
     ELSE pc' = "done" /\ UNCHANGED round
  /\ UNCHANGED <<prog, next, th, n, stop, counter, slots, cpus, arrived>>

-----------------------------------------------------------------------------
(* atomic_worker() and burn(): test the flag, do one iteration, count it.  *)

Test(t) ==
  /\ prog \in {"lse", "heat"} /\ th[t] \in {"born", "loop"}
  /\ \/ stop /\ th' = [th EXCEPT ![t] = "leave"]
     \/ ~stop /\ n[t] < MaxOps /\ th' = [th EXCEPT ![t] = "add"]
  /\ UNCHANGED <<prog, pc, round, next, n, stop, counter, slots, cpus, printed, arrived>>

Add(t) ==
  /\ th[t] = "add" /\ th' = [th EXCEPT ![t] = "loop"]
  /\ n' = [n EXCEPT ![t] = @ + 1]
  /\ counter' = CASE prog = "heat" -> counter
                  [] round < 3 -> [counter EXCEPT !.shared = @ + 1]
                  [] OTHER -> [counter EXCEPT !.priv[t] = @ + 1]
  /\ UNCHANGED <<prog, pc, round, next, stop, slots, cpus, printed, arrived>>

Finish(t) ==
  /\ th[t] = "leave" /\ th' = [th EXCEPT ![t] = "over"]
  /\ slots' = [slots EXCEPT ![Slot(t)] = n[t]]
  /\ UNCHANGED <<prog, pc, round, next, n, stop, counter, cpus, printed, arrived>>

-----------------------------------------------------------------------------
(* worker() of membw.c.                                                    *)

\* Mutant: nobody waits at the barrier.
ArriveNot(t) ==
  /\ prog = "membw" /\ th[t] = "born" /\ n[t] < 3 * ROUNDS
  /\ th' = [th EXCEPT ![t] = "work"]
  /\ UNCHANGED <<prog, pc, round, next, n, stop, counter, slots, cpus, printed, arrived>>

\* pthread_barrier_wait(): the last of nthr threads lets all of them go on.
Arrive(t) ==
  /\ prog = "membw" /\ th[t] = "born" /\ n[t] < 3 * ROUNDS
  /\ IF Cardinality(arrived) + 1 < nthr
     THEN th' = [th EXCEPT ![t] = "wait"] /\ arrived' = arrived \cup {t}
     ELSE th' = [u \in T |-> IF u \in arrived \cup {t} THEN "work" ELSE th[u]] /\ arrived' = {}
  /\ UNCHANGED <<prog, pc, round, next, n, stop, counter, slots, cpus, printed>>

\* memset(), the sum or memcpy(), between two calls of now().
Measure(t) ==
  /\ th[t] = "work" /\ th' = [th EXCEPT ![t] = "born"]
  /\ n' = [n EXCEPT ![t] = @ + 1]
  /\ UNCHANGED <<prog, pc, round, next, stop, counter, slots, cpus, printed, arrived>>

\* The best times of the three phases go to res[][id].
Results(t) ==
  /\ prog = "membw" /\ th[t] = "born" /\ n[t] = 3 * ROUNDS
  /\ th' = [th EXCEPT ![t] = "over"]
  /\ slots' = [slots EXCEPT ![t] = n[t]]
  /\ UNCHANGED <<prog, pc, round, next, n, stop, counter, cpus, printed, arrived>>

Main == Setup \/ Create \/ StopAll \/ Join \/ Report
Thread(t) == Test(t) \/ Add(t) \/ Finish(t) \/ Arrive(t) \/ Measure(t) \/ Results(t)
Next == Start \/ Main \/ \E t \in T : Thread(t)

\* Every thread is scheduled, and main() after its sleep.
Fairness == WF_vars(Main) /\ \A t \in T : WF_vars(Thread(t))
Spec == Init /\ [][Next]_vars /\ Fairness

-----------------------------------------------------------------------------
\* lse_bench.c: the operations it prints are those the counters received, in
\* run 1 and 2 the shared one, in run 3 the private ones.  heat.c: each line
\* shows the iterations of a thread of that CPU, its own unless the CPU is
\* listed twice.  membw.c: every thread contributed all its phases.  In the
\* first two, no thread is left over by the time of a report.
CountsExact ==
  /\ (prog = "lse" /\ pc \in {"setup", "done"}) =>
        printed[1] = IF pc = "done" THEN Sum(counter.priv, nthr) ELSE counter.shared
  /\ (prog = "heat" /\ pc = "done") => \A t \in T : \E u \in T : cpus[u] = cpus[t] /\ printed[t] = n[u]
  /\ (prog = "membw" /\ pc = "done") => printed[1] = nthr * 3 * ROUNDS
  /\ pc \in {"setup", "done"} => \A t \in T : th[t] \in {"none", "over"}

\* membw.c: two threads never measure different phases at the same time, so
\* that the sum of their bandwidths is one of the same operation.
PhasesTogether == \A t, u \in T : th[t] = "work" /\ th[u] = "work" => n[t] = n[u]

\* Each of the benchmarks ends.  With a thread missing it runs into the
\* undefined join instead, and membw's other threads may wait at the barrier
\* for ever.
BenchRuns == pc = "create"
BenchOver == pc \in {"done", "wild"} \/ (prog = "membw" /\ \E t \in T : th[t] = "fail")
-----------------------------------------------------------------------------
(* The inductive invariant.                                                *)

ThrSizes == nthr \in Nat \ {0} /\ ROUNDS \in Nat /\ MaxOps \in Nat

TypeOK ==
  /\ prog \in {"none", "lse", "heat", "membw"}
  /\ pc \in {"start", "create", "sleep", "join", "report", "setup", "done", "wild"}
  /\ round \in 0..3 /\ next \in 1..(nthr + 1) /\ stop \in BOOLEAN
  /\ th \in [T -> {"none", "born", "loop", "add", "leave", "wait", "work", "over", "fail"}]
  /\ n \in [T -> Nat] /\ slots \in [T -> Nat]
  /\ counter \in [shared : Nat, priv : [T -> Nat]]
  /\ cpus \in [T -> Nat] /\ printed \in [T -> Int] /\ arrived \subseteq T

\* How far main() is: the threads of the run are created, then joined, in order.
Joined ==
  /\ pc = "start" <=> prog = "none"
  /\ pc # "start" => round \in 1..3
  /\ round > 1 \/ pc = "setup" => prog = "lse"
  /\ pc = "create" => next <= Many + 1
  /\ pc \in {"start", "create"} => \A t \in T : t >= next => th[t] = "none"
  /\ pc = "start" => round = 0
  /\ pc \in {"start", "sleep"} => next = 1
  /\ pc = "join" => next <= Many + 1 /\ \A t \in T : t < next => th[t] = "over"
  /\ \A t \in T : th[t] # "none" => t \in Working
  /\ \A t \in T : th[t] = "none" => n[t] = 0
  /\ pc \in {"report", "done"} => \A t \in Working : th[t] = "over"
  /\ pc = "setup" => \A t \in T : th[t] \in {"none", "over"}

\* What has been counted so far: a thread that is over has left its count.
Tallied ==
  /\ prog \in {"none", "lse"} =>
       /\ round < 3 \/ pc = "setup" => counter.priv = Zero
       /\ round < 3 /\ pc # "setup" => counter.shared = Sum(n, Many)
       /\ round = 3 /\ pc # "setup" => counter.priv = n
       /\ pc # "setup" => \A t \in T : th[t] = "over" => slots[t] = n[t]
  /\ prog = "heat" =>
       /\ cpus \in [T -> T]
       /\ \A t \in T : th[t] = "over" => \E u \in T :
            cpus[u] = cpus[t] /\ th[u] = "over" /\ slots[cpus[t]] = n[u]
  /\ prog = "membw" => \A t \in T : th[t] = "over" => slots[t] = 3 * ROUNDS

\* membw.c: a phase is measured only when nobody is behind, and begun only by
\* all the threads at once.
Barrier ==
  /\ arrived = {t \in T : th[t] = "wait"}
  /\ prog # "membw" => \A t \in T : th[t] \notin {"wait", "work"}
  /\ prog = "membw" => \A t \in T : th[t] \notin {"loop", "add", "leave"}
  /\ prog = "membw" => \E k \in 0..(3 * ROUNDS) : \A t \in T :
       IF th[t] = "work" THEN n[t] + 1 = k ELSE n[t] = k

ThrInv == TypeOK /\ Joined /\ Tallied /\ Barrier /\ CountsExact
=============================================================================
