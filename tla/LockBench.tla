----------------------------- MODULE LockBench -----------------------------
(***************************************************************************)
(* experiments/lock_bench.c, modes 1 (run_bench) and 2 (run_optspin): a    *)
(* series of rounds.  Each starts some kthreads that take a lock, change   *)
(* bl_shared and release it until their time is up, waits until "running"  *)
(* is zero, and prints the sums of ops[] and of the context switches.      *)
(*                                                                         *)
(* Spinlock, mutex and rwsem are external and abstracted to who holds      *)
(* them.  MaxOps and MaxSwitches stand for the time limit "ms".            *)
(***************************************************************************)
EXTENDS Integers, Sequences, Sums

CONSTANTS
  Schedule,        \* the rounds: a sequence of <<kind of lock, thread count>>
  MaxThreads,      \* MAXT, the length of ops[] and t_nvcsw[]
  MaxOps,          \* bound on the operations of a thread in a round
  MaxSwitches,     \* bound on its voluntary context switches
  MayFailThread    \* TRUE: kthread_create() may fail

Kinds == {"spin", "mutex", "rwsem_r", "rwsem_w", "atomic", "rcu"}
Exclusive == {"spin", "mutex", "rwsem_w"}   \* rounds that do bl_shared++

T == 1..MaxThreads

VARIABLES
  round,       \* index into Schedule
  phase,       \* the insmod thread: "absent", "setup", "create", "join" or "done"
  next,        \* the thread the creation loop is at
  running,     \* atomic_t running
  ops,         \* ops[]
  tcsw,        \* t_nvcsw[]
  pc, n,       \* per thread: where bench_thread() is, and its local n
  tmp,         \* per thread: the value of bl_shared it has read
  nvcsw,       \* per thread: current->nvcsw
  holders,     \* threads inside the lock of this round
  bl_shared, bl_atomic,
  rep,         \* last printed sums: [ops, csw]
  did, slept, protected, atomics,  \* history: what really happened
  failed       \* history: some thread could not be created

vars == <<round, phase, next, running, ops, tcsw, pc, n, tmp, nvcsw, holders,
          bl_shared, bl_atomic, rep, did, slept, protected, atomics, failed>>
data == <<bl_shared, bl_atomic, protected, atomics>>
report == <<rep, failed>>

Lock == Schedule[round][1]       \* cur_lock
Nthr == Schedule[round][2]
Total(f) == Sum(f, Nthr)
Zero == [i \in T |-> 0]

Init ==
  /\ round = 1 /\ phase = "absent" /\ next = 1 /\ running = 0
  /\ ops = Zero /\ tcsw = Zero /\ n = Zero /\ tmp = Zero /\ nvcsw = Zero
  /\ pc = [i \in T |-> "none"] /\ holders = {}
  /\ bl_shared = 0 /\ bl_atomic = 0
  /\ rep = [ops |-> 0, csw |-> 0]
  /\ did = 0 /\ slept = 0 /\ protected = 0 /\ atomics = 0 /\ failed = FALSE

-----------------------------------------------------------------------------
(* run_one_bench() and run_optspin_case().                                 *)

Load ==
  /\ phase = "absent" /\ phase' = "setup"
  /\ UNCHANGED <<round, next, running, ops, tcsw, pc, n, tmp, nvcsw, holders, data, report,
                 did, slept>>

\* atomic_set(&running, nthr); memset(ops, 0, sizeof(ops));
Setup ==
  /\ phase = "setup"
  /\ running' = Nthr /\ ops' = Zero /\ next' = 1
  /\ did' = 0 /\ slept' = 0
  /\ phase' = "create"
  /\ UNCHANGED <<round, tcsw, pc, n, tmp, nvcsw, holders, data, report>>

\* kthread_create(), kthread_bind(), wake_up_process(); the new thread has
\* slept once before it was woken.
Create ==
  /\ phase = "create" /\ next <= Nthr
  /\ pc' = [pc EXCEPT ![next] = "start"]
  /\ nvcsw' = [nvcsw EXCEPT ![next] = 1] /\ n' = [n EXCEPT ![next] = 0]
  /\ next' = next + 1
  /\ UNCHANGED <<round, phase, running, ops, tcsw, tmp, holders, data, report, did, slept>>

\* Mutant: the thread that could not be created stays counted.
CreateFailsCounted ==
  /\ MayFailThread /\ phase = "create" /\ next <= Nthr
  /\ next' = next + 1 /\ failed' = TRUE
  /\ UNCHANGED <<round, phase, running, ops, tcsw, pc, n, tmp, nvcsw, holders, data, rep,
                 did, slept>>

\* IS_ERR(): the thread is not counted; its ops[] stays zero, t_nvcsw[] as is.
CreateFails ==
  /\ MayFailThread /\ phase = "create" /\ next <= Nthr
  /\ running' = running - 1
  /\ next' = next + 1 /\ failed' = TRUE
  /\ UNCHANGED <<round, phase, ops, tcsw, pc, n, tmp, nvcsw, holders, data, rep, did, slept>>

CreateDone ==
  /\ phase = "create" /\ next > Nthr
  /\ phase' = "join"
  /\ UNCHANGED <<round, next, running, ops, tcsw, pc, n, tmp, nvcsw, holders, data, report,
                 did, slept>>

\* running is zero: sum up, print, go on to the next round.
Join ==
  /\ phase = "join" /\ running = 0
  /\ rep' = [ops |-> Total(ops), csw |-> Total(tcsw)]
  /\ round' = IF round < Len(Schedule) THEN round + 1 ELSE round
  /\ phase' = IF round < Len(Schedule) THEN "setup" ELSE "done"
  /\ UNCHANGED <<next, running, ops, tcsw, pc, n, tmp, nvcsw, holders, data, failed, did, slept>>

Done == phase = "done" /\ UNCHANGED vars

-----------------------------------------------------------------------------
(* bench_thread() and optspin_thread().                                    *)

\* t_nvcsw[idx] = current->nvcsw;
Snapshot(i) ==
  /\ pc[i] = "start"
  /\ tcsw' = [tcsw EXCEPT ![i] = nvcsw[i]]
  /\ pc' = [pc EXCEPT ![i] = "loop"]
  /\ UNCHANGED <<round, phase, next, running, ops, n, tmp, nvcsw, holders, data, report,
                 did, slept>>

\* Mutant: the exclusive locks let everyone in.
AcquireAny(i) ==
  /\ pc[i] = "loop" /\ n[i] < MaxOps
  /\ holders' = holders \cup {i}
  /\ tmp' = [tmp EXCEPT ![i] = IF Lock \in Exclusive THEN bl_shared ELSE 0]
  /\ pc' = [pc EXCEPT ![i] = "locked"]
  /\ UNCHANGED <<round, phase, next, running, ops, tcsw, n, nvcsw, data, report, did, slept>>

\* The lock is taken and bl_shared read; readers, rcu and atomic_inc() do
\* not exclude each other.
Acquire(i) ==
  /\ pc[i] = "loop" /\ n[i] < MaxOps
  /\ Lock \in Exclusive => holders = {}
  /\ holders' = holders \cup {i}
  /\ tmp' = [tmp EXCEPT ![i] = IF Lock \in Exclusive THEN bl_shared ELSE 0]
  /\ pc' = [pc EXCEPT ![i] = "locked"]
  /\ UNCHANGED <<round, phase, next, running, ops, tcsw, n, nvcsw, data, report, did, slept>>

\* A contended mutex or rwsem, or the usleep_range() of mode 2, puts the
\* thread to sleep: a voluntary context switch.
Sleep(i) ==
  /\ Lock \in {"mutex", "rwsem_w", "rwsem_r"}
  /\ pc[i] \in {"loop", "locked"} /\ nvcsw[i] <= MaxSwitches
  /\ nvcsw' = [nvcsw EXCEPT ![i] = @ + 1]
  /\ slept' = slept + 1
  /\ UNCHANGED <<round, phase, next, running, ops, tcsw, pc, n, tmp, holders, data, report, did>>

\* bl_shared is written back (or bl_atomic incremented), the lock released,
\* and n counted.
Release(i) ==
  /\ pc[i] = "locked"
  /\ bl_shared' = IF Lock \in Exclusive THEN tmp[i] + 1 ELSE bl_shared
  /\ bl_atomic' = IF Lock = "atomic" THEN bl_atomic + 1 ELSE bl_atomic
  /\ protected' = IF Lock \in Exclusive THEN protected + 1 ELSE protected
  /\ atomics' = IF Lock = "atomic" THEN atomics + 1 ELSE atomics
  /\ holders' = holders \ {i}
  /\ n' = [n EXCEPT ![i] = @ + 1]
  /\ did' = did + 1
  /\ pc' = [pc EXCEPT ![i] = "loop"]
  /\ UNCHANGED <<round, phase, next, running, ops, tcsw, tmp, nvcsw, report, slept>>

\* Mutant: the absolute count is stored instead of the difference.
FinishNoDelta(i) ==
  /\ pc[i] = "loop"
  /\ ops' = [ops EXCEPT ![i] = n[i]]
  /\ tcsw' = [tcsw EXCEPT ![i] = nvcsw[i]]
  /\ pc' = [pc EXCEPT ![i] = "dec"]
  /\ UNCHANGED <<round, phase, next, running, n, tmp, nvcsw, holders, data, report, did, slept>>

\* The time is up: ops[idx] = n; t_nvcsw[idx] = current->nvcsw - t_nvcsw[idx];
Finish(i) ==
  /\ pc[i] = "loop"
  /\ ops' = [ops EXCEPT ![i] = n[i]]
  /\ tcsw' = [tcsw EXCEPT ![i] = nvcsw[i] - @]
  /\ pc' = [pc EXCEPT ![i] = "dec"]
  /\ UNCHANGED <<round, phase, next, running, n, tmp, nvcsw, holders, data, report, did, slept>>

\* The thread and its locals are gone.
Gone(i) ==
  /\ pc' = [pc EXCEPT ![i] = "none"] /\ n' = [n EXCEPT ![i] = 0]
  /\ tmp' = [tmp EXCEPT ![i] = 0] /\ nvcsw' = [nvcsw EXCEPT ![i] = 0]

\* atomic_dec(&running); return 0;
Dec(i) ==
  /\ pc[i] = "dec"
  /\ running' = running - 1
  /\ Gone(i)
  /\ UNCHANGED <<round, phase, next, ops, tcsw, holders, data, report, did, slept>>

-----------------------------------------------------------------------------
Insmod == Setup \/ Create \/ CreateDone \/ Join
Bench(i) ==
  \/ Snapshot(i) \/ Acquire(i) \/ Release(i) \/ Finish(i) \/ Dec(i)

Next ==
  \/ Load \/ Insmod \/ CreateFails \/ Done
  \/ \E i \in T : Bench(i) \/ Sleep(i)

\* The insmod thread and the benchmark threads are scheduled, and the time
\* limit ends every thread's loop.
Fairness == WF_vars(Insmod) /\ \A i \in T : WF_vars(Bench(i)) /\ SF_vars(Finish(i))

Spec == Init /\ [][Next]_vars /\ Fairness

-----------------------------------------------------------------------------
TypeOK ==
  /\ round \in DOMAIN Schedule /\ failed \in BOOLEAN
  /\ phase \in {"absent", "setup", "create", "join", "done"}
  /\ next \in 1..(MaxThreads + 1) /\ running \in 0..MaxThreads
  /\ ops \in [T -> 0..MaxOps] /\ n \in [T -> 0..MaxOps]
  /\ tcsw \in [T -> Int] /\ nvcsw \in [T -> 0..(MaxSwitches + 1)]
  /\ pc \in [T -> {"none", "start", "loop", "locked", "dec"}]
  /\ holders \subseteq T

\* A round's threads are all gone before the next one is set up and before
\* its sums are read: no thread takes the next round's lock, or adds to ops[]
\* behind the sum.
RoundsDoNotOverlap ==
  phase \in {"setup", "done"} => holders = {} /\ \A i \in T : pc[i] = "none"

\* No update of the protected data is lost, in any round.
NoLostUpdate ==
  phase = "done" => bl_shared = protected /\ bl_atomic = atomics

\* The printed operation count is the number of operations of the round.
OpsExact == phase \in {"setup", "done"} => rep.ops = did

\* "the number of voluntary switches is the number of times the mutex took
\* the sleeping path": the printed sum counts this round's switches only.
\* (A thread that could not be created leaves an earlier round's in its slot.)
SwitchesExact == phase \in {"setup", "done"} /\ ~failed => rep.csw = slept

\* Once started, all rounds are run and insmod returns, whichever threads
\* could not be created.
InsmodReturns == (phase = "setup") ~> (phase = "done")

-----------------------------------------------------------------------------
(* The inductive invariant.                                                *)

\* Threads exist only while a round is on, and are those created so far; their
\* slot of ops[] is clear until they fill it.
Placed ==
  /\ phase = "create" => next <= Nthr + 1
  /\ phase = "join" => next = Nthr + 1
  /\ \A i \in T :
       /\ pc[i] # "none" => phase \in {"create", "join"} /\ i <= Nthr /\ i < next
       /\ pc[i] \in {"start", "loop", "locked"} => ops[i] = 0
       /\ phase = "create" /\ next <= i => ops[i] = 0
       /\ pc[i] = "start" => n[i] = 0

\* Under an exclusive lock there is one thread, and the value it has read is
\* still the one in memory.
Protected ==
  /\ tmp \in [T -> Nat]
  /\ bl_shared \in Nat /\ bl_shared = protected
  /\ bl_atomic \in Nat /\ bl_atomic = atomics
  /\ holders = {i \in T : pc[i] = "locked"}
  /\ \A i \in holders : n[i] < MaxOps
  /\ Lock \in Exclusive => \A i, j \in holders : i = j /\ tmp[i] = bl_shared

\* What a slot adds to running, to the operations and to the switches of the
\* round: the thread there is yet to be created or to leave, its count is
\* still in n or already in ops[], its switches still in nvcsw or in t_nvcsw[].
Alive == [i \in T |-> IF pc[i] # "none" \/ (phase = "create" /\ next <= i) THEN 1 ELSE 0]
OpsSoFar == [i \in T |-> IF pc[i] \in {"loop", "locked"} THEN ops[i] + n[i] ELSE ops[i]]
SlpSoFar ==
  [i \in T |-> IF pc[i] \in {"loop", "locked"} THEN nvcsw[i] - tcsw[i]
               ELSE IF pc[i] = "start" \/ next <= i THEN 0 ELSE tcsw[i]]

\* The counters of a round are the sums over its threads; the printed ones are
\* those of the round before.
Accounted ==
  /\ did \in Int /\ slept \in Int
  /\ phase \in {"create", "join"} =>
       /\ running = Sum(Alive, Nthr) /\ did = Sum(OpsSoFar, Nthr)
       /\ ~failed => slept = Sum(SlpSoFar, Nthr)
  /\ phase \in {"absent", "setup", "done"} =>
       rep.ops = did /\ (~failed => rep.csw = slept)

LbInv == TypeOK /\ Placed /\ Protected /\ Accounted
=============================================================================
