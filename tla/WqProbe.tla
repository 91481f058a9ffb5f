------------------------------- MODULE WqProbe -------------------------------
(***************************************************************************)
(* experiments/wq_probe.c: nwork work items on one CPU's worker pool.      *)
(*   mode 0: items that sleep, on system_wq                                *)
(*   mode 1: items that burn CPU, on system_wq                             *)
(*   mode 2: sleeping items on an ordered (max_active = 1, unbound) queue  *)
(*   mode 3: sleeping items on a queue with max_active = 2                 *)
(* The insmod thread queues the items, waits for a completion with a       *)
(* timeout, and reports; rmmod flushes only the queue it allocated.        *)
(*                                                                         *)
(* The concurrency-managed worker pool (worklist, inactive_works,          *)
(* nr_running) is external, modelled from what the module observes of it.  *)
(***************************************************************************)
EXTENDS Integers, Sequences, FiniteSets, Functions

CONSTANTS
  NWork,       \* module parameter nwork, after the clamp to MAXW
  Workers,     \* kworkers the pool has or may create
  Modes        \* values of the module parameter mode to explore

ASSUME WqProbeAssumption ==
  /\ NWork \in Nat \ {0}
  /\ IsFiniteSet(Workers) /\ Cardinality(Workers) >= NWork
  /\ Modes \subseteq 0..3

Works == 1..NWork
NoWork == 0

VARIABLES
  mode, phase,
  next,               \* loop index of the queueing loop
  my_wq,              \* the queue allocated in modes 2 and 3 exists
  worklist, inactive, \* pool->worklist, pwq->inactive_works
  nr_active,          \* pwq->nr_active
  job,                \* per worker: the item it executes
  concur, maxconcur, pc, c, m, peak,   \* bump(), see PeakMeter
  remaining, all_done,                 \* atomic_t, struct completion
  finished,           \* items whose t_end is set
  rep                 \* what report() saw: [max, finished, timeout]

pool == <<worklist, inactive, nr_active, job>>
meter == <<concur, maxconcur, pc, c, m, peak>>
sync == <<remaining, all_done, finished>>
vars == <<mode, phase, next, my_wq, pool, meter, sync, rep>>

NoReport == [max |-> -1, finished |-> {}, timeout |-> FALSE]

Sleeps == mode # 1

MaxActive == CASE mode \in {0, 1} -> NWork [] mode = 2 -> 1 [] mode = 3 -> 2

Locations == {"out", "start", "read", "cas", "in", "asleep", "awake", "dec", "tail"}

\* Workers the pool counts in nr_running: executing an item and not asleep.
Running == {w \in Workers : pc[w] \notin {"out", "asleep"}}

Init ==
  /\ mode \in Modes /\ phase = "init" /\ next = 1 /\ my_wq = FALSE
  /\ worklist = <<>> /\ inactive = <<>> /\ nr_active = 0
  /\ job = [w \in Workers |-> NoWork]
  /\ concur = 0 /\ maxconcur = 0 /\ peak = 0
  /\ pc = [w \in Workers |-> "out"]
  /\ c = [w \in Workers |-> 0] /\ m = [w \in Workers |-> 0]
  /\ remaining = 0 /\ all_done = FALSE /\ finished = {}
  /\ rep = NoReport

-----------------------------------------------------------------------------
(* The insmod thread: run_mode0(), run_mode1(), run_wq_mode().             *)

\* Mutant: the counter of outstanding items starts one too high.
SetupOffByOne ==
  /\ phase = "init"
  /\ my_wq' = (mode \in {2, 3})
  /\ remaining' = NWork + 1
  /\ phase' = "queue"
  /\ UNCHANGED <<mode, next, pool, meter, all_done, finished, rep>>

\* The counters are set before any item is queued; alloc_workqueue() may fail.
Setup ==
  /\ phase = "init"
  /\ \/ /\ my_wq' = (mode \in {2, 3})
        /\ remaining' = NWork
        /\ phase' = "queue"
     \/ /\ mode \in {2, 3}
        /\ phase' = "loaded"
        /\ UNCHANGED <<my_wq, remaining>>
  /\ UNCHANGED <<mode, next, pool, meter, all_done, finished, rep>>

\* Mutant: max_active is not enforced.
QueueWorkUnlimited ==
  /\ phase = "queue" /\ next <= NWork
  /\ worklist' = Append(worklist, next)
  /\ nr_active' = nr_active + 1
  /\ next' = next + 1
  /\ UNCHANGED <<mode, phase, my_wq, inactive, job, meter, sync, rep>>

\* queue_work_on(): an item beyond max_active is parked in inactive_works.
QueueWork ==
  /\ phase = "queue" /\ next <= NWork
  /\ \/ /\ nr_active < MaxActive
        /\ worklist' = Append(worklist, next)
        /\ nr_active' = nr_active + 1
        /\ UNCHANGED inactive
     \/ /\ nr_active >= MaxActive
        /\ inactive' = Append(inactive, next)
        /\ UNCHANGED <<worklist, nr_active>>
  /\ next' = next + 1
  /\ UNCHANGED <<mode, phase, my_wq, job, meter, sync, rep>>

\* All items queued; modes 0 and 1 count kworkers here, then everyone waits.
BeginWait ==
  /\ phase = "queue" /\ next > NWork
  /\ phase' = "wait"
  /\ UNCHANGED <<mode, next, my_wq, pool, meter, sync, rep>>

Report(timeout) ==
  /\ phase = "wait"
  /\ rep' = [max |-> maxconcur, finished |-> finished, timeout |-> timeout]
  /\ phase' = "loaded"
  /\ UNCHANGED <<mode, next, my_wq, pool, meter, sync>>

\* wait_for_completion_timeout() returns because complete() was called ...
WaitDone == all_done /\ Report(FALSE)

\* ... or because the timeout elapsed; the report is printed all the same.
WaitTimeout == ~all_done /\ Report(TRUE)

-----------------------------------------------------------------------------
(* The worker pool and the two work functions.                             *)

\* Mutant: no second worker is woken while one is asleep in its item.
StartWorkNoManager(w) ==
  /\ pc[w] = "out" /\ worklist # <<>>
  /\ \A v \in Workers : pc[v] = "out"
  /\ job' = [job EXCEPT ![w] = Head(worklist)]
  /\ worklist' = Tail(worklist)
  /\ pc' = [pc EXCEPT ![w] = "start"]
  /\ UNCHANGED <<mode, phase, next, my_wq, inactive, nr_active,
                 concur, maxconcur, c, m, peak, sync, rep>>

\* need_more_worker(): the bound pool hands out an item only while nobody of
\* it is running; the unbound pool of the ordered queue does not care.
StartWork(w) ==
  /\ pc[w] = "out" /\ worklist # <<>>
  /\ mode = 2 \/ Running = {}
  /\ job' = [job EXCEPT ![w] = Head(worklist)]
  /\ worklist' = Tail(worklist)
  /\ pc' = [pc EXCEPT ![w] = "start"]
  /\ UNCHANGED <<mode, phase, next, my_wq, inactive, nr_active,
                 concur, maxconcur, c, m, peak, sync, rep>>

\* work_sleep_fn() / work_burn_fn() up to atomic_inc_return() in bump().
IncReturn(w) ==
  /\ pc[w] = "start"
  /\ concur' = concur + 1
  /\ c' = [c EXCEPT ![w] = concur + 1]
  /\ peak' = IF concur + 1 > peak THEN concur + 1 ELSE peak
  /\ pc' = [pc EXCEPT ![w] = "read"]
  /\ UNCHANGED <<mode, phase, next, my_wq, pool, maxconcur, m, sync, rep>>

ReadMax(w) ==
  /\ pc[w] = "read"
  /\ m' = [m EXCEPT ![w] = maxconcur]
  /\ pc' = [pc EXCEPT ![w] = IF c[w] <= maxconcur THEN "in" ELSE "cas"]
  /\ UNCHANGED <<mode, phase, next, my_wq, pool, concur, maxconcur, c, peak, sync, rep>>

CmpXchg(w) ==
  /\ pc[w] = "cas"
  /\ maxconcur' = IF maxconcur = m[w] THEN c[w] ELSE maxconcur
  /\ pc' = [pc EXCEPT ![w] = IF maxconcur = m[w] THEN "in" ELSE "read"]
  /\ UNCHANGED <<mode, phase, next, my_wq, pool, concur, c, m, peak, sync, rep>>

\* msleep(sleep_ms): wq_worker_sleeping() takes the worker out of nr_running.
Sleep(w) ==
  /\ Sleeps /\ pc[w] = "in"
  /\ pc' = [pc EXCEPT ![w] = "asleep"]
  /\ UNCHANGED <<mode, phase, next, my_wq, pool, concur, maxconcur, c, m, peak, sync, rep>>

\* The sleep, or the busy loop of work_burn_fn(), is over.
Wake(w) ==
  /\ pc[w] = "asleep" \/ (~Sleeps /\ pc[w] = "in")
  /\ pc' = [pc EXCEPT ![w] = "awake"]
  /\ UNCHANGED <<mode, phase, next, my_wq, pool, concur, maxconcur, c, m, peak, sync, rep>>

\* Mutant: the decrement is forgotten.
DecMissing(w) ==
  /\ pc[w] = "awake"
  /\ c' = [c EXCEPT ![w] = 0] /\ m' = [m EXCEPT ![w] = 0]
  /\ pc' = [pc EXCEPT ![w] = "dec"]
  /\ finished' = finished \cup {job[w]}
  /\ UNCHANGED <<mode, phase, next, my_wq, pool, concur, maxconcur, peak, remaining, all_done, rep>>

\* atomic_dec(&concur); p->t_end = ktime_get_ns();
Dec(w) ==
  /\ pc[w] = "awake"
  /\ concur' = concur - 1
  /\ c' = [c EXCEPT ![w] = 0] /\ m' = [m EXCEPT ![w] = 0]
  /\ pc' = [pc EXCEPT ![w] = "dec"]
  /\ finished' = finished \cup {job[w]}
  /\ UNCHANGED <<mode, phase, next, my_wq, pool, maxconcur, peak, remaining, all_done, rep>>

\* if (atomic_dec_and_test(&remaining)) complete(&all_done);
DecAndTest(w) ==
  /\ pc[w] = "dec"
  /\ remaining' = remaining - 1
  /\ all_done' = (all_done \/ remaining = 1)
  /\ pc' = [pc EXCEPT ![w] = "tail"]
  /\ UNCHANGED <<mode, phase, next, my_wq, pool, concur, maxconcur, c, m, peak, finished, rep>>

\* The function returns to the worker, which retires the item and activates
\* the first inactive one.
Return(w) ==
  /\ pc[w] = "tail"
  /\ pc' = [pc EXCEPT ![w] = "out"]
  /\ job' = [job EXCEPT ![w] = NoWork]
  /\ \/ /\ inactive # <<>>
        /\ worklist' = Append(worklist, Head(inactive))
        /\ inactive' = Tail(inactive)
        /\ UNCHANGED nr_active
     \/ /\ inactive = <<>>
        /\ nr_active' = nr_active - 1
        /\ UNCHANGED <<worklist, inactive>>
  /\ UNCHANGED <<mode, phase, next, my_wq, concur, maxconcur, c, m, peak, sync, rep>>

-----------------------------------------------------------------------------
(* rmmod.                                                                  *)

Quiet == worklist = <<>> /\ inactive = <<>> /\ \A w \in Workers : pc[w] = "out"

\* Mutant: the private queue is not flushed either.
ExitNoFlush ==
  /\ phase = "loaded"
  /\ phase' = "unloaded"
  /\ UNCHANGED <<mode, next, my_wq, pool, meter, sync, rep>>

\* wq_probe_exit(): flush_workqueue() and destroy_workqueue() wait for the
\* items of my_wq; items on system_wq are not waited for.
Exit ==
  /\ phase = "loaded"
  /\ my_wq => Quiet
  /\ phase' = "unloaded"
  /\ UNCHANGED <<mode, next, my_wq, pool, meter, sync, rep>>

Unloaded == phase = "unloaded" /\ UNCHANGED vars

-----------------------------------------------------------------------------
Insmod == Setup \/ QueueWork \/ BeginWait \/ WaitDone
Execute(w) ==
  \/ IncReturn(w) \/ ReadMax(w) \/ CmpXchg(w) \/ Sleep(w) \/ Dec(w)
  \/ DecAndTest(w) \/ Return(w)

Next ==
  \/ Insmod \/ WaitTimeout \/ Exit \/ Unloaded
  \/ \E w \in Workers : StartWork(w) \/ Execute(w) \/ Wake(w)

\* insmod goes on, the pool hands out items and runs them; nothing is assumed
\* of how long an item sleeps or burns, nor of the user calling rmmod.
Fairness ==
  /\ WF_vars(Insmod)
  /\ WF_vars(\E w \in Workers : StartWork(w))
  /\ \A w \in Workers : WF_vars(Execute(w))

Spec == Init /\ [][Next]_vars /\ Fairness

-----------------------------------------------------------------------------
TypeOK ==
  /\ mode \in Modes
  /\ phase \in {"init", "queue", "wait", "loaded", "unloaded"}
  /\ next \in 1..(NWork + 1) /\ my_wq \in BOOLEAN
  /\ worklist \in Seq(Works) /\ inactive \in Seq(Works) /\ nr_active \in 0..NWork
  /\ job \in [Workers -> Works \cup {NoWork}]
  /\ concur \in Nat /\ maxconcur \in Nat /\ peak \in Nat /\ remaining \in Nat
  /\ pc \in [Workers -> Locations]
  /\ all_done \in BOOLEAN /\ finished \subseteq Works

\* When the wait ended by completion, report() describes every item, and the
\* "largest number of active items" it prints is the true peak: 1 when items
\* burn CPU or the queue is ordered, at most 2 with max_active = 2.
ReportExact ==
  rep # NoReport /\ ~rep.timeout =>
    /\ rep.finished = Works
    /\ rep.max = peak
    /\ mode \in {1, 2} => rep.max = 1
    /\ mode = 3 => rep.max <= 2

\* Once rmmod has freed the module, no kworker is inside one of its work
\* functions and none of its items is queued.
UnloadSafe == phase = "unloaded" => Quiet

\* rmmod waits for the items of the queue the module allocated, even when
\* insmod's own wait had timed out.
PrivateQueueFlushed == phase = "unloaded" /\ my_wq => Quiet

\* Both together: what run_wq_mode() reports and what rmmod may free rest on
\* the same accounting of items, whether or not the wait had timed out.
ItemsInv == TypeOK /\ ReportExact /\ PrivateQueueFlushed

\* The completion the insmod thread waits for arrives if every msleep() and
\* every busy loop ends, also after a timed-out wait.
SleepsEnd == \A w \in Workers : WF_vars(Wake(w))
CompletionArrives == SleepsEnd => ((phase = "wait") ~> all_done)

\* Q13: an item that blocks does not hold up the others; in mode 0 every
\* queued item starts even if no sleeping item ever wakes up (Spec does
\* not assume that they do).
BlockedWorkDoesNotBlockOthers ==
  \A i \in Works : (mode = 0 /\ next > i) ~> (\E w \in Workers : job[w] = i) \/ i \in finished

\* The work functions use the shared counters as the meter prescribes.
MeterPc == [w \in Workers |->
              IF pc[w] \in {"read", "cas"} THEN pc[w]
              ELSE IF pc[w] \in {"in", "asleep", "awake"} THEN "in" ELSE "out"]
Meter == INSTANCE PeakMeter
           WITH Threads <- Workers, pc <- MeterPc, cur <- concur, maxcur <- maxconcur
ImplementsMeter == Meter!Spec

-----------------------------------------------------------------------------
(* The inductive invariant behind ItemsInv, to which the meter's own       *)
(* invariant is added.                                                     *)
Busy == {w \in Workers : pc[w] # "out"}
Queued == Range(worklist) \cup Range(inactive)

\* Every item is not yet queued, queued once, executed by one worker or over,
\* and a worker leaves its mark in finished before it signals the item.
Places ==
  /\ IsInjective(worklist) /\ IsInjective(inactive)
  /\ Range(worklist) \cap Range(inactive) = {} /\ Queued \cap finished = {}
  /\ \A w \in Workers : /\ (job[w] = NoWork) <=> (pc[w] = "out")
                        /\ job[w] \notin Queued
                        /\ job[w] \in finished <=> pc[w] \in {"dec", "tail"}
  /\ \A v, w \in Workers : v # w /\ job[v] # NoWork => job[v] # job[w]
  /\ \A i \in Works : i >= next => i \notin Queued \cup finished /\ \A w \in Workers : job[w] # i
  /\ phase = "init" => next = 1

\* nr_active counts the items handed to the pool and max_active bounds it; a
\* bound pool whose items never sleep executes one of them at a time.
Active ==
  /\ nr_active = Cardinality(Busy) + Cardinality(Range(worklist))
  /\ nr_active <= MaxActive /\ nr_active < next
  /\ mode = 1 => /\ \A w \in Workers : pc[w] # "asleep"
                 /\ \A v, w \in Busy : v = w
Peaked ==
  /\ peak <= MaxActive /\ (mode = 1 => peak <= 1)
  /\ finished # {} \/ (\E w \in Workers : pc[w] \notin {"out", "start"}) => peak >= 1

\* remaining counts the items whose atomic_dec_and_test() is still to come.
Signalled == finished \ {job[w] : w \in {v \in Workers : pc[v] = "dec"}}
Outstanding ==
  /\ phase = "queue" \/ next > 1 => remaining = NWork - Cardinality(Signalled)
  /\ all_done => finished = Works

\* A report that no timeout cut short is about items that are all over.
Reported ==
  rep # NoReport /\ ~rep.timeout => finished = Works /\ rep.finished = Works /\ rep.max = peak

WqInv ==
  TypeOK /\ Places /\ Active /\ Peaked /\ Outstanding /\ Reported /\ PrivateQueueFlushed
IInv == WqInv /\ Meter!IInv
=============================================================================
