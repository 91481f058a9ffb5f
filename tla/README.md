# Verification of the linux-interview experiments

The repository is a set of study notes on the Linux kernel together with the
experiments they rest on: kernel modules and user-space programs for a Radxa
ROCK 5B (RK3588, eight CPUs, Linux 6.1). This directory models the experiments
that have a concurrent or stateful core, checks them with TLC and proves the
most important results with TLAPS.

## 1. Inventory

Most experiments are loadable modules, the others user-space programs. The entry point of a module runs in the `insmod`
process, starts kernel threads, work items, tasklets, timers or RCU callbacks,
usually waits for them, and prints a report; its exit function runs in `rmmod`
and must leave nothing behind that still uses the module's text or data. The
modules share no state with each other. What they have in common is the way
they can go wrong: statistics kept without a lock, waits that depend on every
thread having started, results read after a sleep, and unload racing whatever
is still running.

| component | state | operations | hard part | what makes it correct |
|---|---|---|---|---|
| `bump()` in `softirq_par.c`, `wq_probe.c` | counter, maximum | increment, read / compare-and-exchange loop, decrement | stale maximum carried into the exchange | the maximum is the true peak; it never drops; the loop ends |
| `softirq_par.c` | tasklets, per-CPU vectors, statistics | IPI handlers, callbacks, report, `tasklet_kill()` | one tasklet scheduled from everywhere, also while it runs | a tasklet never runs twice at once, no schedule is lost, unload is safe |
| `wq_probe.c` | work items, worker pool, completion | queue, run, sleep, complete, report, flush | completion with a timeout; sleeping workers; `max_active` | report covers every item; blocked items do not block others; unload is safe |
| `rcu_demo.c` mode 0 | `g_ptr`, objects, callbacks | read, copy and publish, `call_rcu()`, cleanup | readers against two ways of freeing | no use after free, nothing leaked, insmod and rmmod return |
| `lockup_lab.c`, lockup detectors | per-CPU timer, ticks, touch stamp, thread | timer, thread, commands, unload | time, restarts, changes of `thresh`, a CPU that does not respond | a report exactly for real lockups, within the limits |
| `lockup_lab.c`, khungtaskd | table of switch counts | walk, commands | walk racing the scheduler, pid reuse, full table | hung tasks are reported, others are not |
| `dl_lab.c` | two mutexes, signals, a work item | lock, deadlock, kill, give up, unload | deadlocks that must dissolve | every deadlock ends, owners unlock, rmmod returns |
| `rwsem_lab.c`, `arm64_lab.c` | one rw_semaphore, three threads | take, wait, release, stop | order on the wait list, stop order | the promised wait list, a clean unload |
| `lock_bench.c` modes 1, 2 | lock, shared counter, per-thread results | rounds of benchmark threads | results read while threads finish | rounds do not overlap, sums are exact |
| `rcu_demo.c` modes 1 to 3 | a callback, two objects of a cache, a stalling reader | timing, type-safe reuse, stall | grace periods of other readers, a thread that must be waited for | insmod returns, nothing of a mode is left |
| `ctx_probe.c` | table of contexts, completions, flags | callbacks in irq_work, hrtimer, softirq, tasklet, work item; waits; unload | waits that time out, a timer that schedules a tasklet | one right line per context, nothing outstanding at unload |
| `irq_live.c` | per-CPU statistics, tickets | two kprobe handlers on every CPU | handlers on several CPUs, a limit of samples | numbered frames, bounded dispatches, exact spans |
| `crash_probe.c` | a pinned task, a walk | backtrace, dump, mm, sched, rwsem | the target, owner or waiter wakes, exits, is reaped, leaves between two reads | nothing freed is read of what stays as it was |
| twelve programs with error paths (`ResourcePaths`) | pages, references, locks, registrations, settings | acquire, use, give back | a failure half-way | all is given back once, but for named exceptions |
| `sync_probe.c`, `irq_probe.c` decoders; `armv8_dump.c` walk | none; the tables | decode a word, walk an address | order of masks, tables that change | what the architecture says |
| arithmetic of `sched_probe.c`, `sync_probe.c`, `mm_probe.c`, `nospec_mask.c` | none | weights, PELT, wraparound, free blocks, index mask | overflow and rounding | what it stands for |
| `wbtest.c` | buffers, request arrays, plane state, fence | scenario: build, commit, poll, save, switch off | missing properties, refused commits, late hardware | a saved picture is a captured one, a clean screen |
| `rkspy.c` | table of buffers | create, map, mmap, submit | no lock, no removal, names used again | a submit is decoded from its own objects |
| `barrier_sb.c`, `barrier_mp.c` | two locations, a handshake | stores, loads, barriers | weak memory | forbidden outcomes do not occur, the test ends |
| `wake_cpu.c`, `lb_case.c`, `sched_weight.c`, `vruntime_place.c` | children, pipes | fork, wake, sample, kill, wait | inherited pipe ends, failing fork | children counted once and reaped |
| `lse_bench.c`, `heat.c`, `membw.c` | threads, counters, barrier | create, work, stop, join, report | threads that are missing or late | counts are those of the work |
| `fault_types.c`, `concurrent_fault.c` | page tables of two processes, page cache | sweeps, fork, wait; threads on one mapping | parent and child, threads on one page, faults elsewhere in the process | faults as announced on each mapping, the rest accounted for |

The modules and programs share no state with each other, so every component is
checked on its own; what interacts are the threads, interrupts, callbacks,
processes and devices inside each, and (for `bump()`) a protocol that two
modules use in the same way.

## 2. Modules

| module | models | extends / uses |
|---|---|---|
| `PeakMeter` | `bump()`, one action per atomic operation | abstract specification of the next two |
| `SoftirqPar` | `softirq_par.c`, modes 0 to 2 | implements `PeakMeter` (`INSTANCE ... WITH`) |
| `WqProbe` | `wq_probe.c`, modes 0 to 3 | implements `PeakMeter` |
| `RcuDemo` | `rcu_demo.c`, mode 0 | |
| `LockupWatchdog` | `lockup_lab.c`, soft and hard lockup detectors | |
| `Khungtaskd` | `lockup_lab.c`, hung task detector | |
| `DlLab` | `dl_lab.c`, modes 1 to 4 | |
| `RwsemLab` | `rwsem_lab.c`, both modes; `arm64_lab.c` as mode 3 | |
| `LockBench` | `lock_bench.c`, modes 1 and 2 | |
| `CtxProbe` | `ctx_probe.c`, modes 0 to 3 | |
| `IrqLive` | `irq_live.c` | |
| `CrashProbe` | `crash_probe.c`, the commands bt, btf, mm, sched, rwsem | |
| `RcuModes` | `rcu_demo.c`, modes 1 to 3 | |
| `ResourcePaths` | error paths of `mm_convert.c`, `mm_probe.c`, `sync_probe.c`, `sched_probe.c`, `ksm_test.c`, `tp_lab.c`, `slub_lab.c`, `migrate_compact.c`, `pvtm_probe.c`, `exp00_whoami.c`, `exp01_regs.c`, `exp05_run.c` | |
| `InsnDecode` | `decode()`, `dump_func()` of `sync_probe.c`, `dump_vectors()` of `irq_probe.c` | |
| `PageWalk` | `walk()`, `decode_desc()` of `armv8_dump.c` | |
| `ProbeMath` | arithmetic of `sched_probe.c`, `sync_probe.c`, `mm_probe.c`, `nospec_mask.c` | |
| `WbTest` | `wbtest.c` | |
| `RkSpy` | `rkspy.c` | |
| `Litmus` | `barrier_sb.c`, `barrier_mp.c` | |
| `ForkLabs` | `wake_cpu.c`, `lb_case.c`, `sched_weight.c`, `vruntime_place.c` | |
| `ThreadLabs` | `lse_bench.c`, `heat.c`, `membw.c` | |
| `FaultLabs` | `fault_types.c`, `concurrent_fault.c` | |
| `LockingLabs` | one of the locking labs or khungtaskd is loaded | composes `DlLab`, `RwsemLab`, `LockBench`, `Khungtaskd` (`INSTANCE ... WITH`) |
| `Probes` | one of the kernel-module probes is loaded | composes `CtxProbe`, `IrqLive`, `CrashProbe`, `RcuModes` |
| `Programs` | one of the user-space programs runs | composes `WbTest`, `RkSpy`, `Litmus`, `ForkLabs`, `ThreadLabs`, `FaultLabs` |
| `Sums` | adding up an array, as the benchmarks' `main()` do | used by `LockBench`, `ThreadLabs`, `WbTest` |
| `PeakMeterProofs`, `SoftirqParProofs`, `WqProbeProofs`, `LockupWatchdogProofs`, `LockingLabsProofs`, `ProbesProofs`, `ProgramsProofs` | theorems | extend the module they are about, `ProbesProofs` both `RcuDemo` and `Probes`; the second and third instantiate the first |
| `ProofLemmas` | facts on queues, smallest elements and sums | extended by proof modules |
| `MCProbes` | the probes and what is explored completely | extends `Probes`; adds `ResourcePaths`, `InsnDecode`, `PageWalk`, `ProbeMath` |
| other `MC...` | instances for TLC | extend the module they instantiate |

Variables carry the names of the C variables where they exist (`cur`, `maxcur`,
`g_ptr`, `nr_freed`, `thresh`, ...). A program counter (`pc`, `rpc`, `wpc`,
`thr`, `phase`, `ctl`) says where a thread is. Kernel services are modelled
from the way the experiments use them and marked external in the map: tasklet
bits, the worker pool, RCU grace periods, mutexes, rw_semaphores, signals,
`kthread_stop()`. Variables called history in their comment (`peak`, `owed`,
`seen`, `still`, `did`, `slept`, `since`, `armed`,
`offUntil`) record what happened for the
properties and influence no action. Definitions commented as "Mutant" are
plausible bugs; each property is shown to fail when one of them replaces the
definition that follows it.

Details worth knowing:

- **PeakMeter.** Reading `maxcur` and exchanging it are separate steps, so any
  number of other threads can move it in between.
- **SoftirqPar.** `tasklet_schedule()`, taking the vector, `tasklet_trylock()`
  and clearing SCHED are separate steps; an IPI may arrive in a callback.
  `timely` says whether IPIs are taken before the sleep after them ends;
  `LateModes` are the modes in which they need not be. The report reads its
  counters one by one (`PrintCalls`, `PrintRuns`, `PrintMax`, `PrintVerdict`),
  with IPIs and callbacks in between. Mode 2
  sends its late IPI to CPU `Other` only if it is online:
  `smp_call_function_single()` refuses another one.
- **WqProbe.** An item beyond `max_active` is parked and activated when one
  retires; a bound pool starts an item only while none of its workers is
  running and awake; the wait may give up at any time before the completion.
- **RcuDemo.** A callback remembers the readers that were inside their critical
  section when it was registered, and runs when all of them have left. The code
  has one reader; the model has any finite set.
- **LockupWatchdog.** Time is whole seconds, like `now_sec()`. Interrupts and
  the RT thread of a free CPU take no time; a hard-locked CPU takes no
  interrupts, a soft-locked one runs no thread. `StartLockup` is the `soft` and
  `hard` commands. `SoftClears` is stated between commands: while `wd_start()`
  or `wd_stop()` is under way a CPU may have its flag and no timer. `HardCaught`
  excuses a watching CPU that had its own interrupts off since the lockup began
  (`offUntil`), and no other.
- **Khungtaskd.** A task sets its state and is switched out in two steps, as
  `set_current_state(); schedule()` does. Time is the sequence of walks.
- **DlLab.** A signal for a thread that has not called `allow_signal()` is
  dropped; a thread stopped before it first ran never enters its function.
  Thread creation succeeds; `lab_exit()` would pass an error pointer on.
- **RwsemLab.** A failed `kthread_run()` leaves an error pointer that
  `lab_init()` follows to print a pid: insmod ends in phase `oops`, the threads
  that were created go on. Mode 3 is `arm64_lab.c`: its reader stores a frame
  address in each of three nested functions before it waits.
- **LockBench.** `bl_shared++` is a read and a write. The object the `rcu`
  rounds read is published before the first round and freed after the last
  one, inside insmod, and is not part of the state.
- **CtxProbe.** Each mode is a script of posts and waits that insmod works off;
  a callback takes a slot of the table, fills it and completes in separate
  steps. A wait may time out `MaxLate` times; what is late then runs on beside
  the rest of the script and beside rmmod.
- **IrqLive.** Testing, taking and printing a ticket are separate steps, those
  under `prlock` included, so that CPUs interleave between them.
- **CrashProbe.** The target sleeps, runs, dies and is reaped at any time. The
  stack holds anything: the next frame pointer is any address. For `rwsem` the
  same task is the owner; the load of `sem->owner`, the use of `owner->pid`, the
  load of `w->task`, the use of `w->task->pid` and that of `w->list.next` are
  steps of their own, and the link of a waiter that has left leads anywhere.
  `ps`, `rd`, `mmowner`, `runq` and `sym` are not modelled.
- **RcuModes.** A grace period waits for the readers inside when it began; the
  slab page leaves only in a later one, as SLAB_TYPESAFE_BY_RCU has it. The
  stalling thread's `atomic_inc(&done)` and its return are two steps.
- **ResourcePaths.** A program is a function from labels to steps that acquire,
  give back, use or branch; every call that can fail does on some path, also
  where the code does not look. Using what such a call did not return ends the
  program.
- **InsnDecode.** Words are built by an assembler from fields, decoded by the
  masks of the code and compared; a 32-bit word is a pair of halves. The
  listing of a function is checked over all placements of a call, a return and
  an atomic instruction. What is expected is the architecture's reading of a
  word; where `decode()` errs, `Misread` says so.
- **PageWalk.** Four levels of four entries. Each load of an entry is a step of
  its own; the tables of user addresses and of `walk_va` may change between two.
  The outcome is compared with what the MMU makes of the same tables.
- **ProbeMath.** The code's 32- and 64-bit words are `W` bits wide, all values
  of which are tried; the loops of `show_pelt()` run at full size.
- **WbTest.** Each `aadd()` is a step; the kernel takes the arrays apart by
  `count_props`. `asked` keeps the calls whose property exists, which is what
  the kernel should read. Every ioctl may fail, the fence may come at any time.
- **RkSpy.** The test of `nbuf`, the store and the increment are separate steps
  of each thread; the increment may store a stale value. Handles are the
  smallest free ones, object addresses and offsets any free ones, NPU ranges any
  that overlap no live one. A lookup by NPU address tests ranges, and what it
  finds is read at the offset in that entry's mapping.
- **Litmus.** Within a thread an access may overtake an earlier one of another
  location unless the mode's barrier is between them. Either
  `pthread_create()` may fail; the join of a handle nobody wrote is undefined, and
  modelled as one that returns.
- **ForkLabs.** End of file on a pipe comes when the last copy of its write end
  is closed. A failed `fork()` stores -1, which `kill()` then takes.
- **ThreadLabs.** A worker tests the flag, does one iteration and counts it in
  separate steps. A failed `pthread_create()` leaves an undefined thread to
  join (`pc = "wild"`). `Room` is the length of a program's arrays: `lse_bench`
  refuses more threads, the other two are not started with more.
- **FaultLabs.** Page tables of parent and child, a shared map count, the page
  cache; one step per touched page. `getrusage()` counts the faults of the
  process: those of `mark()` itself, which stores into a page that `fork()` shared
  (`data`, `own`), and those elsewhere (`StrayFault`, at most `MaxOther` per report) are
  kept apart from those on the mapping. A mapping or file that could not be made
  ends the program. In `concurrent_fault` entering a fault and
  installing the page are two steps. Pages have 4 KB and are not swapped; the RSS,
  which the kernel only approximates, is left out.
- **LockingLabs, Probes, MCProbes, Programs.** The parts share nothing, so one
  runs (`running`) while the others stay in their initial state; each keeps its
  own actions and fairness.

## 3. Runs

`tlc -workers 2 -config X.cfg MCY` for each; the longest, `locking_labs`,
takes about three and a half minutes.

| run | instance | shows |
|---|---|---|
| `peak_meter` | 3 threads | `IInv`, exact and monotone maximum, termination of the loop |
| `softirq_par` | 3 CPUs, modes 0-2, late IPIs in modes 1 and 2 | serial tasklets, no lost schedule, sound report, safe unload, refinement |
| `wq_probe` | 3 items, 3 workers, modes 0-3 | completion arrives, exact report, blocked items hold up no others, flush of a private queue, refinement |
| `rcu_demo` | 2 readers, 2 rounds | no use after free, monotone reads, clean unload, both commands return |
| `lockup` | 2 CPUs, one 13 s lockup and one raise of `thresh` at any time | detection limits, no false report, unload |
| `locking_labs` | `dl_lab` modes 1-4, `rwsem_lab` modes 1-2, `arm64_lab`, `lock_bench` 5 rounds of up to 2 threads, late and failing threads; khungtaskd with 2 tasks and 2 slots or 1 | deadlocks dissolve, unlock by owner, wait list, rounds apart, no lost update, exact sums, clean unload; two walks per report, hung tasks reported while there is a slot |
| `probes` | `ctx_probe` modes 0-3 with one late wait; `irq_live` 2 CPUs with 2 interrupts each; `crash_probe` stack of 5 words, 3 frames, 2 waiters; `rcu_demo` modes 1-3; all paths of 12 programs; about 1000 instructions and listings; one change of the page tables; words of 5 bits | exact tables and frames, no freed memory touched but as stated, resources given back, decoders and walk agree with the architecture, arithmetic with its definition, commands end |
| `programs` | `wbtest` 2 scenarios and one missing property; `rkspy` 2 threads, 3 objects, 2 names, 2 entries; litmus tests 2 rounds of 2; 3 children; 2 threads; 2 pages and 3 threads | requests and pictures exact, screen clean, submits decoded from their objects, forbidden outcomes absent, counts and faults exact, programs end |

Type invariants are checked together with a safety invariant (`SerialInv`,
`ItemsInv`, `UnloadInv`, `LabsInv`) or inside `IInv`. The properties of the three
composed runs are conjunctions of the properties stated, each with its own
comment, in the modules of their parts: `ProbesMemorySafe`, for example, is
`UnloadSafe` of `CtxProbe`, `ModesQuiet` of `RcuModes` and `TaskPinned`,
`WalkInBounds` and `StableTargetSafe` of `CrashProbe`.

Runs that are expected to find a violation show where the code does something
else than its own text says (`findings` in `PROJECT.json` quotes both):

| run | disagreement |
|---|---|
| `wq_unload` | modes 0 and 1: unload while items are on `system_wq` after a timed-out wait |
| `rcu_spawn_fails` | a failed `kthread_run()` makes insmod wait for ever |
| `lockup_restart` | counters kept over a restart report a healthy neighbour |
| `dl_early_kill` | rmmod stops the watchdog before it first ran, so that nobody sends a SIGKILL; rmmod never returns |

The properties of the passing runs are stated for the conditions under which
the code keeps them. Outside of these the models show more disagreements, to be
had by giving the constants other values:

- `SoftTruthful` of `LockupWatchdog` fails with `InitThresh = 30`,
  `ThreshValues = {5}`: the running timers keep their old expiry and the next
  tick finds an idle CPU past the new limit (`lockup_lab.c:428`).
- `HardTruthful` fails there too: a CPU whose timer still runs with the old,
  longer period has not ticked when a neighbour with the new one compares.
- `SoftTruthful` also fails with `MayFailThread = TRUE`: a CPU whose thread could not be
  created still gets a timer (`lockup_lab.c:193`, `202`).
- `HardTruthful` is checked with one lockup. The moments it speaks of are those
  of the CPU's latest lockup, which with two in a row need not be the one that
  is reported.
- `SoftCaught` and `HardCaught` hold while `thresh` is only raised: after it was
  lowered, a lockup already under way has outlasted the new limit before the
  timer, armed with the old period, ticks again.
- `ReportTruthful` of `Khungtaskd` fails with `MayReuse = TRUE`: a new task
  with the pid and the switch count of a dead one is reported at its first walk
  (`lockup_lab.c:268`).
- `HungReported` of `Khungtaskd` has the exception of a full table: slots are
  never freed (`lockup_lab.c:273`), although the comment at line 308 says that
  a hung task is reported at most one timeout late.
- `ReportTruthful`'s second half is stated for a task that is switched out. One
  caught between setting its state and `schedule()` may have run since the
  previous walk.
- `SwitchesExact` of `LockBench` holds for runs in which every thread was
  created; otherwise the slot of the missing one adds an earlier round's count
  (`lock_bench.c:366`).
- `TypesafeRead` of `RcuModes`, the claim of `rcu_demo.c:278` that a freed
  object "certainly" stays readable, fails: outside `rcu_read_lock()` a grace
  period may end and the page leave. The stall timeout that line 14 says is
  lowered first is never touched.
- `UnloadSafe` of `CtxProbe` excepts a module whose wait had timed out:
  `ctx_probe_exit()` kills the tasklets before it cancels the timer that
  schedules one (`ctx_probe.c:509`, `514`). `TableExact` is about waits in time;
  after a late one `run_mode1()` may read `fp[nfp - 1]` with `nfp = 0`.
- `DispatchesBounded` of `IrqLive` lets `evt_got` exceed `samples`, which rmmod
  prints as the total, and two lines carry the same number (`irq_live.c:224`,
  `228`).
- `ModesQuiet` of `RcuModes` lets the stalling thread stand between
  `atomic_inc(&done)` and its return when insmod and even rmmod have returned
  (`rcu_demo.c:327-328`): its last instructions may lie in freed text. The
  threads of mode 0 end the same way (`ReaderDone`, `WriterDone` of `RcuDemo`).
- `StableTargetSafe` of `CrashProbe` is about a task and a list that stay as the
  command found them: stack, mm, owner, waiters and the waiters' tasks are read
  without a reference or a lock. It says nothing of the last reader of a
  semaphore, which may have been reaped before the command began
  (`crash_probe.c:262-265`). `CommandEnds` excepts a walk that has read a waiter
  which had left: `list_for_each_entry()` may never meet the head again.
- `DecodeExact` of `InsnDecode` excepts what `Misread` names, and demands that
  each of these is shown wrongly: LDXR and LDAXR as unknown (the masks at
  `sync_probe.c:147` want other bits than the comment at line 146 and the
  instructions have, against the `ldxr` that line 288 announces), LDR (immediate)
  as "STR (imm)" (line 171), LDAPR as SWPA, and LDADDA and its kin without a
  result as STADDA (line 125).
- `WalkExact` of `PageWalk` is unconditional for fixed kernel addresses. For a
  user address, or a kernel address given as `walk_va`, it excepts walks during
  which the tables changed, and entries that are nonzero and not present:
  `armv8_dump.c:312` prints a physical address for one that line 227 calls
  INVALID.
- `PeltExact`, `SchedMathExact` of `ProbeMath`: `decay_load(1024, 32)` is 511,
  not the 1024/2 of `sched_probe.c:177`.
- `PathsClean` of `ResourcePaths` lists what stays behind: an object of
  `probe_slub()` (`mm_probe.c:332`), KSM's settings after a failure, a regulator
  without its registers, `tp_lab`'s probe without its thread. And it lists the
  calls whose NULL or MAP_FAILED is used unchecked, which ends the program:
  `slub_lab.c:81`, `88`, `92`, `98`, `105` (the cache then stays behind),
  `ksm_test.c:81`, `83`, `migrate_compact.c:77`, `78`, `exp05_run.c:22`, `57`,
  `58`.
- `SavedIsCaptured` of `WbTest` is about scenarios of at least one frame: with
  `FRAMES=0` the fill pattern is saved as a success. `CleanScreen` excepts a
  refused switch-off commit (`wbtest.c:484`), whose result is not acted upon.
- `SpyTableExact`, `SpyDecodesLive` of `RkSpy` are about MEM_CREATE calls that
  do not overlap: `nbuf` has no lock (`rkspy.c:279`). MEM_DESTROY is not
  followed, and MEM_MAP renews the offset of a stale entry with the same handle
  and not its object address, range and size (line 287): a submit is decoded
  rightly unless a stale entry claims the address under another handle or with a
  range that begins elsewhere.
- `ForkLabsClean` excepts a failed `fork()`, whose -1 makes `kill()` signal
  every process (`wake_cpu.c:95`); `ProgramsEnd` excepts the litmus tests and
  benchmarks after a failed `pthread_create()`: then the other thread spins for ever, or
  waits at the barrier of `membw.c`.
- `LitmusOutcomes` lets `barrier_sb.c` count the forbidden outcome after a failed
  `pthread_create()`: it then reads slots that nobody wrote.
- `FaultsAsAnnounced` of `FaultLabs`: for the child's read `fault_types.c:132`
  announces 0 faults, and `mark()` makes it 1 by storing into a page still shared
  with the parent, as `ch04_physical_and_virtual_memory.md:2544` and `2597`
  record. `ExtraFaults`: the surplus `concurrent_fault.c` prints includes faults
  elsewhere in the process and faults that found the page mapped; it means
  nothing when no thread could be created.
- `ReportSound` of `SoftirqPar` has its last conjunct for IPIs in time: a late one
  may let more callbacks be printed than calls.

**Bounds.** Three threads are needed for a failed exchange that must be retried
while a third one moves the maximum; three CPUs for a tasklet that runs on one,
is queued on a second and scheduled from a third; three items for one running,
one sleeping and one parked at `max_active = 2`. Two readers make grace periods
wait for different readers, two rounds make two callbacks wait at once. A
lockup of 13 seconds exceeds `2 * thresh` = 10 by more than one sample period
of 2 seconds and spans two rounds of three ticks; `MaxNow` leaves time for the
report and its end. `HtMax`, 512 in the code, is 1 or 2 with as many or more
tasks. `MaxSwitch`, `MaxOn`, `MaxStarts`, `MaxLockups`, `MaxOps` and
`MaxSwitches` cut unbounded counters; each leaves room for the repetition the
property is about (a second walk, a restart, an operation per thread and
round). The rounds of `lock_bench` are one uncontended, two on a mutex in a
row (a stale slot needs a predecessor), one of readers and one of atomic
operations; `rwsem_w` rounds take the same steps as `mutex` rounds, `rcu`
rounds those of readers that do not sleep.

In the composed runs: one late wait is enough for a callback to meet a script or
an exit that did not expect it; two CPUs race for one sample; a stack of five
words holds two frame records and a gap, three frames reach the limit
(`MaxFrames`, 32 in the code) and exceed it; `Rounds` (10 in the code) only
repeats. Two scenarios of `wbtest` let the second meet what the first left
behind. Three objects over two names and two entries make `rkspy` meet a full
table, a stale entry and a reused name; of the NPU ranges (`MCSpyAreas`) one
overlaps two others, so that a stale entry may claim part of a live buffer. Two slots and rounds let litmus
iterations overlap if the handshake were wrong. Three children show end of file
passing down a chain. Two pages tell "every page" from "the first page"; with
three threads one page can be lost twice; one fault elsewhere per report is
enough to tell it from one on the mapping. `W = 5` gives every case of a
wraparound, a sign bit and a shift at each width of a factor.

**Fairness.** Weak fairness for every kernel thread, worker, softirq, grace
period and callback: the kernel schedules what is runnable, `msleep()` ends,
and a CPU that is not locked up takes interrupts. `LockBench` adds strong
fairness of the end of a thread's loop, since its time limit is absolute. No
fairness for the user's commands: nobody has to call insmod or rmmod. `WqProbe`
assumes nothing of how long an item sleeps; `CompletionArrives` has that as its
premise (`SleepsEnd`), `BlockedWorkDoesNotBlockOthers` does without.
`CHECK_DEADLOCK FALSE` stands only where the system may stop: tasks at their
switch bound, threads of `dl_lab` that deadlock because they were late, a
module that is unloaded or a program that has ended in the composed runs, and
the runs whose violation is a thread waiting for ever. In the composed runs the
first step of a part, somebody's decision to start it, is not fair, so that the
fair actions of the parts that were not started are disabled. `WbTest`'s program
is fair and its hardware is not: the fence may never come. Commands of
`CrashProbe` are fair, its target is not. `RcuModes` assumes that other readers
leave their critical sections.

## 4. Proofs

`tlapm M.tla` for each proof module. Every theorem holds for all values of the
constants that satisfy the assumptions named below.

**Concurrency meter** (`PeakMeterProofs`), every finite set of threads.
`MeterInvariant`: `Spec => []IInv`. `PeakExact` is not inductive: a thread may be
about to store a value. The strengthening `Owed` says that a peak above `maxcur`
is carried by some thread inside the loop and that a thread about to exchange
carries a value above the one it read; `CurCountsInside` ties `cur` to the number
of threads inside. `MeterExact`: `[]PeakExact`. `MeterMonotone`: `MaxNeverDrops`.

**`softirq_par.c`** (`SoftirqParProofs`), every finite set of CPUs, every mode.

- `SoftirqMeter`: `Spec => ImplementsMeter`. Every step of the module is a step of
  the meter or leaves its variables alone; `MeterInvariant` then carries over.
- `SoftirqInvariant`: `[]SoftirqInv`. `RunHeld` gives each RUN bit one CPU;
  `Queues` puts a tasklet in at most one place of one queue and ties it to its
  SCHED bit, which `tasklet_kill()` may own instead; `Counted` lets every call of
  `tasklet_schedule()` pay for at most one callback, over, running or queued;
  `KillOrder` keeps the tasklets that `tasklet_kill()` is done with out of the
  queues; `Printed` says which lines are out.
- `SoftirqSerial`: `[]TaskletSerial` and `SoftirqReportSound`: `[]ReportSound`,
  with IPIs as late as they like; what needs them in time is conditioned on
  `timely` in the property (calls that cover the callbacks printed).
- `SoftirqUnload`: `[]SerialInv`, whose `UnloadSafe` is conditioned on `timely` too:
  nothing but the `msleep()` of the code keeps an IPI handler from calling
  `tasklet_schedule()` after `tasklet_kill()`.

**`wq_probe.c`** (`WqProbeProofs`), every number of items, every finite set of
kworkers, every mode. `WqMeter`: `Spec => ImplementsMeter`. `WqInvariant`:
`[]WqInv`: `Places` (an item is queued once, executed by one worker or over),
`Active` (`nr_active` is what the pool holds, within `max_active`; a bound pool of
items that burn CPU executes one at a time), `Outstanding` (`remaining` counts
the items whose `atomic_dec_and_test()` is to come), `Peaked`, `Reported`.
`WqItems`: `[]ItemsInv`.

**`rcu_demo.c`, mode 0** (`ProbesProofs`), every finite non-empty set of readers, every
number of rounds, with or without failing thread creation. `RcuInvariant`:
`[]IInv`. `NoUseAfterFree` alone is not inductive. `Threads` counts the threads
that have left, so that insmod returns only after the writer has; `Objects` keeps
the published object, the retired ones and the one being filled alive and
distinct; `Protected` says that what a reader holds is published, about to be
retired, or waits for this reader. `RcuSafe`: `[]NoUseAfterFree`;
`RcuUnloadClean`: `[]CleanUnload`; `RcuReadsForward`: `ReadsMoveForward`.

**`lockup_lab.c`, detectors** (`LockupWatchdogProofs`), every finite set of CPUs,
any number of lockups and restarts.

- `LockupUnload`: `[]UnloadInv`, no watchdog timer or thread after rmmod, thread
  creation may fail. (The threads of `trigger()` are not waited for.) `Stages` says how far
  `wd_start()`, `wd_stop()` and `ll_exit()` have come through the CPUs.
- `LockupSoftFollows`: `[]SoftFollows`, and `LockupSoftTruthful`: `SoftTruthful`,
  given `~MayFailThread` and `ThreshOnlyRaised`. Without the two hypotheses the
  code does not keep the properties (section 3). `SoftInv` says per CPU that a
  tick is at most a period away and missed only while interrupts were off, that
  the thread last ran a period before it or is about to run (`Armed`), and that a
  thread that sleeps has no kick to answer (`Kicks`).
- `LockupHardCaught`: `[]HardCaught`, under the same hypotheses. `next_cpu_of()`
  is injective (lemma `OneWatcher`), so only one CPU changes the remembered count
  of another; `HardWatch` bounds the time of its next comparison (`CheckAt`)
  before and after it has remembered the count of the locked-up CPU.

**The other three proof modules** are about composed specifications. A step of
the whole is a step of one part and leaves the variables of the others alone, or
it is a step of no part (lemmas `PartSteps` and `ProbesParts`); so the inductive
invariant of each part, which stands at the end of the part's module, is
preserved by every step of the whole, and the theorems conjoin them.

**`rcu_demo.c`, modes 1 to 3, `crash_probe.c`, `ctx_probe.c`, `irq_live.c`**
(`ProbesProofs`). `ProbesSafe`: `ProbesSpec => []ProbesMemorySafe`;
`ProbesReports`: `ProbesSpec => []ProbesReportExact`. The run checks the same
properties of `MCProbes`, whose `Spec` is `ProbesSpec` with four parts added that
share no variable with it.

- `ModesInv` of `RcuModes`: `OnTheWay` says how far the script is while a callback,
  the stalling reader or an object of the cache is on its way, so that nothing
  can be left when the script has ended.
- `CrashInv` of `CrashProbe`: `Referenced` counts the command's reference,
  `Untouched` says that without a move of the task, or of the list, everything a
  command has taken hold of there is as it was.
- `IrqInv` of `IrqLive`: `Locked` gives the frame being numbered to the one CPU
  with `prlock`; `Tickets` that every ticket drawn is in a line, or with one CPU
  about to print it, or beyond the limit, and that a CPU past the unlocked test
  draws one more at most; `Spans` ties the extremes to the stack pointers seen.
- `CtxInv` of `CtxProbe`: `Drained` says what a call of the exit script has
  waited for does not come back, but for the tasklets of late timers; `InOrder`
  that without a timed-out wait the contexts come one after the other. For each
  position of each script it says which callback may be under way, at which slot
  (`Serving`), and which completion it owes (`Waits`); else nothing moves
  (`Quiet`).

**`dl_lab.c`, `rwsem_lab.c`, `arm64_lab.c`, `lock_bench.c`, khungtaskd**
(`LockingLabsProofs`). `LabsSafe`: `[]LabsInv`; `LabsUnloadsClean`:
`[]LabsUnloadClean`; `LbReportsExact`: `[]LbReportExact`; `KhReportsTruthful`:
`KhReportTruthful`.

- `DlInv` of `DlLab`: `Owners` gives a mutex to the thread whose place in the
  code says so, `Places` and `Stopped` follow threads and work item until
  `lab_exit()` is done with them.
- `RwInv` of `RwsemLab`: `Queueing` says who may be on the wait list given who
  holds the semaphore, `Spawned` and `Stopped` which threads exist.
- `LbInv` of `LockBench`: `Placed` puts threads and round in step; `Protected`
  compares `bl_shared` with the operations done, one read-modify-write being
  under way at most; `Accounted` makes each counter of a round the sum over its
  threads, with missing and unfinished threads counted as what they have stored.
  A step changes one summand. What a sum does then (lemmas `SumSteps`, `SumShift`
  of `ProofLemmas`) is proved by taking the least length for which it fails.
- `KhInv` of `Khungtaskd`: `Remembered` says that a slot holds the count its task
  had at the last walk, `Counted` that a count once passed does not come back.
  Pids are not given out again, as in the run.

**User-space programs** (`ProgramsProofs`).

- `LitmusBarriers`: `[]LitmusOutcomes`, any number of slots, rounds and
  iterations, whichever threads exist. `SbOrder` relates what a thread has loaded to the stores the other
  one had done; `Handshake` and `MpOrder` follow an iteration of message passing
  through the writer's and the reader's accesses; `Counted` says what has been
  counted so far.
- `SpyExactAlways`: `[]SpyExact`. `Distinct` keeps the names of live objects
  apart; `Flight`, `Sole` and `Table` follow one MEM_CREATE through test, store
  and increment; `Refreshed` says that MEM_MAP and mmap have brought every entry
  with a live object's handle up to date, stale ones included: an entry that
  becomes visible belongs to an object nobody has mapped yet.
- `LabCountsAlways`: `[]LabCountsExact`, any number of children, phases and pages,
  and of threads the arrays hold (`Room`), with failing calls. `ForkInv`: where the parent is in its loops
  decides which children it has counted. `ThrInv`: `Tallied` gives each program's
  counters in terms of the iterations done, `Barrier` keeps the threads of
  `membw.c` within one phase of each other. `FltInv`: `ParentSweeps` and
  `ChildSweeps` say for every sweep what the pages before and behind it look
  like and what has been counted for them; `DataPages` which `mark()` finds its
  own page shared with the other process; `FaultsCounted` that every fault of
  `concurrent_fault.c` mapped a page, gave its frame back, found the page there
  or is on its way.
- `WbScenario`: `[]WbScenarioExact`, any number of scenarios, any set of
  properties that may be missing. What the kernel decodes is about positions in
  three arrays. `Grouped` says of each property added that the object of its
  group is the one asked for, a group being the positions between two sums of
  `count_props`; `aadd()` adds one to the last sum or opens a group behind it
  (lemma `OneMore`), and since sums grow, a position is in one group only
  (`WbOneGroup`). `Requested` says what a request will have asked for when all
  is added: to switch off names every switch the scenario may have put on, and
  the last value asked for is what a switch gets (`WbAppliedReads`), so `Screen`
  finds everything off between scenarios. At most 26 properties are added, of the
  96 there is room for. `Captured` ties the frame counter to the buffer by way of
  the fence; `Left` counts the scenarios that left something, without the one
  that runs.

The assumptions are those named in the modules, all of which TLC evaluates in
the runs: `ThreadsFinite`, `SoftirqParAssumption`, `WqProbeAssumption`,
`RcuDemoAssumption`, `LockupAssumption`; `DlAssumption`, `RwAssumption`,
`LbAssumption`, `KhAssumption`, `FullAssumption` of `LockingLabs`;
`CtxAssumption`, `IrqAssumption`, `CpAssumption`, `RmAssumption` of `Probes`;
`LitAssumption`, `SpyAssumption`, `ForkAssumption`, `ThrAssumption`,
`FltAssumption` of `Programs`. They say that sets of threads, CPUs and workers
are finite, that bounds and sizes are natural numbers (positive where the code
has a constant that is), and that 0 names no pid, handle or address.

Only model-checked: every liveness property (fairness and ENABLED are out of the
prover's reach); `HardTruthful`, which is stated for one lockup;
`ProbesPathsClean`, whose program paths are finitely many and have no
parameters, so that TLC explores them completely; and `DecodersExact` and
`NumbersExact`, which use bitwise or recursive operators and are checked for
every input within their bounds. No module that is proved about uses a RECURSIVE
operator.

## 5. Not modelled, and what is left

Not modelled, because there is no state or protocol of their own to get wrong:
probes and demonstrations that read registers or kernel structures and print
them (`addr_probe.c`, `esr_far.c`, `arm64_frame.c`, `sec_probe.c`, the dumps
around the modelled parts of `sync_probe.c`, `irq_probe.c`, `sched_probe.c`,
`mm_probe.c` and `armv8_dump.c`); straight sequences of system calls whose
outcome is the kernel's (`cow.c`, `swap_shmem.c`, `life.c`, ...); timing loops
and ABI demonstrations; labs that provoke one deliberate fault; side-channel
demonstrations, which are not about functional correctness; shell and Python
tools; vendored DRM headers, data and notes. `PROJECT.json` lists each.

Left in the modelled files: `lock_bench.c` mode 0 and `dl_lab.c` mode 0, which
only print; concurrent writers of `lockup_lab.c`'s command file and the lifetime
of its trigger threads, which have no protocol at all.
