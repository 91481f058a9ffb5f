---------------------------- MODULE LockingLabs -----------------------------
(***************************************************************************)
(* dl_lab.ko, rwsem_lab.ko, arm64_lab.ko, lock_bench.ko and the khungtaskd *)
(* of lockup_lab.ko, one of which is loaded: they share nothing, so that   *)
(* exploring them together would only multiply states.  khungtaskd is there*)
(* twice, with two sizes of its table; pids are not given out again.       *)
(***************************************************************************)
EXTENDS Integers, Sequences, FiniteSets

CONSTANTS
  DlModes, DlTimeliness,                                      \* of DlLab
  RwModes, RwTimeliness, RwMayFailThread,                     \* of RwsemLab
  LbSchedule, LbMaxThreads, LbMaxOps, LbMaxSwitches, LbMayFailThread,    \* of LockBench
  KhPids, KhHtMax, KhMaxSwitch, KhMaxOn,                      \* of Khungtaskd
  FullPids, FullHtMax, FullMaxSwitch, FullMaxOn               \* of its second instance

VARIABLES
  running,     \* the part that was started, "none" before
  dlMode, dlPhase, dlTimely, dlPc, dlOwner, dlAllowed, dlPending, dlStop, dlKills, dlWork,
  dlStopping,
  rwMode, rwPhase, rwTimely, rwSpawning, rwStopping, rwPc, rwWriter, rwReaders, rwWaitList,
  rwReleaseNow, rwStop, rwFrames, rwAnswer,
  lbRound, lbPhase, lbNext, lbRunning, lbOps, lbTcsw, lbPc, lbN, lbTmp, lbNvcsw, lbHolders,
  lbBl_shared, lbBl_atomic, lbRep, lbDid, lbSlept, lbProtected, lbAtomics, lbFailed,
  khTask, khSwitches, khHtPid, khHtCount, khKhung, khTodo, khOns, khReported, khSeen,
  khStill,
  kfTask, kfSwitches, kfHtPid, kfHtCount, kfKhung, kfTodo, kfOns, kfReported, kfSeen,
  kfStill

Dl == INSTANCE DlLab WITH
  Modes <- DlModes, Timeliness <- DlTimeliness, mode <- dlMode, phase <- dlPhase, timely <- dlTimely,
  pc <- dlPc, owner <- dlOwner, allowed <- dlAllowed, pending <- dlPending, stop <- dlStop, kills <- dlKills,
  work <- dlWork, stopping <- dlStopping

Rw == INSTANCE RwsemLab WITH
  Modes <- RwModes, Timeliness <- RwTimeliness, MayFailThread <- RwMayFailThread, mode <- rwMode,
  phase <- rwPhase, timely <- rwTimely, spawning <- rwSpawning, stopping <- rwStopping, pc <- rwPc,
  writer <- rwWriter, readers <- rwReaders, waitList <- rwWaitList, releaseNow <- rwReleaseNow,
  stop <- rwStop, frames <- rwFrames, answer <- rwAnswer

Lb == INSTANCE LockBench WITH
  Schedule <- LbSchedule, MaxThreads <- LbMaxThreads, MaxOps <- LbMaxOps, MaxSwitches <- LbMaxSwitches,
  MayFailThread <- LbMayFailThread, round <- lbRound, phase <- lbPhase, next <- lbNext,
  running <- lbRunning, ops <- lbOps, tcsw <- lbTcsw, pc <- lbPc, n <- lbN, tmp <- lbTmp, nvcsw <- lbNvcsw,
  holders <- lbHolders, bl_shared <- lbBl_shared, bl_atomic <- lbBl_atomic, rep <- lbRep, did <- lbDid,
  slept <- lbSlept, protected <- lbProtected, atomics <- lbAtomics, failed <- lbFailed

Kh == INSTANCE Khungtaskd WITH
  Pids <- KhPids, HtMax <- KhHtMax, MaxSwitch <- KhMaxSwitch, MaxOn <- KhMaxOn, MayReuse <- FALSE,
  task <- khTask, switches <- khSwitches, htPid <- khHtPid, htCount <- khHtCount, khung <- khKhung,
  todo <- khTodo, ons <- khOns, reported <- khReported, seen <- khSeen, still <- khStill

Full == INSTANCE Khungtaskd WITH
  Pids <- FullPids, HtMax <- FullHtMax, MaxSwitch <- FullMaxSwitch, MaxOn <- FullMaxOn, MayReuse <- FALSE,
  task <- kfTask, switches <- kfSwitches, htPid <- kfHtPid, htCount <- kfHtCount, khung <- kfKhung,
  todo <- kfTodo, ons <- kfOns, reported <- kfReported, seen <- kfSeen, still <- kfStill

\* The modes are those of the modules; timely or not is a choice of the scheduler.
ASSUME DlAssumption ==
  DlModes \subseteq {"aa", "abba", "try", "book"} /\ DlTimeliness \subseteq BOOLEAN
ASSUME RwAssumption ==
  RwModes \subseteq 1..3 /\ RwTimeliness \subseteq BOOLEAN /\ RwMayFailThread \in BOOLEAN
\* A round has a lock and between one thread and MAXT of them.
ASSUME LbAssumption ==
  /\ LbMaxThreads \in Nat /\ LbMaxOps \in Nat /\ LbMaxSwitches \in Nat
  /\ LbSchedule \in Seq(Lb!Kinds \X (1..LbMaxThreads)) /\ LbSchedule # <<>>
\* Pids are positive: 0 marks a free slot of ht_tab.
ASSUME KhAssumption ==
  /\ KhPids \subseteq Nat \ {0} /\ KhHtMax \in Nat /\ KhMaxSwitch \in Nat /\ KhMaxOn \in Nat
ASSUME FullAssumption ==
  /\ FullPids \subseteq Nat \ {0} /\ FullHtMax \in Nat
  /\ FullMaxSwitch \in Nat /\ FullMaxOn \in Nat

dlVars == <<dlMode, dlPhase, dlTimely, dlPc, dlOwner, dlAllowed, dlPending, dlStop, dlKills,
    dlWork, dlStopping>>
rwVars == <<rwMode, rwPhase, rwTimely, rwSpawning, rwStopping, rwPc, rwWriter, rwReaders,
    rwWaitList, rwReleaseNow, rwStop, rwFrames, rwAnswer>>
lbVars == <<lbRound, lbPhase, lbNext, lbRunning, lbOps, lbTcsw, lbPc, lbN, lbTmp, lbNvcsw,
    lbHolders, lbBl_shared, lbBl_atomic, lbRep, lbDid, lbSlept, lbProtected, lbAtomics,
    lbFailed>>
khVars == <<khTask, khSwitches, khHtPid, khHtCount, khKhung, khTodo, khOns, khReported,
    khSeen, khStill>>
kfVars == <<kfTask, kfSwitches, kfHtPid, kfHtCount, kfKhung, kfTodo, kfOns, kfReported,
    kfSeen, kfStill>>
vars == <<running, dlVars, rwVars, lbVars, khVars, kfVars>>

Init ==
  /\ running = "none"
  /\ Dl!Init /\ Rw!Init /\ Lb!Init /\ Kh!Init /\ Full!Init

\* Part p takes a step: the only part that ever runs.
Only(p) == running \in {"none", p} /\ running' = p

DlNext ==
  /\ Only("DlLab") /\ Dl!Next
  /\ UNCHANGED <<rwVars, lbVars, khVars, kfVars>>
RwNext ==
  /\ Only("RwsemLab") /\ Rw!Next
  /\ UNCHANGED <<dlVars, lbVars, khVars, kfVars>>
LbNext ==
  /\ Only("LockBench") /\ Lb!Next
  /\ UNCHANGED <<dlVars, rwVars, khVars, kfVars>>
KhNext ==
  /\ Only("Kh") /\ Kh!Next
  /\ UNCHANGED <<dlVars, rwVars, lbVars, kfVars>>
FullNext ==
  /\ Only("Full") /\ Full!Next
  /\ UNCHANGED <<dlVars, rwVars, lbVars, khVars>>

Next == DlNext \/ RwNext \/ LbNext \/ KhNext \/ FullNext

\* The fair actions of a part that was not started are all disabled.
Spec ==
  /\ Init /\ [][Next]_vars
  /\ Dl!Fairness /\ Rw!Fairness /\ Lb!Fairness /\ Kh!Fairness /\ Full!Fairness

-----------------------------------------------------------------------------
\* Locks and tables keep their shape.  dl_lab.c: a mutex is unlocked only by the
\* thread that holds it (outside mode 1, whose recursive lock is only
\* pretended).  rwsem_lab.c, arm64_lab.c: the wait_list holds the reader and
\* then the second writer.  lockup_lab.c: a pid has one slot of ht_tab.
LabsInv ==
  /\ Dl!TypeOK /\ Rw!TypeOK /\ Lb!TypeOK
  /\ Dl!UnlockByOwner /\ Rw!TwoWaiters /\ Kh!TableInv /\ Full!TableInv

\* dl_lab.c, rwsem_lab.c: rmmod leaves no lock held and no thread, waiter or
\* work item behind.
LabsUnloadClean == Dl!UnloadClean /\ Rw!CleanUnload

\* lock_bench.c: no thread of a round outlives it, no update of the protected
\* data is lost, and the printed counts of operations and of context switches
\* are those of the round.
LbReportExact ==
  Lb!RoundsDoNotOverlap /\ Lb!NoLostUpdate /\ Lb!OpsExact /\ Lb!SwitchesExact

\* lockup_lab.c: a report of a hung task takes two walks between which the task
\* did not run.
KhReportTruthful == Kh!ReportTruthful /\ Full!ReportTruthful

\* lockup_lab.c: a task that stays blocked is reported, until the table is full.
KhHungReported == Kh!HungReported /\ Full!HungReported

\* dl_lab.c: every deadlock it builds dissolves again, given that threads of
\* modes 1 and 2 run before the watchdog's signals.
DlDeadlockResolved == Dl!DeadlockResolved

\* dl_lab.c, rwsem_lab.c: rmmod returns; in modes 1 and 2 of dl_lab.c under
\* the same condition.  lock_bench.c: insmod returns, also when threads could
\* not be created.
LabsReturn == Dl!RmmodReturns /\ Rw!RmmodReturns /\ Lb!InsmodReturns
=============================================================================
