------------------------------ MODULE Programs ------------------------------
(***************************************************************************)
(* The user-space programs, one of which is run: they share nothing, so that*)
(* exploring them together would only multiply states.                     *)
(***************************************************************************)
EXTENDS Integers, Sequences, FiniteSets

CONSTANTS
  WbMaxRuns, WbProps,                          \* of WbTest
  SpyThreads, SpyMaxObj, SpyNames, SpyAreas, SpyMAXB,   \* of RkSpy
  LitN, LitREP, LitIters,                      \* of Litmus
  ForkN, ForkROUNDS,                           \* of ForkLabs
  ThrNthr, ThrROUNDS, ThrMaxOps,               \* of ThreadLabs
  FltPages, FltThreads, FltMaxOther            \* of FaultLabs

VARIABLES
  running,     \* the part that was started, "none" before
  wbPc, wbScen, wbRuns, wbFails, wbMissing, wbModes, wbBufs, wbBlob, wbTodo, wbReq, wbAdds,
  wbAsked, wbKms, wbRefused, wbF, wbRet, wbFence, wbWb, wbSaved,
  spyObjs, spyBufs, spyNbuf, spyPc, spyCur, spySeen, spyRaced,
  litTest, litMode, litPc, litRound, litTh, litGo, litEx, litIt, litMem, litReg, litN00,
  litCounted, litObserved, litViolations, litFailed,
  forkProg, forkPc, forkI, forkR, forkChild, forkPid, forkWr, forkTo, forkBack, forkHist,
  forkFailed, forkStrays,
  thrProg, thrPc, thrRound, thrNext, thrTh, thrN, thrStop, thrCounter, thrSlots, thrCpus,
  thrPrinted, thrArrived,
  fltProg, fltPos, fltPte, fltShared, fltCache, fltFile, fltData, fltSwept, fltMinor, fltMajor,
  fltOwn, fltStray, fltStrayMaj, fltCopies, fltSaid, fltTh, fltAt, fltPresent, fltLost,
  fltFaults, fltSpurious, fltOther, fltPrinted

Wb == INSTANCE WbTest WITH
  MaxRuns <- WbMaxRuns, Props <- WbProps, pc <- wbPc, scen <- wbScen, runs <- wbRuns, fails <- wbFails,
  missing <- wbMissing, modes <- wbModes, bufs <- wbBufs, blob <- wbBlob, todo <- wbTodo, req <- wbReq,
  adds <- wbAdds, asked <- wbAsked, kms <- wbKms, refused <- wbRefused, f <- wbF, ret <- wbRet, fence <- wbFence,
  wb <- wbWb, saved <- wbSaved

Spy == INSTANCE RkSpy WITH
  Threads <- SpyThreads, MaxObj <- SpyMaxObj, Names <- SpyNames, Areas <- SpyAreas, MAXB <- SpyMAXB,
  objs <- spyObjs, bufs <- spyBufs, nbuf <- spyNbuf, pc <- spyPc, cur <- spyCur, seen <- spySeen,
  raced <- spyRaced

Lit == INSTANCE Litmus WITH
  N <- LitN, REP <- LitREP, iters <- LitIters, test <- litTest, mode <- litMode, pc <- litPc, round <- litRound,
  th <- litTh, go <- litGo, ex <- litEx, it <- litIt, mem <- litMem, reg <- litReg, n00 <- litN00,
  counted <- litCounted, observed <- litObserved, violations <- litViolations, failed <- litFailed

Fork == INSTANCE ForkLabs WITH
  N <- ForkN, ROUNDS <- ForkROUNDS, prog <- forkProg, pc <- forkPc, i <- forkI, r <- forkR, child <- forkChild,
  pid <- forkPid, wr <- forkWr, to <- forkTo, back <- forkBack, hist <- forkHist, failed <- forkFailed,
  strays <- forkStrays

Thr == INSTANCE ThreadLabs WITH
  nthr <- ThrNthr, ROUNDS <- ThrROUNDS, MaxOps <- ThrMaxOps, prog <- thrProg, pc <- thrPc, round <- thrRound,
  next <- thrNext, th <- thrTh, n <- thrN, stop <- thrStop, counter <- thrCounter, slots <- thrSlots,
  cpus <- thrCpus, printed <- thrPrinted, arrived <- thrArrived

Flt == INSTANCE FaultLabs WITH
  Pages <- FltPages, Threads <- FltThreads, MaxOther <- FltMaxOther, prog <- fltProg, pos <- fltPos,
  pte <- fltPte, shared <- fltShared, cache <- fltCache, file <- fltFile, data <- fltData,
  swept <- fltSwept, minor <- fltMinor, major <- fltMajor, own <- fltOwn, stray <- fltStray,
  strayMaj <- fltStrayMaj, copies <- fltCopies, said <- fltSaid, th <- fltTh, at <- fltAt,
  present <- fltPresent, lost <- fltLost, faults <- fltFaults, spurious <- fltSpurious,
  other <- fltOther, printed <- fltPrinted

\* The sizes of rkspy's table, of the driver's tables and of the tests are
\* those of the program: at least one, and no driver name is 0.
ASSUME SpyAssumption == Spy!SpyConstants
ASSUME LitAssumption == Lit!Sizes
ASSUME ForkAssumption == Fork!ForkSizes
ASSUME ThrAssumption == Thr!ThrSizes
ASSUME FltAssumption == Flt!FltSizes

wbVars == <<wbPc, wbScen, wbRuns, wbFails, wbMissing, wbModes, wbBufs, wbBlob, wbTodo,
    wbReq, wbAdds, wbAsked, wbKms, wbRefused, wbF, wbRet, wbFence, wbWb, wbSaved>>
spyVars == <<spyObjs, spyBufs, spyNbuf, spyPc, spyCur, spySeen, spyRaced>>
litVars == <<litTest, litMode, litPc, litRound, litTh, litGo, litEx, litIt, litMem, litReg,
    litN00, litCounted, litObserved, litViolations, litFailed>>
forkVars == <<forkProg, forkPc, forkI, forkR, forkChild, forkPid, forkWr, forkTo, forkBack,
    forkHist, forkFailed, forkStrays>>
thrVars == <<thrProg, thrPc, thrRound, thrNext, thrTh, thrN, thrStop, thrCounter, thrSlots,
    thrCpus, thrPrinted, thrArrived>>
fltVars == <<fltProg, fltPos, fltPte, fltShared, fltCache, fltFile, fltData, fltSwept,
    fltMinor, fltMajor, fltOwn, fltStray, fltStrayMaj, fltCopies, fltSaid, fltTh, fltAt,
    fltPresent, fltLost, fltFaults, fltSpurious, fltOther, fltPrinted>>
vars == <<running, wbVars, spyVars, litVars, forkVars, thrVars, fltVars>>

Init ==
  /\ running = "none"
  /\ Wb!Init /\ Spy!Init /\ Lit!Init /\ Fork!Init /\ Thr!Init /\ Flt!Init

\* Part p takes a step: the only part that ever runs.
Only(p) == running \in {"none", p} /\ running' = p

WbNext ==
  /\ Only("WbTest") /\ Wb!Next
  /\ UNCHANGED <<spyVars, litVars, forkVars, thrVars, fltVars>>
SpyNext ==
  /\ Only("RkSpy") /\ Spy!Next
  /\ UNCHANGED <<wbVars, litVars, forkVars, thrVars, fltVars>>
LitNext ==
  /\ Only("Litmus") /\ Lit!Next
  /\ UNCHANGED <<wbVars, spyVars, forkVars, thrVars, fltVars>>
ForkNext ==
  /\ Only("ForkLabs") /\ Fork!Next
  /\ UNCHANGED <<wbVars, spyVars, litVars, thrVars, fltVars>>
ThrNext ==
  /\ Only("ThreadLabs") /\ Thr!Next
  /\ UNCHANGED <<wbVars, spyVars, litVars, forkVars, fltVars>>
FltNext ==
  /\ Only("FaultLabs") /\ Flt!Next
  /\ UNCHANGED <<wbVars, spyVars, litVars, forkVars, thrVars>>

Next == WbNext \/ SpyNext \/ LitNext \/ ForkNext \/ ThrNext \/ FltNext

\* The fair actions of a part that was not started are all disabled.
Spec ==
  /\ Init /\ [][Next]_vars
  /\ Wb!Fairness /\ Lit!Fairness /\ Fork!Fairness /\ Thr!Fairness

-----------------------------------------------------------------------------
\* wbtest.c: the atomic request the kernel decodes is the one the code built;
\* what a scenario saves as its picture was written by the hardware; and it
\* leaves no plane on and no buffer behind unless a commit was refused or it is
\* counted as failed.
WbScenarioExact == Wb!RequestExact /\ Wb!SavedIsCaptured /\ Wb!CleanScreen

\* rkspy.c: the table holds the buffers of the runtime, and a submit is decoded
\* from the memory of the objects it names.
SpyExact == Spy!SpyExact

\* barrier_sb.c, barrier_mp.c: the barriers forbid the outcomes they should.
LitmusOutcomes == Lit!LitmusOutcomes

\* lse_bench.c, heat.c, membw.c, fault_types.c, concurrent_fault.c: the numbers
\* printed are those of the work done, and what the program announces.
\* wake_cpu.c, lb_case.c, sched_weight.c, vruntime_place.c: every child is
\* counted once, killed and reaped.
LabCountsExact ==
  /\ Thr!CountsExact /\ Thr!PhasesTogether
  /\ Flt!FaultsAsAnnounced /\ Flt!ExtraFaults
  /\ Fork!ForkLabsClean

\* Every program ends, and wake_cpu's children end with it even if it dies.
\* Only one program runs, so that one formula says it of all of them.
SomeRuns == Wb!TestRuns \/ Lit!LitmusRuns \/ Fork!ForkLabRuns \/ Thr!BenchRuns
IsOver ==
  /\ running = "WbTest" => Wb!TestOver
  /\ running = "Litmus" => Lit!LitmusOver
  /\ running = "ForkLabs" => Fork!ForkLabOver
  /\ running = "ThreadLabs" => Thr!BenchOver
ProgramsEnd == (SomeRuns ~> IsOver) /\ Fork!NoOrphans
=============================================================================
