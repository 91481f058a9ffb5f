------------------------------- MODULE Probes -------------------------------
(***************************************************************************)
(* The kernel modules among the probes, one of which is loaded: they share *)
(* the kernel they look into, but no state.                                *)
(*   ctx_probe    in which context a callback runs                         *)
(*   irq_live     kprobes on the interrupt path of every CPU               *)
(*   crash_probe  looks at a task that goes on living                      *)
(*   rcu_demo     its modes 1 to 3; mode 0 is RcuDemo                      *)
(***************************************************************************)
EXTENDS Integers, Sequences, FiniteSets

CONSTANTS
  CtxModes, CtxMaxLate,                              \* of CtxProbe
  IrqCpus, IrqSamples, IrqSps, IrqMaxIrqs,           \* of IrqLive
  CpStackLo, CpStackHi, CpMaxFrames, CpNWaiters,     \* of CrashProbe
  RmRounds                                           \* of RcuModes

VARIABLES
  running,     \* the part that was started, "none" before
  ctxMode, ctxPhase, ctxPc, ctxLate, ctxTimely, ctxQueued, ctxStage, ctxLocal, ctxLabel,
  ctxNfp, ctxFp, ctxDone, ctxFromHardirq, ctxInited, ctxSleptOk, ctxVictim, ctxGap,
  irqPhase, irqProbes, irqPc, irqEl, irqIrqs, irqSpMin, irqSpMax, irqSpSeen, irqPrlock,
  irqGot, irqEvtGot, irqFrames, irqDispatches,
  cpTask, cpCmd, cpPc, cpHeld, cpFp, cpFrame, cpWaiters, cpCur, cpReads, cpMoved, cpBad,
  rmMode, rmPc, rmI, rmInside, rmGp, rmGpOn, rmCb, rmCbDone, rmPage, rmA, rmB, rmKey,
  rmLastRead, rmStaller, rmDone

Ctx == INSTANCE CtxProbe WITH
  Modes <- CtxModes, MaxLate <- CtxMaxLate, mode <- ctxMode, phase <- ctxPhase, pc <- ctxPc,
  late <- ctxLate, timely <- ctxTimely, queued <- ctxQueued, stage <- ctxStage,
  local <- ctxLocal, label <- ctxLabel, nfp <- ctxNfp, fp <- ctxFp, done <- ctxDone,
  fromHardirq <- ctxFromHardirq, inited <- ctxInited, sleptOk <- ctxSleptOk,
  victim <- ctxVictim, gap <- ctxGap

Irq == INSTANCE IrqLive WITH
  Cpus <- IrqCpus, Samples <- IrqSamples, Sps <- IrqSps, MaxIrqs <- IrqMaxIrqs,
  phase <- irqPhase, probes <- irqProbes, pc <- irqPc, el <- irqEl, irqs <- irqIrqs,
  spMin <- irqSpMin, spMax <- irqSpMax, spSeen <- irqSpSeen, prlock <- irqPrlock,
  got <- irqGot, evtGot <- irqEvtGot, frames <- irqFrames, dispatches <- irqDispatches

Crash == INSTANCE CrashProbe WITH
  StackLo <- CpStackLo, StackHi <- CpStackHi, MaxFrames <- CpMaxFrames,
  NWaiters <- CpNWaiters, task <- cpTask, cmd <- cpCmd, pc <- cpPc, held <- cpHeld,
  fp <- cpFp, frame <- cpFrame, waiters <- cpWaiters, cur <- cpCur, reads <- cpReads,
  moved <- cpMoved, bad <- cpBad

Rcu == INSTANCE RcuModes WITH
  Rounds <- RmRounds, mode <- rmMode, pc <- rmPc, i <- rmI, inside <- rmInside, gp <- rmGp,
  gpOn <- rmGpOn, cb <- rmCb, cbDone <- rmCbDone, page <- rmPage, a <- rmA, b <- rmB,
  key <- rmKey, lastRead <- rmLastRead, staller <- rmStaller, done <- rmDone

\* ctx_probe.c has four modes; a stack has two words at least, and a machine a CPU.
ASSUME CtxAssumption == CtxModes \subseteq 0..3 /\ CtxMaxLate \in Nat
ASSUME IrqAssumption ==
  /\ IsFiniteSet(IrqCpus) /\ IrqCpus # {}
  /\ IrqSamples \in Nat /\ IrqMaxIrqs \in Nat
  /\ IrqSps \subseteq Nat \ {0}
ASSUME CpAssumption ==
  /\ CpStackLo \in Nat /\ CpStackHi \in Nat \ {0, 1}
  /\ CpMaxFrames \in Nat /\ CpNWaiters \in Nat
ASSUME RmAssumption == RmRounds \in Nat

ctxVars == <<ctxMode, ctxPhase, ctxPc, ctxLate, ctxTimely, ctxQueued, ctxStage, ctxLocal,
    ctxLabel, ctxNfp, ctxFp, ctxDone, ctxFromHardirq, ctxInited, ctxSleptOk, ctxVictim,
    ctxGap>>
irqVars == <<irqPhase, irqProbes, irqPc, irqEl, irqIrqs, irqSpMin, irqSpMax, irqSpSeen,
    irqPrlock, irqGot, irqEvtGot, irqFrames, irqDispatches>>
cpVars == <<cpTask, cpCmd, cpPc, cpHeld, cpFp, cpFrame, cpWaiters, cpCur, cpReads, cpMoved,
    cpBad>>
rmVars == <<rmMode, rmPc, rmI, rmInside, rmGp, rmGpOn, rmCb, rmCbDone, rmPage, rmA, rmB,
    rmKey, rmLastRead, rmStaller, rmDone>>
probesVars == <<running, ctxVars, irqVars, cpVars, rmVars>>

ProbesInit == running = "none" /\ Ctx!Init /\ Irq!Init /\ Crash!Init /\ Rcu!Init

\* Part p takes a step: the only part that ever runs.
Only(p) == running \in {"none", p} /\ running' = p

CtxNext == Only("CtxProbe") /\ Ctx!Next /\ UNCHANGED <<irqVars, cpVars, rmVars>>
IrqNext == Only("IrqLive") /\ Irq!Next /\ UNCHANGED <<ctxVars, cpVars, rmVars>>
CrashNext == Only("CrashProbe") /\ Crash!Next /\ UNCHANGED <<ctxVars, irqVars, rmVars>>
RcuNext == Only("RcuModes") /\ Rcu!Next /\ UNCHANGED <<ctxVars, irqVars, cpVars>>

ProbesNext == CtxNext \/ IrqNext \/ CrashNext \/ RcuNext

\* The fair actions of a part that was not started are all disabled.
ProbesFairness == Ctx!Fairness /\ Crash!Fairness /\ Rcu!Fairness

ProbesSpec == ProbesInit /\ [][ProbesNext]_probesVars /\ ProbesFairness

-----------------------------------------------------------------------------
\* ctx_probe.c, irq_live.c: what the two probes print is what happened.  Every
\* line of the context table shows the context its callback ran in; the frames
\* of irq_live are numbered without a gap, its dispatches stay within samples
\* per CPU, and the span of stack pointers covers exactly those of one CPU.
ProbesReportExact ==
  Ctx!TableExact /\ Irq!FramesExact /\ Irq!DispatchesBounded /\ Irq!SpansExact

\* What may be outstanding when rmmod frees a module's text, and what is read
\* after it was freed.  ctx_probe.c: no work item or timer, and no tasklet but
\* those of late timers.  rcu_demo.c, modes 1 to 3: no callback, reader or
\* object, and of the stalling thread no more than its return.  crash_probe.c:
\* a command keeps the task_struct of the pid it was given, reads no word
\* outside the stack, and reads what a task or a waiter has freed only if that
\* task or the list changed meanwhile (but for the last reader of a semaphore).
ProbesMemorySafe ==
  /\ Ctx!UnloadSafe /\ Rcu!ModesQuiet
  /\ Crash!TaskPinned /\ Crash!WalkInBounds /\ Crash!StableTargetSafe

\* ctx_probe.c, rcu_demo.c, crash_probe.c: insmod, rmmod and every command end,
\* but for the walk of a wait_list that has read a waiter which had left.
ProbesReturn == Ctx!ModuleCallsReturn /\ Rcu!ModesInsmodReturns /\ Crash!CommandEnds
=============================================================================
